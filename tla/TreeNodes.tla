------------------------------ MODULE TreeNodes ------------------------------
(***************************************************************************)
(* What all nodes of BehaviorTree.CPP share: their status, how a node is   *)
(* ticked (TreeNode::executeTick) and halted (TreeNode::haltNode), the     *)
(* timers of the nodes that wait, the wake-up signal, and Tree::tickRoot.  *)
(*                                                                         *)
(* A tick is a run of small steps over the stack of the nodes inside       *)
(* executeTick(), during which the threads of the timer queues may run     *)
(* their handlers.  What tick() does between two calls of executeTick() is *)
(* one step.                                                               *)
(*                                                                         *)
(* A tree is a record: root, kind (the registered type of each node),      *)
(* children, below (each node with all under it), and the ports and        *)
(* scripts of the nodes that have any: pre (the kind of pre-condition),    *)
(* param (num_attempts, ...), else, cond (the values of the blackboard     *)
(* entry for which the "if" of a Precondition is true), writes (the values *)
(* a leaf may write when it succeeds) and mayFail (the action leaves that  *)
(* may fail in the tick that starts them).                                 *)
(***************************************************************************)
EXTENDS Integers, Sequences, FiniteSets, SequencesExt

CONSTANTS
  Forest,    \* the trees, by name
  Values     \* what the blackboard entry may hold

VARIABLES
  tree,      \* the name of the tree that is run
  status,    \* TreeNode::status()
  mem,       \* the members and the locals of tick(), of the nodes that have any
  timer,     \* the timer a Sleep, a Delay or a Timeout has started last
  stale,     \* its earlier handlers that are still to run
  over,      \* history: the nodes that started a timer while stale was not empty
  value,     \* the blackboard entry
  stack,     \* the nodes inside executeTick(), the innermost last
  ret,       \* what the node last left returned to its parent
  wake       \* the wake-up signal

timerVars == <<timer, stale, over>>
vars == <<tree, status, mem, timerVars, value, stack, ret, wake>>

Completed == {"SUCCESS", "FAILURE"}
Results   == {"RUNNING", "SKIPPED"} \cup Completed
Statuses  == {"IDLE", "RUNNING"} \cup Completed
None      == "unset"

Nodes        == DOMAIN Forest[tree].kind
Root         == Forest[tree].root
Kind(n)      == Forest[tree].kind[n]
Port(p, n)   == Forest[tree][p][n]
Has(p, n)    == n \in DOMAIN Forest[tree][p]
Children(n)  == IF Has("children", n) THEN Port("children", n) ELSE <<>>
ChildSet(n)  == ToSet(Children(n))
Below(n)     == Port("below", n)

\* What makes T a finite tree, without an induction: every node but the root has one
\* parent, what is below a node is the node and what is below its children, and two
\* nodes of which none is below the other part at some node.
IsTree(T) ==
  LET nodes   == DOMAIN T.kind
      kids(n) == IF n \in DOMAIN T.children THEN T.children[n] ELSE <<>>
  IN  /\ T.root \in nodes /\ T.below \in [nodes -> SUBSET nodes]
      /\ T.below[T.root] = nodes
      /\ \A n \in nodes :
           /\ kids(n) \in Seq(nodes)
           /\ T.below[n] = {n} \cup UNION {T.below[kids(n)[i]] : i \in DOMAIN kids(n)}
           /\ \A i, j \in DOMAIN kids(n) :
                i # j => T.below[kids(n)[i]] \cap T.below[kids(n)[j]] = {}
           /\ \A i \in DOMAIN kids(n) :
                /\ n \notin T.below[kids(n)[i]]
                /\ \A y \in nodes : kids(n)[i] \in T.below[y] =>
                                     y = kids(n)[i] \/ n \in T.below[y]
      /\ \A y \in nodes : \A x \in T.below[y] :
           /\ T.below[x] \subseteq T.below[y]
           /\ x # y => \E p \in T.below[y] : \E i \in DOMAIN kids(p) : x = kids(p)[i]
      /\ \A x, y \in nodes :
           \/ x \in T.below[y] \/ y \in T.below[x]
           \/ \E n \in nodes : \E i, j \in DOMAIN kids(n) :
                i # j /\ x \in T.below[kids(n)[i]] /\ y \in T.below[kids(n)[j]]

ASSUME ForestAssumption == \A t \in DOMAIN Forest : IsTree(Forest[t])
ASSUME ValuesAssumption == None \notin Values

Sequences_ == {"Sequence", "AsyncSequence", "SequenceWithMemory", "TryCatch"}
Fallbacks  == {"Fallback", "AsyncFallback"}
Reactives  == {"ReactiveSequence", "ReactiveFallback"}
Parallels  == {"Parallel", "ParallelAll"}
Branches   == {"IfThenElse", "WhileDoElse", "Switch"}
Timed      == {"Sleep", "Delay", "Timeout"}
WithMem    == Sequences_ \cup Fallbacks \cup Reactives \cup Parallels \cup Branches \cup Timed
              \cup {"Repeat", "Retry", "Precondition", "RunOnce", "Loop", "Updated"}

\* idx: the child ticked last (running_child_, current_child_idx_, ...); skips, count,
\* done: skipped_count_, the counter, completed_list_; on: in_catch_, already_ticked_,
\* _children_running, timer_waiting_, ...; hit: delay_complete_, child_halted_; fresh:
\* prev_status == IDLE.
Blank == [idx |-> 1, skips |-> 0, count |-> 0, done |-> {},
          on |-> FALSE, hit |-> FALSE, fresh |-> FALSE]

MemType(n) ==
  [idx : {1} \cup DOMAIN Children(n), skips : Nat, count : Nat,
   done : SUBSET (1 .. Len(Children(n))), on : BOOLEAN, hit : BOOLEAN, fresh : BOOLEAN]

TypeOK ==
  /\ tree   \in DOMAIN Forest
  /\ status \in [Nodes -> Statuses]
  /\ mem = [n \in {n \in Nodes : Kind(n) \in WithMem} |-> mem[n]]
  /\ \A n \in DOMAIN mem : mem[n] \in MemType(n)
  /\ DOMAIN timer = {n \in Nodes : Kind(n) \in Timed}
  /\ timer  \in [DOMAIN timer -> {"off", "added", "waiting", "signalled"}]
  /\ stale  \in [DOMAIN timer -> SUBSET {"aborted", "due"}]
  /\ over \subseteq DOMAIN timer
  /\ value  \in Values \cup {None}
  /\ stack  \in Seq(Nodes)
  /\ ret    \in Results \cup {None, "EXCEPTION"}
  /\ wake   \in BOOLEAN

Init ==
  /\ tree \in DOMAIN Forest
  /\ status = [n \in Nodes |-> "IDLE"]
  /\ mem    = [n \in {n \in Nodes : Kind(n) \in WithMem} |-> Blank]
  /\ timer  = [n \in {n \in Nodes : Kind(n) \in Timed} |-> "off"]
  /\ stale  = [n \in DOMAIN timer |-> {}]
  /\ over = {} /\ value = None
  /\ stack = <<>> /\ ret = None /\ wake = FALSE

-----------------------------------------------------------------------------
(* haltNode() and resetStatus()                                            *)

\* haltNode() of n, which runs, goes on to what runs below it: a node is reached when
\* all between n and it run.
Running(n) ==
  IF status[n] = "RUNNING"
  THEN {x \in Below(n) : \A y \in Below(n) : x \in Below(y) => status[y] = "RUNNING"}
  ELSE {}

\* haltChild() on each node of H.
Halted(H) == UNION {Running(h) : h \in H}

\* Mutant: current_child_idx_ survives a halt.
HaltedMemKeeps(x) == mem[x]

\* The members after halt(), which SequenceWithMemory keeps on purpose and the
\* other decorators here do not override.
HaltedMem(x) ==
  IF Kind(x) \in {"SequenceWithMemory", "RunOnce", "Precondition", "Loop"}
  THEN mem[x] ELSE Blank

\* tick() of n leaves s and m behind, and has called haltChild() on each node of H.
\* A SKIPPED node keeps its status.
Leaves(n, s, m, H) ==
  LET halted == Halted(H)
      reset  == H \cup UNION {ChildSet(x) : x \in halted} IN
  /\ status' = [x \in Nodes |-> CASE x = n /\ s # "SKIPPED" -> s
                                  [] x \in reset            -> "IDLE"
                                  [] OTHER                  -> status[x]]
  /\ mem' = [x \in DOMAIN mem |-> CASE x = n              -> m
                                    [] x \in halted \ {n} -> HaltedMem(x)
                                    [] OTHER              -> mem[x]]

\* The timers of C are cancelled, from the state t, s of the queues: each handler is
\* still to run, aborted, or due if the worker has taken it already.  TimeoutNode's
\* does nothing when aborted.
CancelsIn(C, t, s) ==
  \E late \in SUBSET {x \in C : t[x] = "waiting"} :
    /\ timer' = [x \in DOMAIN t |-> IF x \in C THEN "off" ELSE t[x]]
    /\ stale' = [x \in DOMAIN t |->
                   s[x] \cup
                   CASE x \in late                      -> {"due"}
                     [] x \notin C \/ t[x] = "off"      -> {}
                     [] x \notin late /\ x \in C /\ t[x] # "off" ->
                          IF Kind(x) = "Timeout" THEN {} ELSE {"aborted"}]
    /\ UNCHANGED over

Cancels(C) == CancelsIn(C \cap DOMAIN timer, timer, stale)

\* A timer is added; one that was left behind is still to run.
Starts(n) ==
  /\ timer' = [timer EXCEPT ![n] = "added"]
  /\ stale' = [stale EXCEPT ![n] = @ \cup CASE timer[n] = "off"       -> {}
                                            [] timer[n] = "signalled" -> {"aborted"}
                                            [] OTHER                  -> {"due"}]
  /\ over' = IF stale'[n] = {} THEN over \ {n} ELSE over \cup {n}

-----------------------------------------------------------------------------
(* executeTick()                                                           *)

\* Inside tick() of n: just entered, or a child has just returned s.
Inside(n)     == stack # <<>> /\ Last(stack) = n
Entered(n, K) == Inside(n) /\ ret = None /\ Kind(n) \in K
Back(n, K)    == Inside(n) /\ ret # None /\ Kind(n) \in K

Calls(n, i)  == stack' = Append(stack, Children(n)[i]) /\ ret' = None
Exits(s)     == stack' = Front(stack) /\ ret' = s

\* tick() goes on to the i-th child, or is over, with status and members s and m.
Call(n, s, m, H, i) ==
  /\ Leaves(n, s, m, H) /\ Cancels(Halted(H))
  /\ Calls(n, i)

Return(n, s, m, H) ==
  /\ Leaves(n, s, [m EXCEPT !.fresh = FALSE], H) /\ Cancels(Halted(H))
  /\ Exits(s)

\* For a node without members.
ReturnPlain(n, s, H) ==
  /\ Leaves(n, s, Blank, H) /\ Cancels(Halted(H))
  /\ Exits(s)

\* An exception leaves tickRoot(): the program ends.
Throw ==
  /\ stack' = <<>> /\ ret' = "EXCEPTION"
  /\ UNCHANGED <<status, mem, timerVars>>

\* checkPreConditions(): the script may hold or not.  Only _while is looked at while
\* the node runs.
Preempt(n) ==
  /\ Inside(n) /\ ret = None /\ Has("pre", n)
  /\ LET m == IF n \in DOMAIN mem THEN mem[n] ELSE Blank IN
     \/ /\ status[n] = "IDLE"
        /\ Return(n, CASE Port("pre", n) = "failureIf" -> "FAILURE"
                       [] Port("pre", n) = "successIf" -> "SUCCESS"
                       [] OTHER                        -> "SKIPPED", m, {})
     \/ /\ status[n] = "RUNNING" /\ Port("pre", n) = "while"
        /\ Return(n, "SKIPPED", IF n \in DOMAIN mem THEN HaltedMem(n) ELSE Blank, {n})
  /\ UNCHANGED <<tree, value, wake>>

-----------------------------------------------------------------------------
(* Tree::tickRoot, called by tickOnce                                      *)

\* A signal emitted while waitFor gives up is lost.
EmitWakeUpSignal ==
  wake' \in IF stack = <<>> /\ ret = "RUNNING" THEN {TRUE, wake} ELSE {TRUE}

TickRoot ==
  /\ stack = <<>> /\ ret = None
  /\ stack' = <<Root>>
  /\ UNCHANGED <<tree, status, mem, timerVars, value, ret, wake>>

\* Mutant: waitFor leaves the signal set.
TickAgainKeepsSignal ==
  /\ stack = <<>> /\ ret = "RUNNING" /\ wake
  /\ stack' = <<Root>> /\ ret' = None
  /\ UNCHANGED <<tree, status, mem, timerVars, value, wake>>

\* The wake-up signal was emitted: the inner loop ticks once more.
TickAgain ==
  /\ stack = <<>> /\ ret = "RUNNING" /\ wake
  /\ wake' = FALSE
  /\ stack' = <<Root>> /\ ret' = None
  /\ UNCHANGED <<tree, status, mem, timerVars, value>>

\* A timer is longer than a tick: it cannot be over before its tick is.
TickEnds ==
  /\ stack = <<>> /\ ret \in Results
  /\ ret # "RUNNING" \/ ~wake
  /\ ret' = None
  /\ status' = IF ret \in Completed THEN [status EXCEPT ![Root] = "IDLE"] ELSE status
  /\ timer' = [n \in DOMAIN timer |-> IF timer[n] = "added" THEN "waiting" ELSE timer[n]]
  /\ UNCHANGED <<tree, mem, stale, over, value, stack, wake>>
=============================================================================
