----------------------------- MODULE BehaviorTree -----------------------------
(***************************************************************************)
(* The engine of BehaviorTree.CPP: the thread that ticks the tree, node by *)
(* node, and the threads of the timer queues.                              *)
(*                                                                         *)
(* Not here: haltTree, after which the program ends; the node types listed *)
(* in the README; the post-conditions and the observers of the ticks.      *)
(***************************************************************************)
EXTENDS ControlNodes, DecoratorNodes, LeafNodes

Controls   == Ordered \cup Reactives \cup Parallels \cup Branches
Decorators == Plain \cup Loops \cup Clocked
              \cup {"Precondition", "Updated", "RunOnce", "Loop"}

\* What the constructors and the parser ask of a tree: the children and the ports of
\* each type.
WellFormed(T) ==
  /\ \A n \in DOMAIN T.kind :
       LET k     == T.kind[n]
           arity == IF n \in DOMAIN T.children THEN Len(T.children[n]) ELSE 0
       IN  /\ k \in Controls                       => arity >= 1
           /\ k = "TryCatch"                       => arity >= 2
           /\ k \in {"IfThenElse", "WhileDoElse"}  => arity \in 2 .. 3
           /\ k \in Decorators                     => arity = 1
           /\ k \notin Controls \cup Decorators    => arity = 0
           /\ k \in Loops                          => T.param[n] \in Nat \cup {-1}
           /\ k = "Loop"                           => T.param[n] \in Nat
           /\ k = "Sleep" /\ n \in DOMAIN T.param  => T.param[n] \in Nat
           /\ k = "Parallel"                       => T.param[n].success \in Int
           /\ k \in Parallels                      => T.param[n].failure \in Int
           /\ k \in {"Precondition", "Updated", "Loop"} => T.else[n] \in Results
  /\ \A n \in DOMAIN T.writes : T.writes[n] \subseteq Values

ASSUME PortsAssumption == \A t \in DOMAIN Forest : WellFormed(Forest[t])

NodeStep(n) == Preempt(n) \/ ControlStep(n) \/ DecoratorStep(n) \/ LeafStep(n)

TickStep  == \/ TickRoot \/ TickAgain \/ TickEnds
             \/ stack # <<>> /\ NodeStep(Last(stack))
TimerStep == \E n \in DOMAIN timer : SleepStep(n) \/ ClockStep(n)

Next == TickStep \/ TimerStep

Spec == Init /\ [][Next]_vars

-----------------------------------------------------------------------------
(* Properties                                                              *)

\* Between two ticks no leaf runs that its ancestors have forgotten (a halt of the root
\* would reach it), and only one leaf runs, unless there is a Parallel, or a WhileDoElse
\* whose condition runs beside the branch chosen before.
NoOrphan ==
  stack = <<>> /\ ret # "EXCEPTION" =>
    LET leaves == {n \in Nodes : Children(n) = <<>> /\ status[n] = "RUNNING"} IN
      /\ leaves \subseteq Running(Root)
      /\ Cardinality(leaves) <= 1 \/ \E n \in Nodes : Kind(n) \in Parallels \cup {"WhileDoElse"}

\* A node ticked while IDLE starts afresh, whether the activation before has completed,
\* was halted or was skipped: no child has a status left, no timer is pending, and
\* tick() finds its members as the constructor left them.  That is on purpose not so
\* for SequenceWithMemory and RunOnce; it happens to Precondition, and to an IfThenElse
\* without an "else", whose statement keeps its status.  Loop resets its members itself.
FreshStart ==
  \A n \in Nodes :
    Inside(n) /\ ret = None /\ status[n] = "IDLE" =>
      /\ \A c \in ChildSet(n) :
           IF status[c] = "RUNNING" THEN \A l \in Running(c) : Children(l) # <<>>
           ELSE status[c] = "IDLE" \/ Kind(n) \in {"SequenceWithMemory", "IfThenElse"}
      /\ n \in DOMAIN mem =>
           CASE Kind(n) \in {"SequenceWithMemory", "RunOnce", "Precondition", "Loop"} -> TRUE
             [] Kind(n) \in Ordered \ {"SequenceWithMemory"} -> mem[n].idx = 1
             [] Kind(n) \in Clocked -> ~mem[n].on
             [] OTHER -> mem[n] = Blank
      /\ n \in DOMAIN timer /\ n \notin over => timer[n] = "off"

\* A Sleep, a Delay or a Timeout is not over before the timer it has started last is,
\* unless a handler of an earlier timer was still to run when it was started.
EarlyNeedsOldHandler ==
  \A n \in DOMAIN timer :
    timer[n] \in {"added", "waiting"} /\ status[n] = "RUNNING" /\ n \notin over =>
      IF Kind(n) = "Sleep" THEN mem[n].on ELSE ~mem[n].hit

\* Nothing is ever halted by a parent that completes: when a child has returned
\* SUCCESS or FAILURE, no child of its parent is running.
NothingHalted ==
  stack # <<>> /\ ret \in Completed =>
    \A c \in ChildSet(Last(stack)) : status[c] # "RUNNING"

\* "Return the execution flow ..., to make this interruptible" (retry_node.cpp):
\* every tick of the root returns to the timer callback that made it.
TickReturns == (stack # <<>>) ~> (stack = <<>> /\ ret = None)
=============================================================================
