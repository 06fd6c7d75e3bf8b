------------------------------ MODULE NodeResults ------------------------------
(***************************************************************************)
(* What the headers of the control nodes and of the decorators promise of  *)
(* a result, told by the results of the children: the engine with a        *)
(* history of what the children of one node have returned to it.           *)
(***************************************************************************)
EXTENDS BehaviorTree

CONSTANT
  Subject  \* the node of each tree whose results are told

ASSUME SubjectAssumption ==
  /\ DOMAIN Subject = DOMAIN Forest
  /\ \A t \in DOMAIN Forest : Subject[t] \in DOMAIN Forest[t].kind

VARIABLES
  got,     \* history: the last result of each child of X in this activation
  tries    \* history: how often a child has ended in it

varsR == <<vars, got, tries>>

X     == Subject[tree]
Unset == [i \in DOMAIN Children(X) |-> None]

\* The first i children have passed, or were skipped.
Passed(i) == \A j \in 1 .. i : got[j] \in {Pass(X), "SKIPPED"}

\* One of the first n children has decided: those before it have passed, and those
\* after it have not been ticked.
Decided(n) ==
  \E i \in 1 .. n :
    /\ got[i] = Stop(X) /\ Passed(i - 1)
    /\ \A j \in i + 1 .. n : got[j] = None

Count(s) == Cardinality({i \in DOMAIN Children(X) : got[i] = s})

-----------------------------------------------------------------------------
EntersX  == Len(stack') > Len(stack) /\ Last(stack') = X
BackToX  == Len(stack') < Len(stack) /\ stack' # <<>> /\ Last(stack') = X

\* An activation begins where X was IDLE, and where the children of an ordered node have
\* all passed; the reactive nodes begin anew in every tick, SequenceWithMemory only when
\* all have passed, and RunOnce has one activation for ever.
Begins ==
  /\ EntersX
  /\ \/ status'[X] = "IDLE" /\ Kind(X) \notin {"SequenceWithMemory", "RunOnce"}
     \/ Kind(X) \in Ordered /\ Passed(LastTry(X))
     \/ Kind(X) \in Reactives \cup {"WhileDoElse", "Switch"}

\* A try of a decorator's child is over; the elements of a Loop are used up by a skip, too.
Ended(s) ==
  \/ Kind(X) = "Loop" /\ s # "RUNNING"
  \/ Kind(X) \in {"Repeat", "Retry"} /\ Port("param", X) # -1 /\ s \in Completed
  \/ Kind(X) = "RunOnce" /\ s \in Completed

InitR == Init /\ got = Unset /\ tries = 0

NextR ==
  /\ Next
  /\ IF Begins THEN got' = Unset /\ tries' = 0
     ELSE IF BackToX
     THEN /\ \E i \in DOMAIN Children(X) :
               Last(stack) = Child(X, i) /\ got' = [got EXCEPT ![i] = ret']
          /\ tries' = IF Ended(ret') THEN tries + 1 ELSE tries
     ELSE UNCHANGED <<got, tries>>

SpecR == InitR /\ [][NextR]_varsR

-----------------------------------------------------------------------------
(* Properties                                                              *)

\* The "if" of a WhileDoElse, and of an IfThenElse without an "else", keeps its status
\* when it has completed (there is no resetChildren()), and is ticked again with it.
Statement(n) ==
  \E p \in Nodes : /\ Kind(p) = "WhileDoElse" \/ (Kind(p) = "IfThenElse" /\ N(p) = 2)
                   /\ n = Child(p, 1)

\* A node is ticked to be started or to go on, never with a result of an earlier tick
\* left in its status, but for such a statement.  A stateful action returns that result at
\* once; a Sequence that has failed, or a Fallback that has succeeded, finds a status that is
\* active and counts the children it skips on top of those of the tick before.
StartedOrGoesOn ==
  \A n \in Nodes : Inside(n) /\ ret = None /\ ~Statement(n) => status[n] \in {"IDLE", "RUNNING"}

\* X may return the result s, "SUCCESS" or "FAILURE".  A SequenceWithMemory that was
\* halted forgets how many children it has skipped, and may succeed though all were.
Promised(s) ==
  LET k == Kind(X)
      n == N(X)
      param == Port("param", X)
      required == Threshold(X, "success")
      lost     == Threshold(X, "failure")
  IN
  CASE k \in Ordered \cup Reactives ->
         /\ IF s = Pass(X)
            THEN Passed(LastTry(X)) /\ (k # "SequenceWithMemory" => \E i \in 1 .. n : got[i] = s)
            ELSE Decided(LastTry(X))
         /\ k = "TryCatch" => (got[n] \in {None, "RUNNING"}) = (s = "SUCCESS")
    [] k = "Parallel" ->
         IF s = "SUCCESS"
         THEN Count(s) + (IF param.success < 0 THEN Count("SKIPPED") ELSE 0) >= required
         ELSE n - Count(s) < required \/ Count(s) = lost
    [] k = "ParallelAll" ->
         /\ \A i \in 1 .. n : got[i] \notin {None, "RUNNING"}
         /\ (s = "FAILURE") = (Count("FAILURE") >= lost)
    [] k \in {"IfThenElse", "WhileDoElse"} ->
         \/ got[1] = "SUCCESS" /\ got[2] = s
         \/ got[1] = "FAILURE" /\ s = (IF n = 3 THEN got[3] ELSE "FAILURE")
    [] k = "Switch"       -> \E i \in 1 .. n : got[i] = s /\ \A j \in 1 .. n \ {i} : got[j] = None
    [] k = "Inverter"     -> got[1] \in Completed \ {s}
    [] k = "ForceSuccess" -> s = "SUCCESS" /\ got[1] \in Completed
    [] k = "ForceFailure" -> s = "FAILURE" /\ got[1] \in Completed
    [] k = "KeepRunning"  -> s = "FAILURE" /\ got[1] = s
    [] k \in Loops        -> /\ s = Again(X) => tries = param
                             /\ got[1] = s \/ param = 0
    [] k = "Loop"         -> \/ s = "FAILURE" /\ got[1] = s
                             \/ s = Port("else", X) /\ tries = param
    [] k = "RunOnce"      -> got[1] = s /\ tries = 1
    [] k \in {"Precondition", "Updated"} ->
         got[1] = s \/ (s = Port("else", X) /\ got[1] # "RUNNING")
    [] k = "Timeout"      -> got[1] = s \/ (s = "FAILURE" /\ got[1] \notin Completed)
    [] OTHER              -> got[1] = s

\* A control node or a decorator returns SUCCESS or FAILURE when its header says so,
\* however its children run, fail or are skipped, and wherever it was halted before.
ResultPromised ==
  [][\A s \in Completed :
       /\ Kind(X) \in Controls \cup Decorators /\ ~Statement(X)
       /\ Inside(X) /\ Exits(s) /\ ~Preempt(X)
       => Promised(s)]_varsR
=============================================================================
