----------------------------- MODULE ControlNodes -----------------------------
(***************************************************************************)
(* The control nodes of BehaviorTree.CPP (src/controls), with the defaults *)
(* of their ports; throw_if_multiple_running and catch_on_halt are off.    *)
(***************************************************************************)
EXTENDS TreeNodes

Ordered == Sequences_ \cup Fallbacks

\* The result of a child that decides, and the one that lets the node go on.
Stop(n) == IF Kind(n) \in Fallbacks \cup {"ReactiveFallback"} THEN "SUCCESS" ELSE "FAILURE"
Pass(n) == IF Stop(n) = "SUCCESS" THEN "FAILURE" ELSE "SUCCESS"

N(n)         == Len(Children(n))
At(m, i)     == [m EXCEPT !.idx = i]
Child(n, i)  == Children(n)[i]
IsFresh(n, i) == status[Child(n, i)] = "IDLE"

-----------------------------------------------------------------------------
(* Sequence, AsyncSequence, SequenceWithMemory, Fallback, AsyncFallback, and *)
(* TryCatch, whose last child is the catch                                 *)

Interruptible(n) == Kind(n) \in {"AsyncSequence", "AsyncFallback", "SequenceWithMemory"}
LastTry(n) == IF Kind(n) = "TryCatch" THEN N(n) - 1 ELSE N(n)

CallNext(n, m, i) ==
  Call(n, "RUNNING", [At(m, i) EXCEPT !.fresh = Interruptible(n) /\ IsFresh(n, i)], {}, i)

OrderedTick(n) ==
  /\ Entered(n, Ordered)
  /\ LET m == IF status[n] # "IDLE" THEN mem[n]
              ELSE [mem[n] EXCEPT !.skips = 0, !.on = FALSE]
     IN  CallNext(n, m, IF m.on THEN N(n) ELSE m.idx)
  /\ UNCHANGED <<tree, value, wake>>

\* Mutant: the case RUNNING falls through to SUCCESS.
OrderedRunningGoesOn(n) ==
  /\ Back(n, Ordered) /\ ret = "RUNNING"
  /\ IF mem[n].idx < LastTry(n) THEN CallNext(n, mem[n], mem[n].idx + 1)
     ELSE Return(n, Pass(n), mem[n], {})
  /\ UNCHANGED <<tree, value, wake>>

OrderedRunning(n) ==
  /\ Back(n, Ordered) /\ ret = "RUNNING"
  /\ Return(n, "RUNNING", mem[n], {})
  /\ UNCHANGED <<tree, value, wake>>

\* SequenceWithMemory keeps its place; TryCatch goes on with the catch.
OrderedStop(n) ==
  /\ Back(n, Ordered) /\ ret = Stop(n) /\ ~mem[n].on
  /\ CASE Kind(n) = "SequenceWithMemory" ->
            Return(n, Stop(n), mem[n], {Child(n, i) : i \in mem[n].idx .. N(n)})
       [] Kind(n) = "TryCatch" ->
            Call(n, "RUNNING", [At(mem[n], 1) EXCEPT !.on = TRUE], ChildSet(n), N(n))
       [] OTHER ->
            Return(n, Stop(n), At(mem[n], 1), ChildSet(n))
  /\ UNCHANGED <<tree, value, wake>>

\* The interruptible ones give the control back after a child that was started in
\* this tick.
OrderedPass(n) ==
  /\ Back(n, Ordered) /\ ret = Pass(n) /\ ~mem[n].on /\ mem[n].idx < LastTry(n)
  /\ IF mem[n].fresh
     THEN Return(n, "RUNNING", At(mem[n], mem[n].idx + 1), {}) /\ wake' = TRUE
     ELSE CallNext(n, mem[n], mem[n].idx + 1) /\ UNCHANGED wake
  /\ UNCHANGED <<tree, value>>

OrderedSkip(n) ==
  /\ Back(n, Ordered) /\ ret = "SKIPPED" /\ ~mem[n].on /\ mem[n].idx < LastTry(n)
  /\ CallNext(n, [mem[n] EXCEPT !.skips = @ + 1], mem[n].idx + 1)
  /\ UNCHANGED <<tree, value, wake>>

\* Mutant: current_child_idx_ is left past the last child.
OrderedEndPastEnd(n) ==
  /\ Back(n, Ordered) /\ ret \in {Pass(n), "SKIPPED"} /\ ~mem[n].on /\ mem[n].idx = LastTry(n)
  /\ Return(n, Pass(n), At(mem[n], mem[n].idx + 1), ChildSet(n))
  /\ UNCHANGED <<tree, value, wake>>

OrderedEnd(n) ==
  /\ Back(n, Ordered) /\ ret \in {Pass(n), "SKIPPED"} /\ ~mem[n].on /\ mem[n].idx = LastTry(n)
  /\ LET skips == mem[n].skips + (IF ret = "SKIPPED" THEN 1 ELSE 0)
     IN  Return(n, IF skips = LastTry(n) THEN "SKIPPED" ELSE Pass(n), Blank, ChildSet(n))
  /\ UNCHANGED <<tree, value, wake>>

\* The catch is over.
OrderedCaught(n) ==
  /\ Back(n, Ordered) /\ ret # "RUNNING" /\ mem[n].on
  /\ Return(n, "FAILURE", [At(mem[n], 1) EXCEPT !.on = FALSE], ChildSet(n))
  /\ UNCHANGED <<tree, value, wake>>

OrderedStep(n) == \/ OrderedTick(n) \/ OrderedRunning(n) \/ OrderedStop(n) \/ OrderedPass(n)
                  \/ OrderedSkip(n) \/ OrderedEnd(n) \/ OrderedCaught(n)

-----------------------------------------------------------------------------
(* ReactiveSequence, ReactiveFallback                                      *)

ReactiveTick(n) ==
  /\ Entered(n, Reactives)
  /\ Call(n, "RUNNING", Blank, {}, 1)
  /\ UNCHANGED <<tree, value, wake>>

\* Mutant: the children before the running one are not reset.
ReactiveRunningKeepsOthers(n) ==
  /\ Back(n, Reactives) /\ ret = "RUNNING"
  /\ Return(n, "RUNNING", Blank, {})
  /\ UNCHANGED <<tree, value, wake>>

ReactiveRunning(n) ==
  /\ Back(n, Reactives) /\ ret = "RUNNING"
  /\ Return(n, "RUNNING", Blank, ChildSet(n) \ {Child(n, mem[n].idx)})
  /\ UNCHANGED <<tree, value, wake>>

ReactiveStop(n) ==
  /\ Back(n, Reactives) /\ ret = Stop(n)
  /\ Return(n, Stop(n), Blank, ChildSet(n))
  /\ UNCHANGED <<tree, value, wake>>

ReactiveNext(n) ==
  /\ Back(n, Reactives) /\ ret \in {Pass(n), "SKIPPED"}
  /\ LET i       == mem[n].idx
         skipped == ret = "SKIPPED"
         skips   == mem[n].skips + (IF skipped THEN 1 ELSE 0)
     IN  IF i < N(n)
         THEN Call(n, "RUNNING", [At(mem[n], i + 1) EXCEPT !.skips = skips],
                   IF skipped THEN {Child(n, i)} ELSE {}, i + 1)
         ELSE Return(n, IF skips = N(n) THEN "SKIPPED" ELSE Pass(n), Blank, ChildSet(n))
  /\ UNCHANGED <<tree, value, wake>>

ReactiveStep(n) == \/ ReactiveTick(n) \/ ReactiveRunning(n) \/ ReactiveStop(n)
                   \/ ReactiveNext(n)

-----------------------------------------------------------------------------
(* Parallel (param: success_count and failure_count), ParallelAll (param:  *)
(* max_failures as failure)                                                *)

\* successThreshold(), failureThreshold(): a negative count is from the end.
Threshold(n, t) ==
  LET k == Port("param", n)[t] IN
  IF k >= 0 THEN k ELSE IF N(n) + k + 1 > 0 THEN N(n) + k + 1 ELSE 0

\* The children still to be ticked in this tick.
Pending(n, m, i) == {j \in i + 1 .. N(n) : j \notin m.done}
First(S) == CHOOSE i \in S : \A j \in S : i <= j

\* A threshold above the number of children: BT::LogicError.  ParallelAll has only that
\* of the failures.
TooHigh(n) == \/ Threshold(n, "failure") > N(n)
              \/ Kind(n) = "Parallel" /\ Threshold(n, "success") > N(n)

ParallelThrow(n) ==
  /\ Entered(n, Parallels) /\ TooHigh(n)
  /\ Throw
  /\ UNCHANGED <<tree, value, wake>>

ParallelTick(n) ==
  /\ Entered(n, Parallels) /\ ~TooHigh(n)
  /\ LET i == First(Pending(n, mem[n], 0))
     IN  Call(n, "RUNNING", [At(mem[n], i) EXCEPT !.skips = 0], {}, i)
  /\ UNCHANGED <<tree, value, wake>>

\* completed_list_, failure_count_ and skipped_count after the child's result.
Counted(m) ==
  [m EXCEPT !.done  = IF ret \in Completed THEN @ \cup {m.idx} ELSE @,
            !.count = IF ret = "FAILURE" THEN @ + 1 ELSE @,
            !.skips = IF ret = "SKIPPED" THEN @ + 1 ELSE @]

Succeeds(n, m) ==
  LET successes == Cardinality(m.done) - m.count
      required  == Threshold(n, "success") IN
  \/ successes >= required
  \/ Port("param", n).success < 0 /\ successes + m.skips >= required

Fails(n, m) == \/ N(n) - m.count < Threshold(n, "success")
               \/ m.count = Threshold(n, "failure")

ParallelBack(n) ==
  /\ Back(n, {"Parallel"})
  /\ LET m    == Counted(mem[n])
         rest == Pending(n, m, m.idx) IN
     CASE Succeeds(n, m) -> Return(n, "SUCCESS", Blank, ChildSet(n))
       [] ~Succeeds(n, m) /\ Fails(n, m) -> Return(n, "FAILURE", Blank, ChildSet(n))
       [] ~Succeeds(n, m) /\ ~Fails(n, m) /\ rest # {} ->
            Call(n, "RUNNING", At(m, First(rest)), {}, First(rest))
       [] OTHER -> Return(n, IF m.skips = N(n) THEN "SKIPPED" ELSE "RUNNING",
                          [At(m, 1) EXCEPT !.skips = 0], {})
  /\ UNCHANGED <<tree, value, wake>>

\* Mutant: completed_list_ is not cleared.
ParallelAllBackKeepsList(n) ==
  /\ Back(n, {"ParallelAll"})
  /\ LET m    == Counted(mem[n])
         rest == Pending(n, m, m.idx)
         idle == [At(m, 1) EXCEPT !.skips = 0] IN
     CASE rest # {} -> Call(n, "RUNNING", At(m, First(rest)), {}, First(rest))
       [] rest = {} /\ m.skips + Cardinality(m.done) >= N(n) ->
            Return(n, IF m.count >= Threshold(n, "failure") THEN "FAILURE" ELSE "SUCCESS",
                   [idle EXCEPT !.done = {1}], ChildSet(n))
       [] OTHER -> Return(n, "RUNNING", idle, {})
  /\ UNCHANGED <<tree, value, wake>>

ParallelAllBack(n) ==
  /\ Back(n, {"ParallelAll"})
  /\ LET m    == Counted(mem[n])
         rest == Pending(n, m, m.idx)
         idle == [At(m, 1) EXCEPT !.skips = 0] IN
     CASE rest # {} -> Call(n, "RUNNING", At(m, First(rest)), {}, First(rest))
       [] rest = {} /\ m.skips = N(n) -> Return(n, "SKIPPED", idle, {})
       [] rest = {} /\ m.skips # N(n) /\ m.skips + Cardinality(m.done) >= N(n) ->
            Return(n, IF m.count >= Threshold(n, "failure") THEN "FAILURE" ELSE "SUCCESS",
                   Blank, ChildSet(n))
       [] OTHER -> Return(n, "RUNNING", idle, {})
  /\ UNCHANGED <<tree, value, wake>>

ParallelStep(n) == \/ ParallelThrow(n) \/ ParallelTick(n)
                   \/ ParallelBack(n) \/ ParallelAllBack(n)

-----------------------------------------------------------------------------
(* IfThenElse, WhileDoElse, Switch                                         *)

\* IfThenElse goes on where it was, WhileDoElse looks at its condition each time.
BranchTick(n) ==
  /\ Entered(n, {"IfThenElse", "WhileDoElse"})
  /\ LET i == IF Kind(n) = "IfThenElse" THEN mem[n].idx ELSE 1
     IN  Call(n, "RUNNING", At(mem[n], i), {}, i)
  /\ UNCHANGED <<tree, value, wake>>

\* The condition chooses a branch; WhileDoElse halts the other one.
BranchChoose(n) ==
  /\ Back(n, {"IfThenElse", "WhileDoElse"}) /\ mem[n].idx = 1
  /\ LET i == IF ret = "SUCCESS" THEN 2 ELSE 3 IN
       /\ ret \in Completed /\ i <= N(n)
       /\ Call(n, "RUNNING", At(mem[n], i),
               IF Kind(n) = "WhileDoElse" /\ N(n) = 3 THEN {Child(n, 5 - i)} ELSE {}, i)
  /\ UNCHANGED <<tree, value, wake>>

\* There is no "else": IfThenElse returns without resetChildren().
BranchNoElse(n) ==
  /\ Back(n, {"IfThenElse", "WhileDoElse"}) /\ mem[n].idx = 1
  /\ ret = "FAILURE" /\ N(n) = 2
  /\ Return(n, "FAILURE", mem[n], IF Kind(n) = "IfThenElse" THEN {} ELSE ChildSet(n))
  /\ UNCHANGED <<tree, value, wake>>

\* A condition must not be skipped: std::logic_error, or the status IDLE is refused.
BranchThrow(n) ==
  /\ Back(n, {"IfThenElse", "WhileDoElse"}) /\ mem[n].idx = 1 /\ ret = "SKIPPED"
  /\ Throw
  /\ UNCHANGED <<tree, value, wake>>

BranchRunning(n) ==
  /\ Back(n, {"IfThenElse", "WhileDoElse"}) /\ ret = "RUNNING"
  /\ Return(n, "RUNNING", At(mem[n], IF Kind(n) = "IfThenElse" THEN mem[n].idx ELSE 1), {})
  /\ UNCHANGED <<tree, value, wake>>

BranchDone(n) ==
  /\ Back(n, {"IfThenElse", "WhileDoElse"}) /\ mem[n].idx > 1 /\ ret # "RUNNING"
  /\ Return(n, ret, Blank, ChildSet(n))
  /\ UNCHANGED <<tree, value, wake>>

\* count is running_child_, 0 for none; the variable may match any case.
SwitchTick(n) ==
  /\ Entered(n, {"Switch"})
  /\ \E i \in DOMAIN Children(n) :
       Call(n, status[n], At(mem[n], i),
            IF mem[n].count \in {0, i} THEN {} ELSE {Child(n, mem[n].count)}, i)
  /\ UNCHANGED <<tree, value, wake>>

SwitchBack(n) ==
  /\ Back(n, {"Switch"})
  /\ CASE ret = "SKIPPED" -> Return(n, ret, Blank, {})
       [] ret = "RUNNING" -> Return(n, ret, [Blank EXCEPT !.count = mem[n].idx], {})
       [] OTHER           -> Return(n, ret, Blank, ChildSet(n))
  /\ UNCHANGED <<tree, value, wake>>

BranchStep(n) == \/ BranchTick(n) \/ BranchChoose(n) \/ BranchNoElse(n) \/ BranchThrow(n)
                 \/ BranchRunning(n) \/ BranchDone(n) \/ SwitchTick(n) \/ SwitchBack(n)

-----------------------------------------------------------------------------
ControlStep(n) == OrderedStep(n) \/ ReactiveStep(n) \/ ParallelStep(n) \/ BranchStep(n)
=============================================================================
