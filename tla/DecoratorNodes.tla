---------------------------- MODULE DecoratorNodes ----------------------------
(***************************************************************************)
(* The decorators of BehaviorTree.CPP (src/decorators and the headers of   *)
(* the ones without a .cpp), each with its one child.                      *)
(*                                                                         *)
(* RunOnce has its default then_skip = true, Loop a queue written in the   *)
(* XML; the entry an Updated node watches may be updated at any time.      *)
(***************************************************************************)
EXTENDS TreeNodes

Plain == {"Inverter", "ForceSuccess", "ForceFailure", "KeepRunning", "SubTree"}

\* resetChild() of a child that has completed.
Finished(n) == IF ret \in Completed THEN ChildSet(n) ELSE {}
ChildIdle(n) == status[Children(n)[1]] = "IDLE"
RunningIfIdle(n) == IF status[n] = "IDLE" THEN "RUNNING" ELSE status[n]

\* What the node makes of the result of its child.
PlainResult(n) ==
  CASE Kind(n) = "Inverter" /\ ret \in Completed     -> IF ret = "SUCCESS" THEN "FAILURE" ELSE "SUCCESS"
    [] Kind(n) = "ForceSuccess" /\ ret \in Completed -> "SUCCESS"
    [] Kind(n) = "ForceFailure" /\ ret \in Completed -> "FAILURE"
    [] Kind(n) = "KeepRunning" /\ ret # "FAILURE"    -> "RUNNING"
    [] OTHER                                         -> ret

PlainTick(n) ==
  /\ Entered(n, Plain)
  /\ Call(n, IF Kind(n) = "SubTree" THEN RunningIfIdle(n) ELSE "RUNNING", Blank, {}, 1)
  /\ UNCHANGED <<tree, value, wake>>

PlainBack(n) ==
  /\ Back(n, Plain)
  /\ Return(n, PlainResult(n), Blank, Finished(n))
  /\ UNCHANGED <<tree, value, wake>>

-----------------------------------------------------------------------------
(* Repeat and RetryUntilSuccessful (param: num_cycles, num_attempts)       *)

Loops    == {"Repeat", "Retry"}
Again(n) == IF Kind(n) = "Retry" THEN "FAILURE" ELSE "SUCCESS"
Goes(n, count) == Port("param", n) = -1 \/ count < Port("param", n)

LoopTick(n) ==
  /\ Entered(n, Loops)
  /\ IF Goes(n, mem[n].count)
     THEN Call(n, "RUNNING", [mem[n] EXCEPT !.fresh = ChildIdle(n)], {}, 1)
     ELSE Return(n, Again(n), Blank, {})
  /\ UNCHANGED <<tree, value, wake>>

\* One more try: at once when the child was running before; else the control goes
\* back, and the tree is woken up.  Nothing reads the counter without a limit.
LoopAgain(n) ==
  /\ Back(n, Loops) /\ ret = Again(n)
  /\ LET count == IF Port("param", n) = -1 THEN 0 ELSE mem[n].count + 1
         m     == [Blank EXCEPT !.count = count, !.fresh = TRUE] IN
     \/ ~Goes(n, count) /\ Return(n, Again(n), Blank, ChildSet(n)) /\ UNCHANGED wake
     \/ /\ Goes(n, count) /\ mem[n].fresh
        /\ Return(n, "RUNNING", m, ChildSet(n)) /\ wake' = TRUE
     \/ /\ Goes(n, count) /\ ~mem[n].fresh
        /\ Call(n, "RUNNING", m, ChildSet(n), 1) /\ UNCHANGED wake
  /\ UNCHANGED <<tree, value>>

\* A skipped child leaves the counter as it is.
LoopBack(n) ==
  /\ Back(n, Loops) /\ ret # Again(n)
  /\ Return(n, ret, IF ret \in Completed THEN Blank ELSE mem[n],
            IF ret = "RUNNING" THEN {} ELSE ChildSet(n))
  /\ UNCHANGED <<tree, value, wake>>

-----------------------------------------------------------------------------
(* The decorators that tick their child under a condition                  *)

PreconditionTick(n) ==
  /\ Entered(n, {"Precondition"})
  /\ \E holds \in CASE mem[n].on                    -> {TRUE}
                    [] ~mem[n].on /\ Has("cond", n) -> {value \in Port("cond", n)}
                    [] OTHER                        -> BOOLEAN :
       IF holds THEN Call(n, status[n], [mem[n] EXCEPT !.on = TRUE], {}, 1)
       ELSE Return(n, Port("else", n), mem[n], {})
  /\ UNCHANGED <<tree, value, wake>>

\* Mutant: _children_running stays TRUE, so the next "if" is not evaluated.
PreconditionBackKeepsOn(n) ==
  /\ Back(n, {"Precondition"})
  /\ Return(n, ret, mem[n], Finished(n))
  /\ UNCHANGED <<tree, value, wake>>

PreconditionBack(n) ==
  /\ Back(n, {"Precondition"})
  /\ Return(n, ret, IF ret \in Completed THEN Blank ELSE mem[n], Finished(n))
  /\ UNCHANGED <<tree, value, wake>>

\* SkipUnlessUpdated and WaitValueUpdate (else: SKIPPED or RUNNING)
UpdatedTick(n) ==
  /\ Entered(n, {"Updated"})
  /\ \/ Call(n, status[n], mem[n], {}, 1)
     \/ ~mem[n].on /\ Return(n, Port("else", n), mem[n], {})
  /\ UNCHANGED <<tree, value, wake>>

UpdatedBack(n) ==
  /\ Back(n, {"Updated"})
  /\ Return(n, ret, [mem[n] EXCEPT !.on = ret = "RUNNING"], Finished(n))
  /\ UNCHANGED <<tree, value, wake>>

RunOnceTick(n) ==
  /\ Entered(n, {"RunOnce"})
  /\ IF mem[n].on THEN Return(n, "SKIPPED", mem[n], {})
     ELSE Call(n, "RUNNING", mem[n], {}, 1)
  /\ UNCHANGED <<tree, value, wake>>

RunOnceBack(n) ==
  /\ Back(n, {"RunOnce"})
  /\ Return(n, ret, [mem[n] EXCEPT !.on = ret \in Completed], Finished(n))
  /\ UNCHANGED <<tree, value, wake>>

\* LoopNode (param: the length of the queue; else: if_empty): count elements are left.
QueueTick(n) ==
  /\ Entered(n, {"Loop"})
  /\ LET m == IF status[n] # "IDLE" THEN mem[n]
              ELSE [Blank EXCEPT !.count = Port("param", n)] IN
     CASE m.on      -> Call(n, RunningIfIdle(n), m, {}, 1)
       [] ~m.on /\ m.count > 0 ->
            Call(n, RunningIfIdle(n), [m EXCEPT !.count = @ - 1], {}, 1)
       [] OTHER     -> Return(n, Port("else", n), m, {})
  /\ UNCHANGED <<tree, value, wake>>

QueueBack(n) ==
  /\ Back(n, {"Loop"})
  /\ Return(n, IF ret = "FAILURE" THEN "FAILURE" ELSE "RUNNING",
            [mem[n] EXCEPT !.on = ret = "RUNNING"], Finished(n))
  /\ UNCHANGED <<tree, value, wake>>

-----------------------------------------------------------------------------
(* Delay and Timeout                                                       *)

Clocked == {"Delay", "Timeout"}

\* Mutant: delay_complete_ and child_halted_ are not reset.
ClockStartKeepsHit(n) ==
  /\ Entered(n, Clocked) /\ ~mem[n].on
  /\ Leaves(n, "RUNNING", [mem[n] EXCEPT !.on = TRUE], {}) /\ Starts(n)
  /\ UNCHANGED <<tree, value, stack, ret, wake>>

\* The timer is added before the mutex is taken.
ClockStart(n) ==
  /\ Entered(n, Clocked) /\ ~mem[n].on
  /\ Leaves(n, "RUNNING", [Blank EXCEPT !.on = TRUE], {}) /\ Starts(n)
  /\ UNCHANGED <<tree, value, stack, ret, wake>>

DelayTick(n) ==
  /\ Entered(n, {"Delay"}) /\ mem[n].on
  /\ IF mem[n].hit THEN Call(n, status[n], mem[n], {}, 1)
     ELSE Return(n, "RUNNING", mem[n], {})
  /\ UNCHANGED <<tree, value, wake>>

TimeoutTick(n) ==
  /\ Entered(n, {"Timeout"}) /\ mem[n].on
  /\ IF mem[n].hit THEN Return(n, "FAILURE", [mem[n] EXCEPT !.on = FALSE], {})
     ELSE Call(n, status[n], mem[n], {}, 1)
  /\ UNCHANGED <<tree, value, wake>>

\* A Timeout whose child is done cancels its timer.
ClockBack(n) ==
  /\ Back(n, Clocked)
  /\ LET m == [mem[n] EXCEPT !.on = ret \notin Completed] IN
       /\ Leaves(n, ret, m, Finished(n))
       /\ Cancels(Halted(Finished(n)) \cup
                  (IF ret \in Completed /\ Kind(n) = "Timeout" THEN {n} ELSE {}))
       /\ Exits(ret)
  /\ UNCHANGED <<tree, value, wake>>

\* tick() holds the node's mutex while it ticks the child.
Locked(n) == n \in ToSet(stack) /\ ~Entered(n, {Kind(n)})

\* A handler of n that is due, its own or one of a timer before: the queues after it.
Expiries(n) ==
  CASE "due" \in stale[n]                        -> {<<timer, [stale EXCEPT ![n] = @ \ {"due"}]>>}
    [] stale[n] = {} /\ timer[n] = "waiting"     -> {<<[timer EXCEPT ![n] = "off"], stale>>}
    [] OTHER                                     -> {}

DelayExpires(n) ==
  /\ Kind(n) = "Delay" /\ ~Locked(n)
  /\ \E q \in Expiries(n) : timer' = q[1] /\ stale' = q[2]
  /\ mem' = [mem EXCEPT ![n].hit = TRUE]
  /\ EmitWakeUpSignal
  /\ UNCHANGED <<tree, status, over, value, stack, ret>>

DelayAborted(n) ==
  /\ Kind(n) = "Delay" /\ ~Locked(n) /\ "aborted" \in stale[n]
  /\ stale' = [stale EXCEPT ![n] = @ \ {"aborted"}]
  /\ mem' = [mem EXCEPT ![n].hit = FALSE]
  /\ UNCHANGED <<tree, status, timer, over, value, stack, ret, wake>>

\* haltChild(), in the timer queue's thread.
TimeoutExpires(n) ==
  /\ Kind(n) = "Timeout" /\ ~Locked(n)
  /\ LET child == Children(n)[1] IN
     \E q \in Expiries(n) :
       IF status[child] = "RUNNING"
       THEN /\ Leaves(n, status[n], [mem[n] EXCEPT !.hit = TRUE], {child})
            /\ CancelsIn(Halted({child}) \cap DOMAIN timer, q[1], q[2])
            /\ EmitWakeUpSignal
       ELSE timer' = q[1] /\ stale' = q[2] /\ UNCHANGED <<status, mem, over, wake>>
  /\ UNCHANGED <<tree, value, stack, ret>>

-----------------------------------------------------------------------------
DecoratorStep(n) ==
  \/ PlainTick(n) \/ PlainBack(n)
  \/ LoopTick(n) \/ LoopAgain(n) \/ LoopBack(n)
  \/ PreconditionTick(n) \/ PreconditionBack(n) \/ UpdatedTick(n) \/ UpdatedBack(n)
  \/ RunOnceTick(n) \/ RunOnceBack(n) \/ QueueTick(n) \/ QueueBack(n)
  \/ ClockStart(n) \/ DelayTick(n) \/ TimeoutTick(n) \/ ClockBack(n)

ClockStep(n) == DelayExpires(n) \/ DelayAborted(n) \/ TimeoutExpires(n)
=============================================================================
