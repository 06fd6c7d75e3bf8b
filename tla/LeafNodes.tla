------------------------------- MODULE LeafNodes -------------------------------
(***************************************************************************)
(* Leaves: those that return at once, the StatefulActionNodes, of which    *)
(* Sleep is one, and the action leaves of BehaviorTree.ROS2 as the tree    *)
(* sees them (see ActionLeaf).                                             *)
(***************************************************************************)
EXTENDS TreeNodes

\* A Condition may hold or not; a leaf that fails, and one that runs for ever.
InstantResults(k) ==
  CASE k = "Instant"       -> {"SUCCESS"}
    [] k = "AlwaysFailure" -> {"FAILURE"}
    [] k = "Condition"     -> Completed
    [] k = "Forever"       -> {"RUNNING"}
    [] OTHER               -> {}

InstantTick(n) ==
  /\ Inside(n) /\ ret = None
  /\ \E s \in InstantResults(Kind(n)) : ReturnPlain(n, s, {})
  /\ UNCHANGED <<tree, value, wake>>

-----------------------------------------------------------------------------
(* StatefulActionNode: onStart when IDLE, onRunning when RUNNING, else the *)
(* status it has.                                                          *)

Stateful == {"Action", "Sleep"}

StatefulDone(n) ==
  /\ Entered(n, Stateful) /\ status[n] \in Completed
  /\ Exits(status[n])
  /\ UNCHANGED <<tree, status, mem, timerVars, value, wake>>

ActionStart(n) ==
  /\ Entered(n, {"Action"}) /\ status[n] = "IDLE"
  /\ ReturnPlain(n, "RUNNING", {})
  /\ UNCHANGED <<tree, value, wake>>

ActionFailsAtOnce(n) ==
  /\ n \in Forest[tree].mayFail
  /\ Entered(n, {"Action"}) /\ status[n] = "IDLE"
  /\ ReturnPlain(n, "FAILURE", {})
  /\ UNCHANGED <<tree, value, wake>>

ActionRunning(n) ==
  /\ Entered(n, {"Action"}) /\ status[n] = "RUNNING"
  /\ ReturnPlain(n, "RUNNING", {})
  /\ UNCHANGED <<tree, value, wake>>

\* result_callback has emitted the wake-up signal inside this very tick.
ActionSuccess(n) ==
  /\ Entered(n, {"Action"}) /\ status[n] = "RUNNING"
  /\ value' \in IF Has("writes", n) THEN Port("writes", n) ELSE {value}
  /\ wake' = TRUE
  /\ ReturnPlain(n, "SUCCESS", {})
  /\ UNCHANGED tree

\* The goal is not answered or rejected; the servers never abort one.
ActionFailure(n) ==
  /\ Entered(n, {"Action"}) /\ status[n] = "RUNNING"
  /\ ReturnPlain(n, "FAILURE", {})
  /\ UNCHANGED <<tree, value, wake>>

-----------------------------------------------------------------------------
(* Sleep: on is timer_waiting_; param is msec, where it is 0               *)

NoTime(n) == Has("param", n) /\ Port("param", n) = 0

\* There is nothing to wait for, and no timer is added.
SleepAtOnce(n) ==
  /\ Entered(n, {"Sleep"}) /\ status[n] = "IDLE" /\ NoTime(n)
  /\ Return(n, "SUCCESS", mem[n], {})
  /\ UNCHANGED <<tree, value, wake>>

SleepStart(n) ==
  /\ Entered(n, {"Sleep"}) /\ status[n] = "IDLE" /\ ~NoTime(n)
  /\ Leaves(n, "RUNNING", [Blank EXCEPT !.on = TRUE], {}) /\ Starts(n)
  /\ Exits("RUNNING")
  /\ UNCHANGED <<tree, value, wake>>

SleepTick(n) ==
  /\ Entered(n, {"Sleep"}) /\ status[n] = "RUNNING"
  /\ Return(n, IF mem[n].on THEN "RUNNING" ELSE "SUCCESS", mem[n], {})
  /\ UNCHANGED <<tree, value, wake>>

\* The handler, in the timer queue's thread, the earlier ones first: one that is due
\* emits the signal, then clears timer_waiting_; an aborted one only clears it.
SleepSignals(n) ==
  /\ Kind(n) = "Sleep"
  /\ \/ /\ timer[n] = "waiting" /\ stale[n] = {}
        /\ timer' = [timer EXCEPT ![n] = "signalled"] /\ UNCHANGED stale
     \/ /\ "due" \in stale[n]
        /\ stale' = [stale EXCEPT ![n] = {"aborted"}] /\ UNCHANGED timer
  /\ EmitWakeUpSignal
  /\ UNCHANGED <<tree, status, mem, over, value, stack, ret>>

SleepClears(n) ==
  /\ Kind(n) = "Sleep"
  /\ \/ /\ timer[n] = "signalled"
        /\ timer' = [timer EXCEPT ![n] = "off"] /\ UNCHANGED stale
     \/ /\ "aborted" \in stale[n]
        /\ stale' = [stale EXCEPT ![n] = @ \ {"aborted"}] /\ UNCHANGED timer
  /\ mem' = [mem EXCEPT ![n].on = FALSE]
  /\ UNCHANGED <<tree, status, over, value, stack, ret, wake>>

-----------------------------------------------------------------------------
LeafStep(n) ==
  \/ InstantTick(n) \/ StatefulDone(n) \/ SleepAtOnce(n) \/ SleepStart(n) \/ SleepTick(n)
  \/ ActionStart(n) \/ ActionFailsAtOnce(n) \/ ActionRunning(n)
  \/ ActionSuccess(n) \/ ActionFailure(n)

SleepStep(n) == SleepSignals(n) \/ SleepClears(n)
=============================================================================
