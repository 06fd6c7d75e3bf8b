---------------------------- MODULE ApproachServer ----------------------------
(***************************************************************************)
(* approach.py on its MultiThreadedExecutor.  A goal is executed by a task *)
(* that waits for finish_event; the control loop is a 10 ms timer in a     *)
(* reentrant callback group, so its callbacks overlap with one another,    *)
(* with the task and with the next goal.  They share the node's members,   *)
(* and the executor's threads: a task keeps its thread while it waits.     *)
(*                                                                         *)
(* A step is one statement that reads or writes a shared member.  The pose *)
(* is reduced to how far the control loop has come, a bounding box to its  *)
(* label and whether it is within the tolerances.  Left out: the poses     *)
(* published on the way, debug_mode, the sleep of a callback that has      *)
(* nothing more to do; the boxes always come in fours (yolo.py).           *)
(***************************************************************************)
EXTENDS Naturals, FiniteSets

CONSTANTS
  Callbacks,     \* the calls of timer_callback that may overlap
  Threads,       \* num_threads of the MultiThreadedExecutor
  MaxGoals,      \* bound: how many goals are ever sent
  Labels,        \* what the detector can recognise
  NoBoxLimit,    \* NO_BOX_COUNT_LIMIT
  GoalLimit,     \* the 5 of the goal test
  Overlapping    \* may a goal be sent while another is executed?

Goals == 1 .. MaxGoals
NoBox == [label |-> "none", centred |-> FALSE]
Boxes == [label : Labels, centred : BOOLEAN] \cup {NoBox}

ASSUME LabelAssumption == Labels \cap {"none", "", "unset"} = {}
ASSUME LimitAssumption == /\ MaxGoals \in Nat
                          /\ NoBoxLimit \in Nat \ {0}
                          /\ GoalLimit \in Nat \ {0}
                          /\ Overlapping \in BOOLEAN

\* A thread is left for the control loop when every goal waits in its task: the
\* executor has one per processor, the tree sends one goal at a time.
ASSUME ThreadAssumption == Threads \in Nat /\ Threads > MaxGoals

VARIABLES
  node,        \* the members of the node
  event,       \* the flag of finish_event
  loop,        \* the callbacks: where each is, its locals, and the goal during
               \* which it began (history)
  task,        \* where execute_callback of each goal is
  result,      \* its result
  verdicts,    \* history: what callbacks born in the goal decided on
  early,       \* history: finish_event was set between run = True and clear()
  disturbed    \* history: goals for which another callback was inside the loop
               \* when run became False, or something was at work, or run was
               \* still True, when they began

goalVars == <<task, result>>
vars == <<node, event, loop, goalVars, verdicts, early, disturbed>>

Empty == [label |-> "", turned |-> FALSE]
Idle  == [pc |-> "idle", box |-> NoBox, count |-> 0, born |-> 0]

\* The node's members, where a callback may be (Seeing: where it has seen a box),
\* and where a task may be.
Members == [run : BOOLEAN, state : {"approach", "turn"},
            no_box_count : 0 .. NoBoxLimit, goal_count : 0 .. GoalLimit,
            has_box : {"unset", "yes", "no"}, label : Labels \cup {"unset"},
            turned : BOOLEAN]
Seeing  == {"seen", "look", "branch", "hit", "hit2", "reached", "turn", "found", "label"}
Places  == Seeing \cup {"idle", "box", "none", "none2", "limit", "stop", "stopped",
                        "turning", "yaw", "off", "set"}
Locals  == [pc : Places, box : Boxes, count : Nat, born : Goals \cup {0}]
Stages  == {"unsent", "counts", "state", "pos", "run", "clear", "wait", "blocked",
            "has_box", "pose", "label", "done"}
Results == [label : Labels \cup {"none", ""}, turned : BOOLEAN]

Types ==
  /\ node \in Members /\ event \in BOOLEAN
  /\ loop \in [Callbacks -> Locals]
  /\ task \in [Goals -> Stages] /\ result \in [Goals -> Results]
  /\ verdicts \in [Goals -> SUBSET (Labels \cup {"none"})]
  /\ early \in BOOLEAN /\ disturbed \subseteq Goals

\* A callback that has seen a box holds one until it has taken its label.
HoldsBox ==
  \A c \in Callbacks :
    loop[c].pc \in Seeing => loop[c].box \in [label : Labels, centred : BOOLEAN]

\* Every member and local has its type: in particular no callback goes on to
\* box_data.labels[min_index] with a message that has no box, whatever the others
\* do to no_box_count meanwhile, and the label of a result is one the detector knows.
TypeOK == Types /\ HoldsBox

\* The goals sent so far, and those of them that are not done.
Sent   == {g \in Goals : task[g] # "unsent"}
Active == {g \in Sent : task[g] # "done"}

\* A task that waits for finish_event occupies its thread.
FreeThread(busy) == Cardinality(busy) + Cardinality(Active) < Threads

Init ==
  /\ node = [run |-> FALSE, state |-> "approach", no_box_count |-> 0, goal_count |-> 0,
             has_box |-> "unset", label |-> "unset", turned |-> FALSE]
  /\ event = FALSE
  /\ loop = [c \in Callbacks |-> Idle]
  /\ task = [g \in Goals |-> "unsent"]
  /\ result = [g \in Goals |-> Empty]
  /\ verdicts = [g \in Goals |-> {}]
  /\ early = FALSE /\ disturbed = {}

-----------------------------------------------------------------------------
(* timer_callback                                                          *)

\* A local that is not read again is forgotten.
At(c, p)       == loop[c].pc = p
Go(c, p)       == loop' = [loop EXCEPT ![c].pc = p]
Count(c, n, p) == loop' = [loop EXCEPT ![c].pc = p, ![c].count = n]
Forget(c, p)   == loop' = [loop EXCEPT ![c].pc = p, ![c].box = NoBox]
Return(c)      == loop' = [loop EXCEPT ![c] = Idle]

\* Counts are only compared with 0 and with their limit: they stop there.
CountUpTo(limit, n) == IF n < limit THEN n + 1 ELSE limit

\* Nothing is done while run is False.
BeginTimer(c) ==
  /\ At(c, "idle") /\ node.run
  /\ FreeThread({d \in Callbacks : ~At(d, "idle")})
  /\ loop' = [loop EXCEPT ![c].pc = "box", ![c].born = Cardinality(Sent)]
  /\ UNCHANGED <<node, event, goalVars, verdicts, early, disturbed>>

\* box_data is what bounding_box_callback stored last: the detector may have
\* answered anything since it was read before.
TakeBox(c) ==
  /\ At(c, "box")
  /\ \E b \in Boxes :
       loop' = [loop EXCEPT ![c].pc = IF b = NoBox THEN "none" ELSE "seen", ![c].box = b]

\* no_box_count += 1 and goal_count += 1 read, then write.
ReadNoBoxCount(c)  == At(c, "none") /\ Count(c, node.no_box_count, "none2")
ReadGoalCount(c)   == At(c, "hit")  /\ Count(c, node.goal_count, "hit2")

\* Mutant: the return after the sleep is forgotten.
TestNoBoxLimitGoesOn(c) == /\ At(c, "limit")
                           /\ IF node.no_box_count >= NoBoxLimit THEN Go(c, "stop") ELSE Go(c, "look")

TestNoBoxLimit(c)  == /\ At(c, "limit")
                      /\ IF node.no_box_count >= NoBoxLimit THEN Go(c, "stop") ELSE Return(c)

\* Another callback may have counted since no_box_count was reset.
TestNoBoxCount(c)  == /\ At(c, "look")
                      /\ IF node.no_box_count = 0 THEN Go(c, "branch") ELSE Return(c)

\* The proportional controller moves the pose; then the goal test.
TestApproach(c)    == /\ At(c, "branch")
                      /\ Go(c, IF node.state = "approach" /\ loop[c].box.centred
                               THEN "hit" ELSE "turning")
TestGoalCount(c)   == /\ At(c, "reached")
                      /\ IF node.goal_count >= GoalLimit THEN Go(c, "turn") ELSE Forget(c, "turning")
TestTurn(c)        == /\ At(c, "turning")
                      /\ IF node.state = "turn" THEN Forget(c, "yaw") ELSE Return(c)

Reads(c) ==
  /\ \/ TakeBox(c) \/ ReadNoBoxCount(c) \/ ReadGoalCount(c) \/ TestNoBoxLimit(c)
     \/ TestNoBoxCount(c) \/ TestApproach(c) \/ TestGoalCount(c) \/ TestTurn(c)
  /\ UNCHANGED <<node, event, goalVars, verdicts, early, disturbed>>

WriteNoBoxCount(c) ==
  /\ At(c, "none2") /\ Count(c, 0, "limit")
  /\ node' = [node EXCEPT !.no_box_count = CountUpTo(NoBoxLimit, loop[c].count)]

ResetNoBoxCount(c) ==
  /\ At(c, "seen") /\ Go(c, "look")
  /\ node' = [node EXCEPT !.no_box_count = 0]

WriteGoalCount(c) ==
  /\ At(c, "hit2") /\ Count(c, 0, "reached")
  /\ node' = [node EXCEPT !.goal_count = CountUpTo(GoalLimit, loop[c].count)]

\* has_box and label follow state = "turn" one by one.
BoxFound(c) ==
  /\ At(c, "found") /\ Go(c, "label")
  /\ node' = [node EXCEPT !.has_box = "yes"]

TakeLabel(c) ==
  /\ At(c, "label") /\ Return(c)
  /\ node' = [node EXCEPT !.label = loop[c].box.label]

Turn(c) ==
  /\ At(c, "yaw") /\ Forget(c, "off")
  /\ node' = [node EXCEPT !.turned = TRUE]

\* Mutant: finish_event.set() is forgotten.
NoBoxFoundNoEvent(c) ==
  /\ At(c, "stopped") /\ Return(c)
  /\ node' = [node EXCEPT !.has_box = "no"]

NoBoxFound(c) ==
  /\ At(c, "stopped") /\ Go(c, "set")
  /\ node' = [node EXCEPT !.has_box = "no"]

Writes(c) ==
  /\ \/ WriteNoBoxCount(c) \/ ResetNoBoxCount(c) \/ WriteGoalCount(c)
     \/ BoxFound(c) \/ TakeLabel(c) \/ Turn(c) \/ NoBoxFound(c)
  /\ UNCHANGED <<event, goalVars, verdicts, early, disturbed>>

\* What the callback decided on, and whether it was alone when it did.
Verdict(c, v) == verdicts' = [verdicts EXCEPT ![loop[c].born] = @ \cup {v}]
Witnessed(c)  == disturbed' = IF \E d \in Callbacks \ {c} : ~At(d, "idle")
                              THEN disturbed \cup Active ELSE disturbed

\* The target is reached.
TargetReached(c) ==
  /\ At(c, "turn") /\ Go(c, "found")
  /\ node' = [node EXCEPT !.state = "turn"]
  /\ Verdict(c, loop[c].box.label)
  /\ UNCHANGED disturbed

\* No box for a while.
StopRun(c) ==
  /\ At(c, "stop") /\ Go(c, "stopped")
  /\ node' = [node EXCEPT !.run = FALSE]
  /\ Verdict(c, "none") /\ Witnessed(c)

StopTurning(c) ==
  /\ At(c, "off") /\ Go(c, "set")
  /\ node' = [node EXCEPT !.run = FALSE]
  /\ Witnessed(c)
  /\ UNCHANGED verdicts

Decides(c) == /\ TargetReached(c) \/ StopRun(c) \/ StopTurning(c)
              /\ UNCHANGED <<event, goalVars, early>>

\* finish_event.set() wakes every task blocked in wait().
SetFinishEvent(c) ==
  /\ At(c, "set") /\ Return(c)
  /\ event' = TRUE
  /\ task' = [g \in Goals |-> IF task[g] = "blocked" THEN "has_box" ELSE task[g]]
  /\ early' = (early \/ \E g \in Goals : task[g] = "clear")
  /\ UNCHANGED <<node, result, verdicts, disturbed>>

TimerStep(c) == Reads(c) \/ Writes(c) \/ Decides(c) \/ SetFinishEvent(c)

-----------------------------------------------------------------------------
(* execute_callback                                                        *)

TaskGo(g, p, q) == task[g] = p /\ task' = [task EXCEPT ![g] = q]

\* The goal is accepted; its task begins as soon as a thread is free.
StartGoal(g) ==
  /\ TaskGo(g, "unsent", "counts")
  /\ Sent = 1 .. g - 1
  /\ Overlapping \/ Active = {}
  /\ FreeThread({c \in Callbacks : ~At(c, "idle")})
  /\ disturbed' = IF node.run \/ Active # {} \/ \E c \in Callbacks : ~At(c, "idle")
                  THEN disturbed \cup Active \cup {g} ELSE disturbed
  /\ UNCHANGED <<node, event, loop, result, verdicts, early>>

ResetCounts(g) ==
  /\ TaskGo(g, "counts", "state")
  /\ node' = [node EXCEPT !.no_box_count = 0, !.goal_count = 0]

\* Mutant: the control loop stays in the state the goal before has ended in.
ResetStateNot(g) ==
  /\ TaskGo(g, "state", "pos")
  /\ UNCHANGED node

ResetState(g) ==
  /\ TaskGo(g, "state", "pos")
  /\ node' = [node EXCEPT !.state = "approach"]

ResetPos(g) ==
  /\ TaskGo(g, "pos", "run")
  /\ node' = [node EXCEPT !.turned = FALSE]

SetRun(g) ==
  /\ TaskGo(g, "run", "clear")
  /\ node' = [node EXCEPT !.run = TRUE]

Prepare(g) == /\ ResetCounts(g) \/ ResetState(g) \/ ResetPos(g) \/ SetRun(g)
              /\ UNCHANGED <<event, loop, result, verdicts, early, disturbed>>

ClearEvent(g) ==
  /\ TaskGo(g, "clear", "wait")
  /\ event' = FALSE
  /\ UNCHANGED <<node, loop, result, verdicts, early, disturbed>>

\* finish_event.wait() returns at once when the flag is set.  Otherwise the
\* task is blocked until the next set(), even if the flag is cleared again.
Wait(g) ==
  /\ TaskGo(g, "wait", IF event THEN "has_box" ELSE "blocked")
  /\ UNCHANGED <<node, event, loop, result, verdicts, early, disturbed>>

\* Reading has_box, or label, before it was ever assigned raises; the goal has
\* been succeed()ed by then and rclpy sends an empty result.
ReadHasBox(g) ==
  /\ TaskGo(g, "has_box", IF node.has_box = "yes" THEN "pose" ELSE "done")
  /\ result' = IF node.has_box = "no" THEN [result EXCEPT ![g].label = "none"] ELSE result
  /\ UNCHANGED <<node, event, loop, verdicts, early, disturbed>>

\* The pose and the label are the members' at this moment.
ReadPose(g) ==
  /\ TaskGo(g, "pose", "label")
  /\ result' = [result EXCEPT ![g].turned = node.turned]
  /\ UNCHANGED <<node, event, loop, verdicts, early, disturbed>>

ReadLabel(g) ==
  /\ TaskGo(g, "label", "done")
  /\ result' = [result EXCEPT ![g] = IF node.label = "unset" THEN Empty
                                     ELSE [@ EXCEPT !.label = node.label]]
  /\ UNCHANGED <<node, event, loop, verdicts, early, disturbed>>

TaskStep(g) == \/ Prepare(g) \/ ClearEvent(g) \/ Wait(g)
               \/ ReadHasBox(g) \/ ReadPose(g) \/ ReadLabel(g)

-----------------------------------------------------------------------------
Next == \/ \E c \in Callbacks : BeginTimer(c) \/ TimerStep(c)
        \/ \E g \in Goals : StartGoal(g) \/ TaskStep(g)

Spec == Init /\ [][Next]_vars

\* The executor runs its threads, and the timer fires as long as run is True.
Fairness ==
  /\ \A c \in Callbacks : WF_vars(BeginTimer(c)) /\ WF_vars(TimerStep(c))
  /\ \A g \in Goals : WF_vars(TaskStep(g))

FairSpec == Spec /\ Fairness

-----------------------------------------------------------------------------
(* Properties                                                              *)

\* The result of a goal is what the control loop decided on during that goal,
\* and an object comes with a pose that was turned to it, unless another callback
\* was inside timer_callback when run was set to False or the goal began,
\* another goal was executed at the same time, or two earlier goals that were had
\* left run True behind them.
ResultIsOwn ==
  \A g \in Goals \ disturbed :
    task[g] = "done" =>
      /\ result[g].label \in verdicts[g]
      /\ result[g].label # "none" => result[g].turned

\* A task is stuck in finish_event.wait(), with the control loop off and no
\* callback left to wake it, only if the event was set between run = True and
\* finish_event.clear().
StuckNeedsEarlyFinish ==
  (/\ \E g \in Goals : task[g] = "blocked"
   /\ \A g \in Active : task[g] = "blocked"
   /\ \A c \in Callbacks : At(c, "idle")
   /\ ~node.run) => early

\* When the detector sees nothing any more, every goal ends, unless its wake-up
\* was lost that way.
GoalEnds ==
  []~early /\ <>[][\A c \in Callbacks : TakeBox(c) => loop'[c].box = NoBox]_vars
    => \A g \in Goals : task[g] = "counts" ~> task[g] = "done"
=============================================================================
