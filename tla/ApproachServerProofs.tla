------------------------- MODULE ApproachServerProofs -------------------------
(***************************************************************************)
(* What holds of the approach server for every number of overlapping       *)
(* callbacks, threads and goals, every set of labels and every limit.      *)
(***************************************************************************)
EXTENDS ApproachServer, FiniteSetTheorems, TLAPS

-----------------------------------------------------------------------------
(* The invariants                                                          *)

Inside(c) == loop[c].pc # "idle"
AllIdle   == \A c \in Callbacks : ~Inside(c)

\* As long as no event came early: a task that is past run = True while run is
\* False will be woken by a callback, or finds the flag set.
WillWake ==
  ~early /\ ~node.run =>
    \A g \in Goals : task[g] \in {"clear", "wait", "blocked"} =>
      \/ \E c \in Callbacks : loop[c].pc \in {"stopped", "set"}
      \/ task[g] = "wait" /\ event /\ \A h \in Goals : task[h] # "clear"

\* What the members say is a decision of goal g.
Found(g)   == node.has_box = "yes" /\ node.label \in verdicts[g]
Decided(g) == \/ node.has_box = "no" /\ "none" \in verdicts[g]
              \/ Found(g) /\ node.turned

\* A goal that nothing disturbs is the last one sent, and alone.
Alone(g) == Sent = 1 .. g /\ Active = {g}

\* The control loop is off until the goal switches it on.
OffBefore(g) ==
  /\ task[g] \in {"counts", "state", "pos", "run"} => ~node.run /\ AllIdle
  /\ task[g] \in {"pos", "run"} => node.state = "approach"

Looping(g) == task[g] \in {"clear", "wait", "blocked"}

\* While it is on, a callback turns only when some callback of the goal has found
\* the target, or is about to write down what it found.
OnDuring(g) ==
  Looping(g) =>
    /\ \A c \in Callbacks :
         /\ Inside(c) => loop[c].born = g
         /\ loop[c].pc \in {"found", "label"} => loop[c].box.label \in verdicts[g]
         /\ loop[c].pc = "label" => node.has_box = "yes"
         /\ loop[c].pc \in {"yaw", "off"} => node.state = "turn"
         /\ loop[c].pc = "off" => node.turned
    /\ node.run => \A c \in Callbacks : loop[c].pc \notin {"stopped", "set"}
    /\ node.run /\ node.state = "turn" =>
         (\E c \in Callbacks : loop[c].pc \in {"found", "label"}) \/ Found(g)

\* The callback that switches it off is the last one, and has decided.
OffAfter(g) ==
  /\ Looping(g) /\ ~node.run =>
       /\ \A c, d \in Callbacks : Inside(c) /\ Inside(d) => c = d
       /\ \A c \in Callbacks :
            /\ Inside(c) => loop[c].pc \in {"stopped", "set"}
            /\ loop[c].pc = "stopped" => "none" \in verdicts[g]
            /\ loop[c].pc = "set" => Decided(g)
       /\ AllIdle => Decided(g)
  /\ task[g] = "wait" /\ event => ~node.run /\ AllIdle

\* The task reads the members with nothing at work on them.
Answers(g) ==
  /\ task[g] \in {"has_box", "pose", "label"} => ~node.run /\ AllIdle /\ Decided(g)
  /\ task[g] \in {"pose", "label"} => node.has_box = "yes"
  /\ task[g] = "label" => result[g].turned

OwnGoal(g) == Alone(g) /\ OffBefore(g) /\ OnDuring(g) /\ OffAfter(g) /\ Answers(g)

OwnInv == /\ \A g \in Active \ disturbed : OwnGoal(g)
          /\ ResultIsOwn

-----------------------------------------------------------------------------
(* Types                                                                   *)

\* Goals are numbers, and how many were sent is one of them or 0.
LEMMA SentCount ==
  /\ Cardinality(Sent) \in Goals \cup {0}
  /\ \A g \in Goals : Sent = 1 .. g => Cardinality(Sent) = g
<1>1. IsFiniteSet(Goals) /\ Cardinality(Goals) = MaxGoals
  BY FS_Interval, LimitAssumption DEF Goals
<1>2. Sent \subseteq Goals
  BY DEF Sent
<1>3. Cardinality(Sent) \in Nat /\ Cardinality(Sent) <= MaxGoals
  BY <1>1, <1>2, FS_Subset, FS_CardinalityType
<1>4. ASSUME NEW g \in Goals, Sent = 1 .. g PROVE Cardinality(Sent) = g
  BY <1>4, FS_Interval, LimitAssumption DEF Goals
<1> QED
  BY <1>3, <1>4, LimitAssumption DEF Goals

\* The box a callback may find.
LEMMA BoxTypes ==
  ASSUME NEW b \in Boxes
  PROVE  /\ b = NoBox \/ b \in [label : Labels, centred : BOOLEAN]
         /\ b.label \in Labels \cup {"none"}
         /\ NoBox \in Boxes
BY DEF Boxes, NoBox

\* A count that stops at its limit is in its range.
LEMMA CountTypes ==
  ASSUME NEW limit \in Nat, NEW n \in Nat
  PROVE  CountUpTo(limit, n) \in 0 .. limit
BY DEF CountUpTo

\* A callback moves on: the others stay where they are, and it keeps its box when
\* it has one to keep.
Moves(c, p) ==
  /\ loop' \in [Callbacks -> Locals]
  /\ \A d \in Callbacks \ {c} : loop'[d] = loop[d]
  /\ loop'[c].pc = p
  /\ p \in Seeing => loop'[c].box = loop[c].box
  /\ p # "idle" => loop'[c].born = loop[c].born

\* A step that only moves a callback on keeps the types.
LEMMA LoopMoves ==
  ASSUME TypeOK, NEW c \in Callbacks, NEW p \in Places
  PROVE  /\ Go(c, p) => Moves(c, p)
         /\ \A n \in Nat : Count(c, n, p) => Moves(c, p)
         /\ p \notin Seeing /\ Forget(c, p) => Moves(c, p)
         /\ Return(c) => Moves(c, "idle")
<1>1. loop \in [Callbacks -> Locals]
  BY DEF TypeOK, Types
<1>2. loop[c] \in Locals
  BY <1>1
<1>3. ASSUME NEW r \in Locals, loop' = [loop EXCEPT ![c] = r]
      PROVE  /\ loop' \in [Callbacks -> Locals]
             /\ \A d \in Callbacks \ {c} : loop'[d] = loop[d]
             /\ loop'[c] = r
  BY <1>1, <1>3
<1>4. ASSUME Go(c, p) PROVE Moves(c, p)
  <2> DEFINE r == [loop[c] EXCEPT !.pc = p]
  <2>1. r \in Locals /\ r.pc = p /\ r.box = loop[c].box /\ r.born = loop[c].born
    BY <1>2 DEF Locals
  <2>2. loop' = [loop EXCEPT ![c] = r]
    BY <1>4 DEF Go
  <2> QED
    BY <1>3, <2>1, <2>2 DEF Moves
<1>5. ASSUME NEW n \in Nat, Count(c, n, p) PROVE Moves(c, p)
  <2> DEFINE r == [loop[c] EXCEPT !.pc = p, !.count = n]
  <2>1. r \in Locals /\ r.pc = p /\ r.box = loop[c].box /\ r.born = loop[c].born
    BY <1>2 DEF Locals
  <2>2. loop' = [loop EXCEPT ![c] = r]
    BY <1>5 DEF Count
  <2> QED
    BY <1>3, <2>1, <2>2 DEF Moves
<1>6. ASSUME p \notin Seeing, Forget(c, p) PROVE Moves(c, p)
  <2> DEFINE r == [loop[c] EXCEPT !.pc = p, !.box = NoBox]
  <2>1. r \in Locals /\ r.pc = p /\ r.born = loop[c].born
    BY <1>2 DEF Locals, Boxes
  <2>2. loop' = [loop EXCEPT ![c] = r]
    BY <1>6 DEF Forget
  <2> QED
    BY <1>3, <1>6, <2>1, <2>2 DEF Moves
<1>7. ASSUME Return(c) PROVE Moves(c, "idle")
  <2>1. Idle \in Locals /\ Idle.pc = "idle" /\ "idle" \notin Seeing
    BY DEF Idle, Locals, Boxes, Places, Seeing
  <2> QED
    BY <1>3, <1>7, <2>1 DEF Moves, Return
<1> QED
  BY <1>4, <1>5, <1>6, <1>7

\* Where each read takes its callback.
LEMMA ReadsMove ==
  ASSUME TypeOK, NEW c \in Callbacks, Reads(c)
  PROVE  /\ UNCHANGED <<node, event, goalVars, verdicts, early, disturbed>>
         /\ \/ /\ At(c, "box") /\ loop' \in [Callbacks -> Locals]
               /\ \A d \in Callbacks \ {c} : loop'[d] = loop[d]
               /\ loop'[c].born = loop[c].born
               /\ \/ loop'[c].pc = "none"
                  \/ loop'[c].pc = "seen" /\ loop'[c].box \in [label : Labels, centred : BOOLEAN]
            \/ At(c, "none") /\ Moves(c, "none2")
            \/ At(c, "hit") /\ Moves(c, "hit2")
            \/ At(c, "limit") /\ (Moves(c, "stop") \/ Moves(c, "idle"))
            \/ At(c, "look") /\ (Moves(c, "branch") \/ Moves(c, "idle"))
            \/ At(c, "branch") /\ (Moves(c, "hit") \/ Moves(c, "turning"))
            \/ At(c, "reached") /\ (Moves(c, "turn") \/ Moves(c, "turning"))
            \/ At(c, "turning") /\ ((node.state = "turn" /\ Moves(c, "yaw")) \/ Moves(c, "idle"))
<1>1. UNCHANGED <<node, event, goalVars, verdicts, early, disturbed>>
  BY DEF Reads
<1>2. node.no_box_count \in Nat /\ node.goal_count \in Nat
  <2>1. node.no_box_count \in 0 .. NoBoxLimit /\ node.goal_count \in 0 .. GoalLimit
    BY DEF TypeOK, Types, Members
  <2> QED
    BY <2>1, LimitAssumption
<1>3. loop \in [Callbacks -> Locals] /\ loop[c] \in Locals
  BY DEF TypeOK, Types
<1>4. CASE TakeBox(c)
  <2>1. PICK b \in Boxes :
          loop' = [loop EXCEPT ![c].pc = IF b = NoBox THEN "none" ELSE "seen", ![c].box = b]
    BY <1>4 DEF TakeBox
  <2> DEFINE r == [loop[c] EXCEPT !.pc = IF b = NoBox THEN "none" ELSE "seen", !.box = b]
  <2>2. r \in Locals /\ r.born = loop[c].born /\ r.box = b
        /\ r.pc = IF b = NoBox THEN "none" ELSE "seen"
    BY <1>3 DEF Locals, Places, Seeing
  <2>3. loop' = [loop EXCEPT ![c] = r]
    BY <2>1
  <2>4. /\ loop' \in [Callbacks -> Locals]
        /\ \A d \in Callbacks \ {c} : loop'[d] = loop[d]
        /\ loop'[c] = r
    BY <1>3, <2>2, <2>3
  <2>5. b = NoBox \/ b \in [label : Labels, centred : BOOLEAN]
    BY BoxTypes
  <2> QED
    BY <1>1, <1>4, <2>2, <2>4, <2>5 DEF TakeBox
<1>5. CASE ReadNoBoxCount(c) \/ ReadGoalCount(c)
  BY <1>1, <1>2, <1>5, LoopMoves DEF ReadNoBoxCount, ReadGoalCount, Places, Seeing
<1>6. CASE TestNoBoxLimit(c) \/ TestNoBoxCount(c)
  BY <1>1, <1>6, LoopMoves DEF TestNoBoxLimit, TestNoBoxCount, Places, Seeing
<1>7. CASE TestApproach(c)
  BY <1>1, <1>7, LoopMoves DEF TestApproach, Places, Seeing
<1>8. CASE TestGoalCount(c) \/ TestTurn(c)
  BY <1>1, <1>8, LoopMoves DEF TestGoalCount, TestTurn, Places, Seeing
<1> QED
  BY <1>4, <1>5, <1>6, <1>7, <1>8 DEF Reads

\* Where each write takes its callback.
LEMMA WritesMove ==
  ASSUME TypeOK, NEW c \in Callbacks
  PROVE  /\ WriteNoBoxCount(c) => At(c, "none2") /\ Moves(c, "limit")
         /\ ResetNoBoxCount(c) => At(c, "seen") /\ Moves(c, "look")
         /\ WriteGoalCount(c)  => At(c, "hit2") /\ Moves(c, "reached")
         /\ BoxFound(c)        => At(c, "found") /\ Moves(c, "label")
         /\ TakeLabel(c)       => At(c, "label") /\ Moves(c, "idle")
         /\ Turn(c)            => At(c, "yaw") /\ Moves(c, "off")
         /\ NoBoxFound(c)      => At(c, "stopped") /\ Moves(c, "set")
         /\ TargetReached(c)   => At(c, "turn") /\ Moves(c, "found")
         /\ StopRun(c)         => At(c, "stop") /\ Moves(c, "stopped")
         /\ StopTurning(c)     => At(c, "off") /\ Moves(c, "set")
         /\ SetFinishEvent(c)  => At(c, "set") /\ Moves(c, "idle")
BY LoopMoves DEF WriteNoBoxCount, ResetNoBoxCount, WriteGoalCount, BoxFound, TakeLabel, Turn,
                 NoBoxFound, TargetReached, StopRun, StopTurning, SetFinishEvent, Places, Seeing

\* A callback that has no box, or keeps the one it has, leaves HoldsBox alone.
LEMMA MovesTyped ==
  ASSUME TypeOK, NEW c \in Callbacks, NEW p \in Places, Moves(c, p),
         p \in Seeing => loop[c].pc \in Seeing
  PROVE  HoldsBox'
BY DEF Moves, HoldsBox, TypeOK

\* What a callback reads changes no type.
LEMMA ReadsTypes ==
  ASSUME TypeOK, NEW c \in Callbacks, Reads(c)
  PROVE  TypeOK'
<1>1. HoldsBox'
  BY ReadsMove, MovesTyped DEF At, Places, Seeing, HoldsBox, TypeOK
<1>2. loop' \in [Callbacks -> Locals]
  BY ReadsMove DEF Moves
<1>3. UNCHANGED <<node, event, goalVars, verdicts, early, disturbed>>
  BY ReadsMove
<1> QED
  BY <1>1, <1>2, <1>3 DEF TypeOK, Types, goalVars

\* Nor does a write to a member.
LEMMA WritesTypes ==
  ASSUME TypeOK, NEW c \in Callbacks, Writes(c)
  PROVE  TypeOK'
<1>1. loop \in [Callbacks -> Locals] /\ loop[c] \in Locals /\ loop[c].count \in Nat
  BY DEF TypeOK, Types, Locals
<1>2. CountUpTo(NoBoxLimit, loop[c].count) \in 0 .. NoBoxLimit
      /\ CountUpTo(GoalLimit, loop[c].count) \in 0 .. GoalLimit
  BY <1>1, CountTypes, LimitAssumption
<1>3. 0 \in 0 .. NoBoxLimit
  BY LimitAssumption
<1>4. loop' \in [Callbacks -> Locals] /\ HoldsBox'
  BY WritesMove, MovesTyped DEF Writes, At, Moves, Places, Seeing
<1>5. node' \in Members
  <2>1. node \in Members
    BY DEF TypeOK, Types
  <2>2. CASE WriteNoBoxCount(c) \/ ResetNoBoxCount(c)
    BY <1>2, <1>3, <2>1, <2>2 DEF WriteNoBoxCount, ResetNoBoxCount, Members
  <2>3. CASE WriteGoalCount(c)
    BY <1>2, <2>1, <2>3 DEF WriteGoalCount, Members
  <2>4. CASE TakeLabel(c)
    <3>1. loop[c].box \in [label : Labels, centred : BOOLEAN]
      BY <2>4 DEF TakeLabel, At, TypeOK, HoldsBox, Seeing
    <3> QED
      BY <2>1, <2>4, <3>1 DEF TakeLabel, Members
  <2>5. CASE BoxFound(c) \/ Turn(c) \/ NoBoxFound(c)
    BY <2>1, <2>5 DEF BoxFound, Turn, NoBoxFound, Members
  <2> QED
    BY <2>2, <2>3, <2>4, <2>5 DEF Writes
<1> QED
  BY <1>4, <1>5 DEF Writes, TypeOK, Types, goalVars

\* Nor does a decision.
LEMMA DecidesTypes ==
  ASSUME TypeOK, NEW c \in Callbacks, Decides(c)
  PROVE  TypeOK'
<1>1. loop' \in [Callbacks -> Locals] /\ HoldsBox'
  BY WritesMove, MovesTyped DEF Decides, At, Moves, Places, Seeing
<1>2. loop[c].box.label \in Labels \cup {"none"}
  BY BoxTypes DEF TypeOK, Types, Locals
<1>3. ASSUME NEW v \in Labels \cup {"none"}, Verdict(c, v)
      PROVE  verdicts' \in [Goals -> SUBSET (Labels \cup {"none"})]
  <2>1. verdicts \in [Goals -> SUBSET (Labels \cup {"none"})]
    BY DEF TypeOK, Types
  <2>2. verdicts' = [verdicts EXCEPT ![loop[c].born] = verdicts[loop[c].born] \cup {v}]
    BY <1>3 DEF Verdict
  <2> QED
    BY <2>1, <2>2
<1>4. Witnessed(c) => disturbed' \subseteq Goals
  BY DEF Witnessed, Active, Sent, TypeOK, Types
<1>5. verdicts' \in [Goals -> SUBSET (Labels \cup {"none"})] /\ disturbed' \subseteq Goals
  BY <1>2, <1>3, <1>4 DEF Decides, TargetReached, StopRun, StopTurning, TypeOK, Types
<1>6. node' = [node EXCEPT !.state = "turn"] \/ node' = [node EXCEPT !.run = FALSE]
  BY DEF Decides, TargetReached, StopRun, StopTurning
<1>7. node' \in Members
  BY <1>6 DEF TypeOK, Types, Members
<1> QED
  BY <1>1, <1>5, <1>7 DEF Decides, TypeOK, Types, goalVars

\* Nor does a callback that begins or ends.
LEMMA BeginMoves ==
  ASSUME TypeOK, NEW c \in Callbacks, BeginTimer(c)
  PROVE  /\ loop' \in [Callbacks -> Locals]
         /\ \A d \in Callbacks \ {c} : loop'[d] = loop[d]
         /\ loop'[c].pc = "box" /\ loop'[c].born = Cardinality(Sent)
<1>1. loop \in [Callbacks -> Locals] /\ loop[c] \in Locals
  BY DEF TypeOK, Types
<1> DEFINE r == [loop[c] EXCEPT !.pc = "box", !.born = Cardinality(Sent)]
<1>2. r \in Locals /\ r.pc = "box" /\ r.born = Cardinality(Sent)
  BY <1>1, SentCount DEF Locals, Places
<1>3. loop' = [loop EXCEPT ![c] = r]
  BY DEF BeginTimer
<1> QED
  BY <1>1, <1>2, <1>3

\* The first and the last step of a callback keep the types.
LEMMA EndsTypes ==
  ASSUME TypeOK, NEW c \in Callbacks, BeginTimer(c) \/ SetFinishEvent(c)
  PROVE  TypeOK'
<1>1. CASE BeginTimer(c)
  <2>1. HoldsBox'
    BY <1>1, BeginMoves DEF HoldsBox, TypeOK, Seeing
  <2> QED
    BY <1>1, <2>1, BeginMoves DEF BeginTimer, TypeOK, Types, goalVars
<1>2. CASE SetFinishEvent(c)
  <2>1. Moves(c, "idle") /\ At(c, "set")
    BY <1>2, WritesMove
  <2>2. HoldsBox' /\ loop' \in [Callbacks -> Locals]
    BY <2>1, MovesTyped DEF Moves, At, Places, Seeing
  <2>3. task' \in [Goals -> Stages]
    BY <1>2 DEF SetFinishEvent, TypeOK, Types, Stages
  <2> QED
    BY <1>2, <2>2, <2>3 DEF SetFinishEvent, TypeOK, Types
<1> QED
  BY <1>1, <1>2

\* A goal and its task keep the types.
LEMMA TaskTypes ==
  ASSUME TypeOK, NEW g \in Goals, StartGoal(g) \/ TaskStep(g)
  PROVE  TypeOK'
<1> USE DEF TypeOK
<1> HoldsBox'
  BY DEF HoldsBox, StartGoal, TaskStep, Prepare, ClearEvent, Wait, ReadHasBox, ReadPose, ReadLabel
<1>0. node \in Members /\ task \in [Goals -> Stages] /\ result \in [Goals -> Results]
  BY DEF Types
<1>t. task' \in [Goals -> Stages]
  BY <1>0 DEF StartGoal, TaskStep, Prepare, ResetCounts, ResetState, ResetPos, SetRun,
              ClearEvent, Wait, ReadHasBox, ReadPose, ReadLabel, TaskGo, Stages
<1>1. CASE StartGoal(g)
  BY <1>1, <1>t DEF StartGoal, Active, Sent, Types
<1>2. CASE Prepare(g)
  <2>1. 0 \in 0 .. NoBoxLimit /\ 0 \in 0 .. GoalLimit
    BY LimitAssumption
  <2>2. node' \in Members
    BY <1>0, <1>2, <2>1 DEF Prepare, ResetCounts, ResetState, ResetPos, SetRun, Members
  <2> QED
    BY <1>2, <1>t, <2>2 DEF Prepare, ResetCounts, ResetState, ResetPos, SetRun, TaskGo, Types
<1>3. CASE ClearEvent(g) \/ Wait(g)
  BY <1>3, <1>t DEF ClearEvent, Wait, TaskGo, Types
<1>4. CASE ReadHasBox(g) \/ ReadPose(g)
  <2>1. node.turned \in BOOLEAN /\ result[g] \in Results
    BY <1>0 DEF Members
  <2>2. [result[g] EXCEPT !.label = "none"] \in Results
        /\ [result[g] EXCEPT !.turned = node.turned] \in Results
    BY <2>1 DEF Results
  <2>3. result' = result \/ \E r \in Results : result' = [result EXCEPT ![g] = r]
    BY <1>4, <2>2 DEF ReadHasBox, ReadPose
  <2>4. result' \in [Goals -> Results]
    BY <1>0, <2>3
  <2> QED
    BY <1>4, <1>t, <2>4 DEF ReadHasBox, ReadPose, TaskGo, Types
<1>5. CASE ReadLabel(g)
  <2>1. node.label \in Labels \cup {"unset"} /\ result[g] \in Results
    BY <1>0 DEF Members
  <2>2. Empty \in Results
        /\ (node.label # "unset" => [result[g] EXCEPT !.label = node.label] \in Results)
    BY <2>1 DEF Results, Empty
  <2>3. \E r \in Results : result' = [result EXCEPT ![g] = r]
    BY <1>5, <2>2 DEF ReadLabel
  <2>4. result' \in [Goals -> Results]
    BY <1>0, <2>3
  <2> QED
    BY <1>5, <1>t, <2>4 DEF ReadLabel, TaskGo, Types
<1> QED
  BY <1>1, <1>2, <1>3, <1>4, <1>5 DEF TaskStep

\* Every step keeps the types.
LEMMA TypedStep == TypeOK /\ [Next]_vars => TypeOK'
<1> SUFFICES ASSUME TypeOK, [Next]_vars PROVE TypeOK'
  OBVIOUS
<1>1. CASE UNCHANGED vars
  BY <1>1 DEF vars, goalVars, TypeOK, Types, HoldsBox
<1>2. ASSUME NEW c \in Callbacks, BeginTimer(c) \/ TimerStep(c) PROVE TypeOK'
  BY <1>2, ReadsTypes, WritesTypes, DecidesTypes, EndsTypes DEF TimerStep
<1> QED
  BY <1>1, <1>2, TaskTypes DEF Next

\* The types hold at first.
LEMMA TypedInit == Init => TypeOK
<1> SUFFICES ASSUME Init PROVE TypeOK
  OBVIOUS
<1>1. Idle \in Locals /\ Idle.pc \notin Seeing
  BY DEF Idle, Locals, Boxes, Places, Seeing
<1>2. loop \in [Callbacks -> Locals] /\ HoldsBox
  BY <1>1 DEF Init, HoldsBox
<1>3. 0 \in 0 .. NoBoxLimit /\ 0 \in 0 .. GoalLimit
  BY LimitAssumption
<1> QED
  BY <1>2, <1>3 DEF Init, Empty, TypeOK, Types, Members, Stages, Results

\* Every reachable state of the node, its callbacks and its tasks is well typed: in
\* particular a callback that takes over a label has seen a box.
THEOREM TypeCorrect == Spec => []TypeOK
BY TypedInit, TypedStep, PTL DEF Spec

-----------------------------------------------------------------------------
(* A lost wake-up                                                          *)

\* A callback between run = False and finish_event.set() stays on its way there.
LEMMA StoppedGoesOn ==
  ASSUME TypeOK, NEW c \in Callbacks, BeginTimer(c) \/ Reads(c) \/ Writes(c) \/ Decides(c),
         NEW d \in Callbacks, loop[d].pc \in {"stopped", "set"}
  PROVE  loop'[d].pc \in {"stopped", "set"}
<1>1. CASE BeginTimer(c)
  BY <1>1, BeginMoves DEF BeginTimer, At
<1>2. CASE Reads(c)
  BY <1>2, ReadsMove DEF At, Moves
<1>3. CASE Writes(c)
  BY <1>3, WritesMove DEF Writes, At, Moves
<1>4. CASE Decides(c)
  BY <1>4, WritesMove DEF Decides, At, Moves
<1> QED
  BY <1>1, <1>2, <1>3, <1>4

\* A callback keeps WillWake: whoever switches the loop off is on its way to set().
LEMMA WillWakeTimer ==
  ASSUME TypeOK, WillWake, NEW c \in Callbacks, BeginTimer(c) \/ TimerStep(c)
  PROVE  WillWake'
<1>1. CASE SetFinishEvent(c)
  <2> SUFFICES ASSUME ~early', ~node'.run, NEW g \in Goals,
                      task'[g] \in {"clear", "wait", "blocked"}
               PROVE  task'[g] = "wait" /\ event' /\ \A h \in Goals : task'[h] # "clear"
    BY DEF WillWake
  <2>1. task \in [Goals -> Stages]
    BY DEF TypeOK, Types
  <2>2. event' /\ \A h \in Goals : task[h] # "clear"
    BY <1>1 DEF SetFinishEvent, TypeOK, Types
  <2>3. \A h \in Goals : task'[h] = IF task[h] = "blocked" THEN "has_box" ELSE task[h]
    BY <1>1, <2>1 DEF SetFinishEvent
  <2> QED
    BY <2>2, <2>3
<1>2. CASE Decides(c)
  <2>1. CASE TargetReached(c)
    <3>1. node'.run = node.run /\ UNCHANGED <<event, task, early>>
      BY <1>2, <2>1 DEF Decides, TargetReached, goalVars, TypeOK, Types, Members
    <3> QED
      BY <1>2, <3>1, StoppedGoesOn DEF WillWake
  <2>2. CASE StopRun(c) \/ StopTurning(c)
    <3>1. loop'[c].pc \in {"stopped", "set"}
      BY <2>2, WritesMove DEF Moves
    <3> QED
      BY <3>1 DEF WillWake
  <2> QED
    BY <1>2, <2>1, <2>2 DEF Decides
<1>3. CASE BeginTimer(c) \/ Reads(c) \/ Writes(c)
  <2>1. UNCHANGED <<event, task, early>>
    BY <1>3 DEF BeginTimer, Reads, Writes, goalVars
  <2>2. node'.run = node.run
    BY <1>3 DEF BeginTimer, Reads, Writes, WriteNoBoxCount, ResetNoBoxCount, WriteGoalCount,
                BoxFound, TakeLabel, Turn, NoBoxFound, TypeOK, Types, Members
  <2> QED
    BY <1>3, <2>1, <2>2, StoppedGoesOn DEF WillWake
<1> QED
  BY <1>1, <1>2, <1>3 DEF TimerStep

\* So does a goal: it switches the loop on before it clears the flag.
LEMMA WillWakeTask ==
  ASSUME TypeOK, WillWake, NEW g \in Goals, StartGoal(g) \/ TaskStep(g)
  PROVE  WillWake'
<1>0. /\ task \in [Goals -> Stages] /\ UNCHANGED <<loop, early>>
      /\ \A h \in Goals \ {g} : task'[h] = task[h]
  BY DEF StartGoal, TaskStep, Prepare, ResetCounts, ResetState, ResetPos, SetRun, ClearEvent,
         Wait, ReadHasBox, ReadPose, ReadLabel, TaskGo, TypeOK, Types
<1>1. CASE SetRun(g)
  <2>1. node'.run
    BY <1>1 DEF SetRun, TypeOK, Types, Members
  <2> QED
    BY <2>1 DEF WillWake
<1>2. CASE ClearEvent(g)
  <2>1. task[g] = "clear" /\ node' = node
    BY <1>2 DEF ClearEvent, TaskGo
  <2>2. ~early /\ ~node.run => \E c \in Callbacks : loop[c].pc \in {"stopped", "set"}
    BY <2>1 DEF WillWake
  <2> QED
    BY <1>0, <2>1, <2>2 DEF WillWake
<1>3. CASE Wait(g)
  <2>1. /\ task[g] = "wait" /\ task'[g] = IF event THEN "has_box" ELSE "blocked"
        /\ UNCHANGED <<node, event>>
    BY <1>0, <1>3 DEF Wait, TaskGo
  <2> QED
    BY <1>0, <2>1 DEF WillWake
<1>4. CASE \/ StartGoal(g) \/ ReadHasBox(g) \/ ReadPose(g) \/ ReadLabel(g)
           \/ Prepare(g) /\ ~SetRun(g)
  <2>1. /\ task'[g] \notin {"clear", "wait", "blocked"} /\ event' = event
        /\ task[g] \notin {"clear", "wait", "blocked"}
    BY <1>0, <1>4 DEF StartGoal, ReadHasBox, ReadPose, ReadLabel, Prepare, ResetCounts, ResetState,
                      ResetPos, TaskGo
  <2>2. node'.run = node.run
    BY <1>4 DEF StartGoal, ReadHasBox, ReadPose, ReadLabel, Prepare, ResetCounts, ResetState,
                ResetPos, TypeOK, Types, Members
  <2> QED
    BY <1>0, <2>1, <2>2 DEF WillWake
<1> QED
  BY <1>1, <1>2, <1>3, <1>4 DEF TaskStep

\* A task is stuck with the loop off and no callback left only if finish_event was set
\* between run = True and finish_event.clear(): for every number of goals, one after
\* another or at the same time.
THEOREM StuckNeedsEarlyFinishAlways == Spec => []StuckNeedsEarlyFinish
<1>1. Init => WillWake
  BY DEF Init, WillWake
<1>2. TypeOK /\ WillWake /\ [Next]_vars => WillWake'
  <2>1. ASSUME WillWake, UNCHANGED vars PROVE WillWake'
    BY <2>1 DEF vars, goalVars, WillWake
  <2> QED
    BY <2>1, WillWakeTimer, WillWakeTask DEF Next
<1>3. WillWake => StuckNeedsEarlyFinish
  BY DEF WillWake, StuckNeedsEarlyFinish, At
<1> QED
  BY <1>1, <1>2, <1>3, TypedInit, TypedStep, PTL DEF Spec

-----------------------------------------------------------------------------
(* A goal's own result                                                     *)

\* Where a callback of an undisturbed goal may be.
LEMMA InsideLoops ==
  ASSUME TypeOK, NEW g \in Active, OwnGoal(g), NEW c \in Callbacks, Inside(c)
  PROVE  /\ Looping(g) /\ loop[c].born = g
         /\ ~node.run => /\ loop[c].pc \in {"stopped", "set"}
                         /\ \A d \in Callbacks \ {c} : ~Inside(d)
<1>1. task[g] \in Stages /\ task[g] \notin {"unsent", "done"}
  BY DEF TypeOK, Types, Active, Sent
<1>2. Looping(g)
  BY <1>1 DEF OwnGoal, OffBefore, Answers, AllIdle, Looping, Stages
<1> QED
  BY <1>2 DEF OwnGoal, OnDuring, OffAfter

\* A callback sends no goal and ends none.
LEMMA TimerActive ==
  ASSUME TypeOK, NEW c \in Callbacks, BeginTimer(c) \/ TimerStep(c)
  PROVE  /\ Sent' = Sent /\ Active' = Active /\ result' = result
         /\ disturbed \subseteq disturbed'
         /\ \A g \in Goals : verdicts[g] \subseteq verdicts'[g]
         /\ \A g \in Goals : task'[g] = task[g] \/ (SetFinishEvent(c) /\ task[g] = "blocked"
                                                    /\ task'[g] = "has_box")
<1>1. CASE SetFinishEvent(c)
  <2>1. \A g \in Goals : task'[g] = IF task[g] = "blocked" THEN "has_box" ELSE task[g]
    BY <1>1 DEF SetFinishEvent, TypeOK, Types
  <2> QED
    BY <1>1, <2>1 DEF SetFinishEvent, Sent, Active
<1>2. CASE Decides(c)
  <2>1. task' = task /\ result' = result
    BY <1>2 DEF Decides, goalVars
  <2>2. disturbed \subseteq disturbed'
    BY <1>2 DEF Decides, TargetReached, StopRun, StopTurning, Witnessed
  <2>3. \A v : Verdict(c, v) => \A g \in Goals : verdicts[g] \subseteq verdicts'[g]
    BY DEF Verdict, TypeOK, Types
  <2>4. \A g \in Goals : verdicts[g] \subseteq verdicts'[g]
    BY <1>2, <2>3 DEF Decides, TargetReached, StopRun, StopTurning
  <2> QED
    BY <2>1, <2>2, <2>4 DEF Sent, Active
<1>3. CASE BeginTimer(c) \/ Reads(c) \/ Writes(c)
  BY <1>3 DEF BeginTimer, Reads, Writes, goalVars, Sent, Active
<1> QED
  BY <1>1, <1>2, <1>3 DEF TimerStep

\* A callback that begins belongs to the goal that has switched the loop on.
LEMMA OwnBegin ==
  ASSUME TypeOK, NEW g \in Active, OwnGoal(g), NEW c \in Callbacks, BeginTimer(c)
  PROVE  OwnGoal(g)'
<1>1. Sent' = Sent /\ Active' = Active
      /\ UNCHANGED <<node, event, task, result, verdicts>>
  BY TimerActive DEF BeginTimer, goalVars
<1>2. g \in Goals /\ task[g] \in Stages /\ task[g] \notin {"unsent", "done"} /\ node.run
  BY DEF TypeOK, Types, Active, Sent, BeginTimer
<1>3. Looping(g)
  BY <1>2 DEF OwnGoal, OffBefore, Answers, Looping, Stages
<1>4. /\ \A d \in Callbacks \ {c} : loop'[d] = loop[d]
      /\ loop'[c].pc = "box" /\ loop'[c].born = g /\ loop[c].pc = "idle"
  BY <1>2, BeginMoves, SentCount DEF BeginTimer, At, OwnGoal, Alone
<1>5. OnDuring(g)'
  BY <1>1, <1>2, <1>3, <1>4 DEF OwnGoal, OnDuring, Looping, Inside, Found
<1>6. task[g] = "wait" /\ event => FALSE
  BY <1>2 DEF OwnGoal, OffAfter
<1> QED
  BY <1>1, <1>2, <1>3, <1>5, <1>6
     DEF OwnGoal, Alone, OffBefore, OffAfter, Answers, Looping

\* A callback that goes on inside the loop, with run still True: what is left to show is
\* OnDuring.
LEMMA OwnGoesOn ==
  ASSUME TypeOK, NEW g \in Active, OwnGoal(g), NEW c \in Callbacks, TimerStep(c), Inside(c),
         node.run, node'.run, ~SetFinishEvent(c), event' = event, OnDuring(g)'
  PROVE  OwnGoal(g)'
<1>1. Sent' = Sent /\ Active' = Active /\ task'[g] = task[g]
  BY TimerActive DEF Active, Sent
<1>2. Looping(g)
  BY InsideLoops
<1>3. task[g] = "wait" /\ event => FALSE
  BY DEF OwnGoal, OffAfter
<1> QED
  BY <1>1, <1>2, <1>3 DEF OwnGoal, Alone, OffBefore, OffAfter, Answers, Looping

\* What an undisturbed goal knows outlives a read of one of its callbacks.
LEMMA OwnReads ==
  ASSUME TypeOK, NEW g \in Active, OwnGoal(g), NEW c \in Callbacks, Reads(c)
  PROVE  OwnGoal(g)'
<1>1. Inside(c) /\ loop[c].pc \notin {"stopped", "set"}
  BY ReadsMove DEF At, Inside
<1>2. Looping(g) /\ loop[c].born = g /\ node.run
  BY <1>1, InsideLoops
<1>3. UNCHANGED <<node, event, task, result, verdicts>>
  BY ReadsMove DEF goalVars
<1>4. /\ \A d \in Callbacks \ {c} : loop'[d] = loop[d]
      /\ loop'[c].pc # "idle" => loop'[c].born = g
      /\ loop'[c].pc \notin {"found", "label", "off", "stopped", "set"}
      /\ loop'[c].pc = "yaw" => node.state = "turn"
      /\ loop[c].pc \notin {"found", "label"}
  BY <1>2, ReadsMove DEF At, Moves
<1>5. OnDuring(g)'
  BY <1>2, <1>3, <1>4 DEF OwnGoal, OnDuring, Looping, Inside, Found
<1> QED
  BY <1>1, <1>2, <1>3, <1>5, OwnGoesOn DEF TimerStep, Reads, SetFinishEvent, At

\* It outlives a write, too.
LEMMA OwnWrites ==
  ASSUME TypeOK, NEW g \in Active, OwnGoal(g), NEW c \in Callbacks, Writes(c)
  PROVE  OwnGoal(g)'
<1>0. g \in Goals /\ node \in Members /\ UNCHANGED <<event, task, result, verdicts>>
  BY DEF Active, Sent, TypeOK, Types, Writes, goalVars
<1>1. Inside(c)
  BY WritesMove DEF Writes, At, Inside
<1>2. Looping(g) /\ loop[c].born = g /\ (~node.run => loop[c].pc \in {"stopped", "set"})
  BY <1>1, InsideLoops
<1>3. CASE NoBoxFound(c)
  <2>1. Moves(c, "set") /\ loop[c].pc = "stopped"
    BY <1>3, WritesMove DEF At
  <2>2. ~node.run
    BY <1>2, <2>1 DEF OwnGoal, OnDuring
  <2>3. "none" \in verdicts[g] /\ \A d \in Callbacks \ {c} : ~Inside(d)
    BY <1>1, <1>2, <2>1, <2>2, InsideLoops DEF OwnGoal, OffAfter
  <2>4. /\ node'.has_box = "no" /\ node'.run = node.run /\ node'.state = node.state
        /\ node'.turned = node.turned
    BY <1>0, <1>3 DEF NoBoxFound, Members
  <2>5. /\ \A d \in Callbacks \ {c} : loop'[d] = loop[d]
        /\ loop'[c].pc = "set" /\ loop'[c].born = g
    BY <1>2, <2>1 DEF Moves
  <2>6. Decided(g)'
    BY <1>0, <2>3, <2>4 DEF Decided
  <2>7. OnDuring(g)'
    BY <1>0, <2>2, <2>3, <2>4, <2>5 DEF OnDuring, Inside
  <2>8. OffAfter(g)'
    BY <1>0, <1>1, <1>2, <2>2, <2>3, <2>4, <2>5, <2>6
       DEF OwnGoal, OffAfter, AllIdle, Inside, Looping
  <2> QED
    BY <1>0, <1>2, <2>7, <2>8 DEF OwnGoal, Alone, Active, Sent, OffBefore, Answers, Looping
<1>4. CASE ~NoBoxFound(c)
  <2>1. node.run
    BY <1>2, <1>4, WritesMove DEF Writes, At
  <2>2. node'.run = node.run /\ node'.state = node.state
    BY <1>0, <1>4 DEF Writes, WriteNoBoxCount, ResetNoBoxCount, WriteGoalCount, BoxFound, TakeLabel,
                      Turn, Members
  <2>3. OnDuring(g)'
    <3>1. CASE WriteNoBoxCount(c) \/ ResetNoBoxCount(c) \/ WriteGoalCount(c)
      <4>1. /\ node'.has_box = node.has_box /\ node'.label = node.label
            /\ node'.turned = node.turned
        BY <1>0, <3>1 DEF WriteNoBoxCount, ResetNoBoxCount, WriteGoalCount, Members
      <4>2. /\ \A d \in Callbacks \ {c} : loop'[d] = loop[d]
            /\ loop'[c].pc \in {"limit", "look", "reached"} /\ loop'[c].born = g
            /\ loop[c].pc \notin {"found", "label"}
        BY <1>2, <3>1, WritesMove DEF Moves, At
      <4> QED
        BY <1>0, <1>2, <2>1, <2>2, <4>1, <4>2 DEF OwnGoal, OnDuring, Looping, Inside, Found
    <3>2. CASE BoxFound(c)
      <4>1. /\ node'.has_box = "yes" /\ node'.label = node.label
            /\ node'.turned = node.turned
        BY <1>0, <3>2 DEF BoxFound, Members
      <4>2. /\ \A d \in Callbacks \ {c} : loop'[d] = loop[d]
            /\ loop'[c].pc = "label" /\ loop'[c].born = g /\ loop'[c].box = loop[c].box
            /\ loop[c].pc = "found"
        BY <1>2, <3>2, WritesMove DEF Moves, At, Seeing
      <4> QED
        BY <1>0, <1>2, <2>1, <2>2, <4>1, <4>2 DEF OwnGoal, OnDuring, Looping, Inside, Found
    <3>3. CASE TakeLabel(c)
      <4>1. /\ node'.has_box = node.has_box /\ node'.label = loop[c].box.label
            /\ node'.turned = node.turned
        BY <1>0, <3>3 DEF TakeLabel, Members
      <4>2. /\ \A d \in Callbacks \ {c} : loop'[d] = loop[d]
            /\ loop'[c].pc = "idle" /\ loop[c].pc = "label"
        BY <1>2, <3>3, WritesMove DEF Moves, At
      <4>3. Found(g)'
        BY <1>0, <1>2, <4>1, <4>2 DEF OwnGoal, OnDuring, Found
      <4> QED
        BY <1>0, <1>2, <2>1, <2>2, <4>1, <4>2, <4>3 DEF OwnGoal, OnDuring, Looping, Inside
    <3>4. CASE Turn(c)
      <4>1. /\ node'.has_box = node.has_box /\ node'.label = node.label
            /\ node'.turned
        BY <1>0, <3>4 DEF Turn, Members
      <4>2. /\ \A d \in Callbacks \ {c} : loop'[d] = loop[d]
            /\ loop'[c].pc = "off" /\ loop'[c].born = g /\ loop[c].pc = "yaw"
        BY <1>2, <3>4, WritesMove DEF Moves, At
      <4> QED
        BY <1>0, <1>2, <2>1, <2>2, <4>1, <4>2 DEF OwnGoal, OnDuring, Looping, Inside, Found
    <3> QED
      BY <1>4, <3>1, <3>2, <3>3, <3>4 DEF Writes
  <2>4. ~SetFinishEvent(c)
    BY WritesMove DEF Writes, SetFinishEvent, At
  <2> QED
    BY <1>0, <1>1, <2>1, <2>2, <2>3, <2>4, OwnGoesOn DEF TimerStep
<1> QED
  BY <1>3, <1>4

\* The callback that switches the loop off without disturbing the goal is the last one.
LEMMA OwnDecides ==
  ASSUME TypeOK, NEW g \in Active, OwnGoal(g), NEW c \in Callbacks, Decides(c), g \notin disturbed'
  PROVE  OwnGoal(g)'
<1>0. g \in Goals /\ node \in Members /\ UNCHANGED <<event, task, result>>
  BY DEF Active, Sent, TypeOK, Types, Decides, goalVars
<1>1. Inside(c) /\ loop[c].pc \in {"turn", "stop", "off"}
  BY WritesMove DEF Decides, At, Inside
<1>2. Looping(g) /\ loop[c].born = g /\ node.run
  BY <1>1, InsideLoops
<1>3. \A v : Verdict(c, v) => verdicts'[g] = verdicts[g] \cup {v}
  BY <1>0, <1>2 DEF Verdict, TypeOK, Types
<1>4. ~(task[g] = "wait" /\ event)
  BY <1>2 DEF OwnGoal, OffAfter
<1>5. CASE TargetReached(c)
  <2>1. /\ node'.run /\ node'.state = "turn" /\ node'.has_box = node.has_box
        /\ node'.label = node.label /\ node'.turned = node.turned
    BY <1>0, <1>2, <1>5 DEF TargetReached, Members
  <2>2. verdicts'[g] = verdicts[g] \cup {loop[c].box.label}
    BY <1>3, <1>5 DEF TargetReached
  <2>3. /\ \A d \in Callbacks \ {c} : loop'[d] = loop[d]
        /\ loop'[c].pc = "found" /\ loop'[c].born = g /\ loop'[c].box = loop[c].box
    BY <1>2, <1>5, WritesMove DEF Moves, Seeing
  <2>4. OnDuring(g)'
    BY <1>0, <1>2, <2>1, <2>2, <2>3 DEF OwnGoal, OnDuring, Looping, Inside, Found
  <2>5. ~SetFinishEvent(c)
    BY <1>1 DEF SetFinishEvent, At
  <2> QED
    BY <1>0, <1>1, <1>2, <2>1, <2>4, <2>5, OwnGoesOn DEF TimerStep
<1>6. CASE StopRun(c) \/ StopTurning(c)
  <2>1. \A d \in Callbacks \ {c} : ~Inside(d)
    <3>1. Witnessed(c)
      BY <1>6 DEF StopRun, StopTurning
    <3> QED
      BY <3>1 DEF Witnessed, At, Inside
  <2>2. /\ ~node'.run /\ node'.state = node.state /\ node'.has_box = node.has_box
        /\ node'.label = node.label /\ node'.turned = node.turned
    BY <1>0, <1>6 DEF StopRun, StopTurning, Members
  <2>3. /\ \A d \in Callbacks \ {c} : loop'[d] = loop[d]
        /\ loop'[c].pc = IF StopRun(c) THEN "stopped" ELSE "set"
        /\ loop'[c].born = g
    BY <1>2, <1>6, WritesMove DEF Moves, At
  <2>4. verdicts[g] \subseteq verdicts'[g] /\ (StopRun(c) => "none" \in verdicts'[g])
    BY <1>3, <1>6 DEF StopRun, StopTurning
  <2>5. ~StopRun(c) => Decided(g)'
    <3>1. ASSUME ~StopRun(c) PROVE loop[c].pc = "off"
      BY <1>6, <3>1, WritesMove DEF At
    <3>2. ASSUME ~StopRun(c) PROVE node.state = "turn" /\ node.turned
      BY <1>2, <3>1, <3>2 DEF OwnGoal, OnDuring
    <3>3. ASSUME ~StopRun(c) PROVE Found(g)
      BY <1>2, <2>1, <3>1, <3>2, <3>3 DEF OwnGoal, OnDuring, Inside
    <3> QED
      BY <1>0, <2>2, <2>4, <3>2, <3>3 DEF Decided, Found
  <2>6. OnDuring(g)'
    BY <2>1, <2>2, <2>3 DEF OnDuring, Inside
  <2>7. OffAfter(g)'
    BY <1>0, <1>4, <2>1, <2>2, <2>3, <2>4, <2>5 DEF OffAfter, AllIdle, Inside
  <2> QED
    BY <1>0, <1>2, <2>6, <2>7 DEF OwnGoal, Alone, Active, Sent, OffBefore, Answers, Looping
<1> QED
  BY <1>5, <1>6 DEF Decides

\* finish_event is set with the decision taken and nothing at work any more.
LEMMA OwnSetEvent ==
  ASSUME TypeOK, NEW g \in Active, OwnGoal(g), NEW c \in Callbacks, SetFinishEvent(c)
  PROVE  OwnGoal(g)'
<1>0. g \in Goals /\ UNCHANGED <<node, result, verdicts>>
  BY DEF Active, Sent, SetFinishEvent
<1>1. Moves(c, "idle") /\ loop[c].pc = "set"
  BY WritesMove DEF At
<1>2. Looping(g) /\ loop[c].born = g
  BY <1>1, InsideLoops DEF Inside
<1>3. ~node.run
  BY <1>1, <1>2 DEF OwnGoal, OnDuring
<1>4. Decided(g) /\ \A d \in Callbacks \ {c} : ~Inside(d)
  BY <1>1, <1>2, <1>3, InsideLoops DEF Inside, OwnGoal, OffAfter
<1>5. AllIdle' /\ Decided(g)'
  BY <1>0, <1>1, <1>4 DEF AllIdle, Inside, Moves, Decided, Found
<1>6. task'[g] = IF task[g] = "blocked" THEN "has_box" ELSE task[g]
  BY <1>0 DEF SetFinishEvent, TypeOK, Types
<1>7. Sent' = Sent /\ Active' = Active
  BY TimerActive DEF TimerStep
<1>8. OnDuring(g)'
  BY <1>0, <1>3, <1>5 DEF OnDuring, AllIdle, Inside
<1>9. OffAfter(g)'
  BY <1>0, <1>3, <1>5 DEF OffAfter, AllIdle, Inside
<1> QED
  BY <1>0, <1>2, <1>3, <1>5, <1>6, <1>7, <1>8, <1>9
     DEF OwnGoal, Alone, OffBefore, Answers, Looping

\* So every step of a callback keeps what is said of a goal that stays undisturbed.
LEMMA OwnTimer ==
  ASSUME TypeOK, OwnInv, NEW c \in Callbacks, BeginTimer(c) \/ TimerStep(c)
  PROVE  OwnInv'
<1>1. ASSUME NEW g \in Active' \ disturbed' PROVE OwnGoal(g)'
  <2>1. g \in Active /\ OwnGoal(g)
    BY TimerActive DEF OwnInv
  <2> QED
    BY <1>1, <2>1, OwnBegin, OwnReads, OwnWrites, OwnDecides, OwnSetEvent DEF TimerStep
<1>2. ResultIsOwn'
  <2>1. \A g \in Goals : task'[g] = "done" => task[g] = "done"
    BY TimerActive
  <2> QED
    BY <2>1, TimerActive DEF OwnInv, ResultIsOwn
<1> QED
  BY <1>1, <1>2 DEF OwnInv

\* A goal that nothing disturbs when it is sent finds the loop off and nothing at work.
LEMMA OwnStart ==
  ASSUME TypeOK, OwnInv, NEW h \in Goals, StartGoal(h)
  PROVE  OwnInv'
<1>0. /\ task[h] = "unsent" /\ task'[h] = "counts" /\ \A g \in Goals \ {h} : task'[g] = task[g]
      /\ UNCHANGED <<node, event, loop, result, verdicts>>
  BY DEF StartGoal, TaskGo, TypeOK, Types
<1>1. Sent' = Sent \cup {h} /\ Active' = Active \cup {h} /\ Sent = 1 .. h - 1
  BY <1>0 DEF StartGoal, Sent, Active
<1>2. Sent' = 1 .. h
  BY <1>1 DEF Goals
<1>3. ASSUME NEW g \in Active' \ disturbed' PROVE OwnGoal(g)'
  <2>1. Active = {} /\ ~node.run /\ AllIdle /\ g = h
    BY <1>1, <1>3 DEF StartGoal, AllIdle, Inside, At
  <2>2. Alone(h)'
    BY <1>1, <1>2, <2>1 DEF Alone
  <2> QED
    BY <1>0, <2>1, <2>2 DEF OwnGoal, OffBefore, OnDuring, OffAfter, Answers, Looping, AllIdle, Inside
<1>4. disturbed \subseteq disturbed'
  BY DEF StartGoal
<1> QED
  BY <1>0, <1>3, <1>4 DEF OwnInv, ResultIsOwn

\* The members the task reads are those of its own goal.
LEMMA OwnTask ==
  ASSUME TypeOK, OwnInv, NEW h \in Goals, TaskStep(h)
  PROVE  OwnInv'
<1>0. /\ task \in [Goals -> Stages] /\ node \in Members /\ result \in [Goals -> Results]
      /\ \A g \in Goals \ {h} : task'[g] = task[g] /\ result'[g] = result[g]
      /\ UNCHANGED <<loop, verdicts, disturbed>>
      /\ task[h] \notin {"unsent", "done"} /\ task'[h] # "unsent"
  BY DEF TaskStep, Prepare, ResetCounts, ResetState, ResetPos, SetRun, ClearEvent,
         Wait, ReadHasBox, ReadPose, ReadLabel, TaskGo, TypeOK, Types
<1>1. Sent' = Sent /\ h \in Active /\ Active' \subseteq Active
  BY <1>0 DEF Sent, Active
<1>2. h \notin disturbed => OwnGoal(h) /\ Active = {h}
  BY <1>1 DEF OwnInv, OwnGoal, Alone
<1>3. ASSUME NEW g \in Active' \ disturbed' PROVE OwnGoal(g)'
  <2>1. g = h /\ OwnGoal(h)
    BY <1>0, <1>1, <1>3 DEF OwnInv, OwnGoal, Alone
  <2>2. Alone(h)'
    BY <1>1, <1>3, <2>1 DEF OwnGoal, Alone
  <2>3. CASE Prepare(h) /\ ~SetRun(h)
    <3>1. /\ task[h] \in {"counts", "state", "pos"} /\ task'[h] \in {"state", "pos", "run"}
          /\ task[h] = "counts" => task'[h] = "state"
          /\ node'.run = node.run
          /\ task'[h] \in {"pos", "run"} => node'.state = "approach"
      BY <1>0, <2>1, <2>3 DEF Prepare, ResetCounts, ResetState, ResetPos, TaskGo, Members,
                              OwnGoal, OffBefore
    <3> QED
      BY <1>0, <2>1, <2>2, <3>1 DEF OwnGoal, OffBefore, OnDuring, OffAfter, Answers, Looping,
                                    AllIdle, Inside
  <2>4. CASE SetRun(h)
    <3>1. /\ task[h] = "run" /\ task'[h] = "clear" /\ node'.run /\ node'.state = node.state
          /\ event' = event
      BY <1>0, <2>4 DEF SetRun, Prepare, TaskStep, ClearEvent, Wait, ReadHasBox, ReadPose,
                        ReadLabel, TaskGo, Members
    <3>2. AllIdle /\ node.state = "approach"
      BY <2>1, <3>1 DEF OwnGoal, OffBefore
    <3> QED
      BY <1>0, <2>1, <2>2, <3>1, <3>2 DEF OwnGoal, OffBefore, OnDuring, OffAfter, Answers, Looping,
                                          AllIdle, Inside
  <2>5. CASE ClearEvent(h)
    <3>1. task[h] = "clear" /\ task'[h] = "wait" /\ node' = node /\ ~event'
      BY <1>0, <2>5 DEF ClearEvent, TaskGo
    <3> QED
      BY <1>0, <2>1, <2>2, <3>1 DEF OwnGoal, OffBefore, OnDuring, OffAfter, Answers, Looping,
                                    AllIdle, Inside, Decided, Found
  <2>6. CASE Wait(h)
    <3>1. /\ task[h] = "wait" /\ task'[h] = IF event THEN "has_box" ELSE "blocked"
          /\ UNCHANGED <<node, event>>
      BY <1>0, <2>6 DEF Wait, TaskGo
    <3>2. event => ~node.run /\ AllIdle /\ Decided(h)
      BY <2>1, <3>1 DEF OwnGoal, OffAfter, Looping
    <3> QED
      BY <1>0, <2>1, <2>2, <3>1, <3>2 DEF OwnGoal, OffBefore, OnDuring, OffAfter, Answers, Looping,
                                          AllIdle, Inside, Decided, Found
  <2>7. CASE ReadHasBox(h) \/ ReadPose(h)
    <3>1. /\ task[h] \in {"has_box", "pose"} /\ UNCHANGED <<node, event>>
          /\ \/ task'[h] = "pose" /\ node.has_box = "yes"
             \/ task[h] = "pose" /\ task'[h] = "label" /\ result'[h].turned = node.turned
      <4>1. task'[h] # "done" /\ result[h] \in Results
        BY <1>0, <1>3, <2>1 DEF Active
      <4>2. CASE ReadHasBox(h)
        BY <1>0, <4>1, <4>2 DEF ReadHasBox, TaskGo
      <4>3. CASE ReadPose(h)
        BY <1>0, <4>1, <4>3 DEF ReadPose, TaskGo, Results
      <4> QED
        BY <2>7, <4>2, <4>3
    <3>2. ~node.run /\ AllIdle /\ Decided(h) /\ (task[h] = "pose" => node.has_box = "yes")
      BY <2>1, <3>1 DEF OwnGoal, Answers
    <3>3. node.has_box = "yes" => node.turned
      BY <3>2 DEF Decided
    <3> QED
      BY <1>0, <2>1, <2>2, <3>1, <3>2, <3>3 DEF OwnGoal, OffBefore, OnDuring, OffAfter, Answers,
                                                Looping, AllIdle, Inside, Decided, Found
  <2>8. CASE ReadLabel(h)
    BY <1>0, <1>3, <2>1, <2>8 DEF ReadLabel, TaskGo, Active
  <2> QED
    BY <2>1, <2>3, <2>4, <2>5, <2>6, <2>7, <2>8 DEF TaskStep
<1>4. ASSUME h \notin disturbed, task'[h] = "done"
      PROVE  /\ result'[h].label \in verdicts[h]
             /\ result'[h].label # "none" => result'[h].turned
  <2>1. CASE ReadHasBox(h)
    <3>1. /\ task[h] = "has_box" /\ node.has_box # "yes"
          /\ node.has_box = "no" => result'[h].label = "none"
      BY <1>0, <1>4, <2>1 DEF ReadHasBox, TaskGo, Results
    <3>2. node.has_box = "no" /\ "none" \in verdicts[h]
      BY <1>2, <1>4, <3>1 DEF OwnGoal, Answers, Decided, Found
    <3> QED
      BY <3>1, <3>2
  <2>2. CASE ReadLabel(h)
    <3>1. task[h] = "label"
      BY <2>2 DEF ReadLabel, TaskGo
    <3>2. result[h].turned /\ node.has_box = "yes" /\ Found(h)
      BY <1>2, <1>4, <3>1 DEF OwnGoal, Answers, Decided
    <3>3. node.label # "unset"
      BY <3>2, LabelAssumption DEF Found, TypeOK, Types
    <3>4. result'[h].label = node.label /\ result'[h].turned = result[h].turned
      BY <1>0, <2>2, <3>3 DEF ReadLabel, Results
    <3> QED
      BY <3>2, <3>4 DEF Found
  <2>3. CASE ~ReadHasBox(h) /\ ~ReadLabel(h)
    BY <1>0, <1>4, <2>3 DEF TaskStep, Prepare, ResetCounts, ResetState, ResetPos, SetRun,
                            ClearEvent, Wait, ReadPose, TaskGo
  <2> QED
    BY <2>1, <2>2, <2>3
<1>5. ResultIsOwn'
  BY <1>0, <1>4 DEF OwnInv, ResultIsOwn
<1> QED
  BY <1>3, <1>5 DEF OwnInv

\* The result of an undisturbed goal is what the control loop decided on during that
\* goal, with a pose turned to the object: for every number of callbacks and goals.
THEOREM ResultIsOwnAlways == Spec => []ResultIsOwn
<1>1. Init => OwnInv
  BY DEF Init, OwnInv, ResultIsOwn, Active, Sent
<1>2. TypeOK /\ OwnInv /\ [Next]_vars => OwnInv'
  <2>1. ASSUME OwnInv, UNCHANGED vars PROVE OwnInv'
    BY <2>1 DEF vars, goalVars, OwnInv, OwnGoal, ResultIsOwn, Active, Sent, Alone, OffBefore,
                OnDuring, OffAfter, Answers, Looping, AllIdle, Inside, Decided, Found
  <2> QED
    BY <2>1, OwnTimer, OwnStart, OwnTask DEF Next
<1>3. OwnInv => ResultIsOwn
  BY DEF OwnInv
<1> QED
  BY <1>1, <1>2, <1>3, TypedInit, TypedStep, PTL DEF Spec
=============================================================================
