----------------------------- MODULE PosePipeline -----------------------------
(***************************************************************************)
(* The poses on their way to the arm: published by the tree's topic leaf,  *)
(* by the threads of move.cpp and by the timer callbacks of approach.py,   *)
(* turned into angles by ik.cpp and written to the serial port by          *)
(* gateway.cpp.                                                            *)
(*                                                                         *)
(* A pose is the number of the goal it serves and a place: the places of   *)
(* Reach have angles, the other ones are too far or too near.  Angles are  *)
(* named by the pose they belong to.  Orientation, gripper and numbers are *)
(* left out; so is the speed of the belt, which shares the serial line     *)
(* (ConveyorServer).  A speed is never 0, so that every move ends.         *)
(***************************************************************************)
EXTENDS Integers, Sequences, FiniteSets

CONSTANTS
  Size,         \* the places are 0 .. Size, along a line
  Reach,        \* the places ik.cpp has angles for
  Depth,        \* KEEP_LAST depth of the publishers and of angle_data
  MaxGoals,     \* bound: how many goals are ever sent
  MaxCallbacks  \* bound: timer callbacks of approach.py that run together

ASSUME ReachAssumption == Size \in Nat /\ 0 \in Reach /\ Reach \subseteq 0 .. Size
ASSUME DepthAssumption == Depth \in Nat \ {0}
ASSUME BoundAssumption == MaxGoals \in Nat /\ MaxCallbacks \in Nat \ {0}

Places    == 0 .. Size
Home      == 0             \* (210, 40, 40)
Undefined == -1            \* the place of a pose with NaN in it
Pose      == [n : 0 .. MaxGoals, at : Places \cup {Undefined}]
Writers   == {"tree", "move", "approach"}

\* A thread of move.cpp: the places still ahead of it, up to its goal.
Thread == [n : 1 .. MaxGoals, ahead : SUBSET Places, to : Places, first : BOOLEAN]

VARIABLES
  client,     \* the action the tree waits for; "boot" before the topic leaf
  goals,      \* how many goals the tree has sent
  threads,    \* the threads of move.cpp
  pos_data,   \* the member of approach.py
  callbacks,  \* how many callbacks are about to publish pos_data
  sent,       \* pose_data on its way, per publisher
  inbox,      \* pose_data at ik_node: QoS(1)
  angle_data, \* the topic between ik_node and gateway_node
  angles,     \* the member of gateway_node
  gateway,    \* whether gateway_node spins or has died
  arm,        \* the angles last written to the serial port
  arrived,    \* history: the pose ik_node received last
  final,      \* history: the last pose of the move sent last
  unordered   \* history: poses may have got out of the order of the goals

vars == <<client, goals, threads, pos_data, callbacks, sent, inbox, angle_data,
          angles, gateway, arm, arrived, final, unordered>>

TypeOK ==
  /\ client \in {"boot", "idle", "move", "approach"}
  /\ goals \in 0 .. MaxGoals
  /\ threads \subseteq Thread /\ \A t \in threads : t.to \in t.ahead
  /\ pos_data \in Pose
  /\ callbacks \in 0 .. MaxCallbacks
  /\ sent \in [Writers -> Seq(Pose)] /\ \A w \in Writers : Len(sent[w]) <= Depth
  /\ inbox \in Seq(Pose) /\ Len(inbox) <= 1
  /\ angle_data \in Seq(Pose) /\ Len(angle_data) <= Depth
  /\ {angles, arm, arrived, final} \subseteq Pose
  /\ gateway \in {"spinning", "dead"}
  /\ unordered \in BOOLEAN

\* The angles the gateway starts with belong to no place.
Start == [n |-> 0, at |-> Undefined]

Init ==
  /\ client = "boot" /\ goals = 0 /\ threads = {}
  /\ pos_data = Start /\ callbacks = 0
  /\ sent = [w \in Writers |-> <<>>] /\ inbox = <<>>
  /\ angle_data = <<>> /\ angles = Start /\ gateway = "spinning"
  /\ arm = Start /\ arrived = Start /\ final = Start
  /\ unordered = FALSE

-----------------------------------------------------------------------------
(* The middleware: reliable, in order per publisher, the newest kept       *)

\* Mutant: a full queue turns the newest away.
PushDropsNewest(q, e) == IF Len(q) < Depth THEN Append(q, e) ELSE q

Push(q, e) == IF Len(q) < Depth THEN Append(q, e) ELSE Append(Tail(q), e)

\* While a pose of another publisher is on its way, this one may overtake it.
Crossed(w) == \E v \in Writers \ {w} : sent[v] # <<>>

Publish(w, p) ==
  /\ sent' = [sent EXCEPT ![w] = Push(@, p)]
  /\ unordered' = (unordered \/ Crossed(w) \/ (w = "approach" /\ p.n < goals))

\* The only place of QoS(1) is overwritten.
Arrive(w) ==
  /\ sent[w] # <<>>
  /\ sent' = [sent EXCEPT ![w] = Tail(@)]
  /\ inbox' = <<Head(sent[w])>>
  /\ arrived' = Head(sent[w])
  /\ UNCHANGED <<client, goals, threads, pos_data, callbacks, angle_data, angles,
                 gateway, arm, final, unordered>>

pipeline == <<inbox, angle_data, angles, gateway, arm, arrived>>

-----------------------------------------------------------------------------
(* The tree: one action at a time                                          *)

\* RosTopicPubNode::tick, the initial pose of main3.xml.
Boot ==
  /\ client = "boot"
  /\ client' = "idle"
  /\ Publish("tree", [n |-> 0, at |-> Home])
  /\ UNCHANGED <<goals, threads, pos_data, callbacks, final, pipeline>>

\* The places from one to another, both included.
Between(a, b) == IF a <= b THEN a .. b ELSE b .. a

\* handle_accepted
SendMove ==
  /\ client = "idle" /\ goals < MaxGoals
  /\ client' = "move" /\ goals' = goals + 1
  /\ \E a, b \in Places :
       /\ threads' = threads \cup
            {[n |-> goals', ahead |-> Between(a, b), to |-> b, first |-> TRUE]}
       /\ final' = [n |-> goals', at |-> b]
  /\ UNCHANGED <<pos_data, callbacks, sent, unordered, pipeline>>

\* execute_callback up to its wait()
SendApproach ==
  /\ client = "idle" /\ goals < MaxGoals
  /\ client' = "approach" /\ goals' = goals + 1
  /\ pos_data' = [n |-> goals', at |-> Home]
  /\ UNCHANGED <<threads, callbacks, sent, final, unordered, pipeline>>

\* A leaf that times out waiting for the answer leaves the goal to itself.
GiveUp ==
  /\ client = "move"
  /\ client' = "idle"
  /\ unordered' = TRUE
  /\ UNCHANGED <<goals, threads, pos_data, callbacks, sent, final, pipeline>>

-----------------------------------------------------------------------------
(* move.cpp: the loop of execute()                                         *)

\* Mutant: the goal succeeds before its pose is published.
GoesSucceedsEarly(t, x) ==
  LET rest == {y \in t.ahead : (x <= y /\ y <= t.to) \/ (t.to <= y /\ y <= x)} \ {x} IN
  /\ threads' = (threads \ {t}) \cup
       (IF x = t.to THEN {} ELSE {[t EXCEPT !.ahead = rest, !.first = FALSE]})
  /\ client' = IF rest \subseteq {t.to} /\ client = "move" /\ t.n = goals THEN "idle" ELSE client

\* The thread goes on after it has published x; the goal's pose is the last one,
\* after which the goal succeeds.
Goes(t, x) ==
  LET rest == {y \in t.ahead : (x <= y /\ y <= t.to) \/ (t.to <= y /\ y <= x)} \ {x} IN
  /\ threads' = (threads \ {t}) \cup
       (IF x = t.to THEN {} ELSE {[t EXCEPT !.ahead = rest, !.first = FALSE]})
  /\ client' = IF x = t.to /\ client = "move" /\ t.n = goals THEN "idle" ELSE client

\* Mutant: the loop is left before the goal's pose is published.
IterateBreaksFirst(t) ==
  \E x \in t.ahead :
    /\ Goes(t, x)
    /\ IF x = t.to THEN UNCHANGED <<sent, unordered>>
       ELSE Publish("move", [n |-> t.n, at |-> x])

\* Mutant: t is not clamped, and the loop not left.
IterateNeverBreaks(t) ==
  \E x \in t.ahead :
    /\ Publish("move", [n |-> t.n, at |-> x])
    /\ threads' = (threads \ {t}) \cup {[t EXCEPT !.ahead = @ \ {x}, !.first = FALSE]}
    /\ UNCHANGED client

\* One round of the loop, at some later point of the line.
Iterate(t) ==
  \E x \in t.ahead :
    /\ Goes(t, x)
    /\ Publish("move", [n |-> t.n, at |-> x])

\* No distance, and the clock has not advanced yet: t is 0 / 0.
IterateNaN(t) ==
  /\ t.first /\ t.ahead = {t.to}
  /\ threads' = (threads \ {t}) \cup {[t EXCEPT !.first = FALSE]}
  /\ Publish("move", [n |-> t.n, at |-> Undefined])
  /\ UNCHANGED client

MoveStep ==
  \E t \in threads :
    /\ Iterate(t) \/ IterateNaN(t)
    /\ UNCHANGED <<goals, pos_data, callbacks, final, pipeline>>

-----------------------------------------------------------------------------
(* approach.py: the timer callbacks                                        *)

\* The controller moves pos_data, wherever the object is; the callback that finds the
\* target reached returns without publishing.
Control ==
  /\ client = "approach" /\ callbacks < MaxCallbacks
  /\ \E x \in Places : pos_data' = [pos_data EXCEPT !.at = x]
  /\ callbacks' \in {callbacks, callbacks + 1}
  /\ UNCHANGED <<client, goals, threads, sent, final, unordered, pipeline>>

\* finish_event.set(), after which the callback that has found the object still
\* publishes; the one that has lost it does not.
Finish ==
  /\ client = "approach"
  /\ client' = "idle"
  /\ callbacks' \in {callbacks, callbacks + 1} /\ callbacks' <= MaxCallbacks
  /\ UNCHANGED <<goals, threads, pos_data, sent, final, unordered, pipeline>>

\* pub.publish(self.pos_data), whatever it is by now
PublishPos ==
  /\ callbacks > 0
  /\ callbacks' = callbacks - 1
  /\ Publish("approach", pos_data)
  /\ UNCHANGED <<client, goals, threads, pos_data, final, pipeline>>

-----------------------------------------------------------------------------
(* ik.cpp and gateway.cpp                                                  *)

\* Out of reach is out of reach; NaN passes both comparisons.
Passes(p) == p.at \in Reach \cup {Undefined}

pose_callback ==
  /\ inbox # <<>>
  /\ inbox' = <<>>
  /\ angle_data' = IF Passes(inbox[1]) THEN Push(angle_data, inbox[1]) ELSE angle_data
  /\ UNCHANGED <<client, goals, threads, pos_data, callbacks, sent, angles, gateway,
                 arm, arrived, final, unordered>>

angles_callback ==
  /\ gateway = "spinning" /\ angle_data # <<>>
  /\ angles' = Head(angle_data)
  /\ angle_data' = Tail(angle_data)
  /\ UNCHANGED <<client, goals, threads, pos_data, callbacks, sent, inbox, gateway,
                 arm, arrived, final, unordered>>

\* The angles are written.  If a line of the sensor is there it is read, and stof
\* throws when it holds no number.
timer_callback ==
  /\ gateway = "spinning"
  /\ arm' = angles
  /\ gateway' \in {"spinning", "dead"}
  /\ UNCHANGED <<client, goals, threads, pos_data, callbacks, sent, inbox, angle_data,
                 angles, arrived, final, unordered>>

-----------------------------------------------------------------------------
Tree     == Boot \/ SendMove \/ SendApproach \/ GiveUp
Approach == Control \/ Finish \/ PublishPos
Gateway  == angles_callback \/ timer_callback

Next == \/ Tree \/ MoveStep \/ Approach
        \/ \E w \in Writers : Arrive(w)
        \/ pose_callback \/ Gateway

Spec == Init /\ [][Next]_vars

\* Every node goes on; the tree may stop sending, a finished loop is left in time.
\* The gateway's executor serves the topic and the timer in turn, and need not die.
Fairness ==
  /\ WF_vars(MoveStep) /\ WF_vars(Finish) /\ WF_vars(PublishPos)
  /\ \A w \in Writers : WF_vars(Arrive(w))
  /\ WF_vars(pose_callback)
  /\ WF_vars(angles_callback) /\ WF_vars(timer_callback /\ UNCHANGED gateway)

FairSpec == Spec /\ Fairness

-----------------------------------------------------------------------------
(* Properties                                                              *)

\* When nothing is on its way through ik.cpp and gateway.cpp, the gateway holds the
\* angles of the pose that came last, unless that one is out of reach.
Settled ==
  inbox = <<>> /\ angle_data = <<>> /\ Passes(arrived) => angles = arrived

\* The arm goes back to a pose of an earlier goal only if a leaf has given a goal up,
\* a callback has published after its goal, or poses of two publishers have crossed.
BackNeedsCause == [][arm'.n < arm.n => unordered]_vars

\* After the last move the arm comes to rest at the move's goal, whatever was dropped,
\* overwritten or not a number on the way, if that goal is within reach, the gateway
\* lives and nothing was out of order.
MoveArrives ==
  <>[](/\ client = "idle" /\ final.n = goals /\ final.at \in Reach
       /\ gateway # "dead" /\ ~unordered
       => arm = final)
=============================================================================
