---------------------------- MODULE ConveyorServer ----------------------------
(***************************************************************************)
(* The conveyor: the goals of conveyor.cpp, each in a detached thread, the *)
(* belt speed and the sensor on their way through gateway.cpp and the      *)
(* serial line, and the belt itself.                                       *)
(*                                                                         *)
(* A speed is "on" (1000) or "off" (0), a reading "near" (below 18) or     *)
(* "far".  readline gets whole lines; the angles that share the serial     *)
(* line are left out.  What is behind the serial line (the belt, the       *)
(* sensor, the object) is outside the repository.                          *)
(***************************************************************************)
EXTENDS Naturals, Sequences, FiniteSets

CONSTANTS
  MaxGoals,   \* bound: how many goals are ever sent
  Depth,      \* KEEP_LAST depth of the topics rpm_data and sensor_data
  MaxLines    \* bound: how many readings wait in the serial port

ASSUME BoundAssumption == /\ MaxGoals \in Nat
                          /\ Depth \in Nat \ {0}
                          /\ MaxLines \in Nat

Goals    == 1 .. MaxGoals
Speeds   == {"on", "off"}
Readings == {"near", "far"}

VARIABLES
  ok,             \* rclcpp::ok() in the conveyor's process
  exec,           \* where execute() of each goal is
  sensor_data,    \* the member of ConveyorActionServer
  rpm_data, sensor_topic,   \* the two topics
  rpm,            \* the member of gateway_node
  serial,         \* readings in the serial port's input
  belt,           \* the speed last written to the serial port
  object,         \* what the sensor sees now
  fresh,          \* history: goals that began with no object and no reading of one
  carried,        \* history: goals during which the belt brought an object
  together        \* history: goals that were executed together with another

topics == <<rpm_data, sensor_topic>>
plant  == <<serial, belt, object>>
hist   == <<fresh, carried, together>>
vars   == <<ok, exec, sensor_data, topics, rpm, plant, hist>>

TypeOK ==
  /\ ok \in BOOLEAN
  /\ exec \in [Goals -> {"unsent", "start", "loop", "stop", "succeed", "done"}]
  /\ {sensor_data, object} \subseteq Readings
  /\ {rpm, belt} \subseteq Speeds
  /\ rpm_data \in Seq(Speeds) /\ Len(rpm_data) <= Depth
  /\ sensor_topic \in Seq(Readings) /\ Len(sensor_topic) <= Depth
  /\ serial \in Seq(Readings) /\ Len(serial) <= MaxLines
  /\ fresh \subseteq Goals /\ carried \subseteq Goals /\ together \subseteq Goals

\* sensor_data is not initialised.
Init ==
  /\ ok = TRUE
  /\ exec = [g \in Goals |-> "unsent"]
  /\ sensor_data \in Readings
  /\ rpm_data = <<>> /\ sensor_topic = <<>>
  /\ rpm = "off" /\ belt = "off" /\ serial = <<>>
  /\ object = "far"
  /\ fresh = {} /\ carried = {} /\ together = {}

-----------------------------------------------------------------------------
(* conveyor.cpp                                                            *)

Executing == {g \in Goals : exec[g] \notin {"unsent", "done"}}

\* Mutant: a message is lost when the topic is full.
KeepFirst(q, m) == IF Len(q) < Depth THEN Append(q, m) ELSE q

KeepLast(q, m) == Append(IF Len(q) < Depth THEN q ELSE Tail(q), m)

\* Nothing is published any more once rclcpp is shut down.
PublishRpm(m) == rpm_data' = IF ok THEN KeepLast(rpm_data, m) ELSE rpm_data

ExecGo(g, p, q) == exec[g] = p /\ exec' = [exec EXCEPT ![g] = q]

\* No reading of an object is stored or under way.
NothingNear == "near" \notin {sensor_data, object}
                 \cup {sensor_topic[i] : i \in DOMAIN sensor_topic}
                 \cup {serial[i] : i \in DOMAIN serial}

\* handle_accepted: every goal gets a thread of its own.
StartGoal(g) ==
  /\ ok /\ \A h \in Goals : h < g => exec[h] # "unsent"
  /\ ExecGo(g, "unsent", "start")
  /\ fresh' = IF NothingNear THEN fresh \cup {g} ELSE fresh
  /\ together' = IF Executing # {} THEN together \cup Executing \cup {g} ELSE together
  /\ UNCHANGED <<ok, sensor_data, topics, rpm, plant, carried>>

StartBelt(g) ==
  /\ ExecGo(g, "start", "loop")
  /\ PublishRpm("on")

\* Mutant: the comparison of the reading is turned round.
EndLoopFar(g) ==
  /\ sensor_data = "far" \/ ~ok
  /\ ExecGo(g, "loop", "stop")
  /\ UNCHANGED rpm_data

\* The loop reads sensor_data while the callback may be writing it.
EndLoop(g) ==
  /\ sensor_data = "near" \/ ~ok
  /\ ExecGo(g, "loop", "stop")
  /\ UNCHANGED rpm_data

\* Mutant: the belt is left running.
StopBeltNot(g) ==
  /\ ExecGo(g, "stop", "succeed")
  /\ UNCHANGED rpm_data

StopBelt(g) ==
  /\ ExecGo(g, "stop", "succeed")
  /\ PublishRpm("off")

Succeed(g) ==
  /\ ExecGo(g, "succeed", "done")
  /\ UNCHANGED rpm_data

Execute(g) ==
  /\ StartBelt(g) \/ EndLoop(g) \/ StopBelt(g) \/ Succeed(g)
  /\ UNCHANGED <<ok, sensor_data, sensor_topic, rpm, plant, hist>>

SensorCallback ==
  /\ ok /\ sensor_topic # <<>>
  /\ sensor_data' = Head(sensor_topic)
  /\ sensor_topic' = Tail(sensor_topic)
  /\ UNCHANGED <<ok, exec, rpm_data, rpm, plant, hist>>

Shutdown ==
  /\ ok /\ ok' = FALSE
  /\ UNCHANGED <<exec, sensor_data, topics, rpm, plant, hist>>

-----------------------------------------------------------------------------
(* gateway.cpp: one thread for its callbacks.                              *)

RpmCallback ==
  /\ rpm_data # <<>>
  /\ rpm' = Head(rpm_data)
  /\ rpm_data' = Tail(rpm_data)
  /\ UNCHANGED <<ok, exec, sensor_data, sensor_topic, plant, hist>>

\* Mutant: the timer does not write while there is something to read.
TimerCallbackEither ==
  /\ IF serial = <<>> THEN belt' = rpm /\ UNCHANGED <<serial, sensor_topic>>
     ELSE /\ sensor_topic' = KeepLast(sensor_topic, Head(serial))
          /\ serial' = Tail(serial)
          /\ UNCHANGED belt
  /\ UNCHANGED <<ok, exec, sensor_data, rpm_data, rpm, object, hist>>

\* Every 30 ms the speed is written and one line, if there is one, is read.
TimerCallback ==
  /\ belt' = rpm
  /\ IF serial = <<>> THEN UNCHANGED <<serial, sensor_topic>>
     ELSE /\ sensor_topic' = KeepLast(sensor_topic, Head(serial))
          /\ serial' = Tail(serial)
  /\ UNCHANGED <<ok, exec, sensor_data, rpm_data, rpm, object, hist>>

-----------------------------------------------------------------------------
(* Behind the serial line.                                                 *)

SendReading ==
  /\ Len(serial) < MaxLines
  /\ serial' = Append(serial, object)
  /\ UNCHANGED <<ok, exec, sensor_data, topics, rpm, belt, object, hist>>

\* The running belt brings an object to the sensor, or carries it past.
Carry ==
  /\ belt = "on"
  /\ object' \in Readings \ {object}
  /\ carried' = IF object' = "near" THEN carried \cup Executing ELSE carried
  /\ UNCHANGED <<ok, exec, sensor_data, topics, rpm, serial, belt, fresh, together>>

\* The robot picks the object.
Pick ==
  /\ object = "near" /\ Executing = {}
  /\ object' = "far"
  /\ UNCHANGED <<ok, exec, sensor_data, topics, rpm, serial, belt, hist>>

-----------------------------------------------------------------------------
Next == \/ \E g \in Goals : StartGoal(g) \/ Execute(g)
        \/ SensorCallback \/ Shutdown \/ RpmCallback \/ TimerCallback
        \/ SendReading \/ Carry \/ Pick

Spec == Init /\ [][Next]_vars

\* Threads, executors and timers go on.  Objects keep coming, and one stays at
\* the sensor long enough, compared with the periods of the sensor, the gateway
\* and the busy loop, for a reading of it to get through now and then.
Fairness ==
  /\ \A g \in Goals : WF_vars(Execute(g)) /\ SF_vars(sensor_data = "near" /\ Execute(g))
  /\ WF_vars(SensorCallback) /\ WF_vars(RpmCallback) /\ WF_vars(TimerCallback)
  /\ SF_vars(sensor_topic # <<>> /\ Head(sensor_topic) = "near" /\ SensorCallback)
  /\ SF_vars(object = "near" /\ TimerCallback)
  /\ SF_vars(object = "near" /\ SendReading)
  /\ WF_vars(Carry)

FairSpec == Spec /\ Fairness

-----------------------------------------------------------------------------
(* Properties                                                              *)

\* Once every goal is done and every speed delivered, the gateway writes speed 0,
\* however many goals were executed together, unless the server was shut down.
BeltStops ==
  ok /\ Executing = {} /\ rpm_data = <<>> => rpm = "off"

\* While a goal waits for an object the gateway has been told, or is about to be
\* told, to run the belt, unless another goal was executed together with it: then
\* the other one's 0 may stop the belt it waits for.
BeltRunsForGoal ==
  ok => \A g \in Goals \ together :
          exec[g] = "loop" => (IF rpm_data = <<>> THEN rpm ELSE rpm_data[Len(rpm_data)]) = "on"

\* A goal that began with nothing at the sensor, and no reading of an object
\* stored or under way, ends only after the belt has brought an object.
EndsWithObject ==
  ok => \A g \in fresh : exec[g] \in {"stop", "succeed", "done"} => g \in carried

\* A goal that is executed alone ends, or the server is shut down.
GoalEnds ==
  \A g \in Goals : exec[g] = "start" ~> exec[g] = "done" \/ g \in together
=============================================================================
