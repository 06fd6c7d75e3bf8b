------------------------- MODULE ConveyorServerProofs -------------------------
(***************************************************************************)
(* What holds of the conveyor for every number of goals, depth of the      *)
(* topics and length of the serial port's input.                           *)
(***************************************************************************)
EXTENDS ConveyorServer, TLAPS

\* A topic takes the new message as its last one, and keeps its depth.
LEMMA KeepLastTakes ==
  ASSUME NEW S, NEW q \in Seq(S), Len(q) <= Depth, NEW m \in S
  PROVE  /\ KeepLast(q, m) \in Seq(S)
         /\ Len(KeepLast(q, m)) \in 1 .. Depth
         /\ KeepLast(q, m)[Len(KeepLast(q, m))] = m
         /\ KeepLast(q, m) # <<>>
         /\ \A i \in DOMAIN KeepLast(q, m) :
              KeepLast(q, m)[i] = m \/ \E j \in DOMAIN q : KeepLast(q, m)[i] = q[j]
<1> USE BoundAssumption
<1> DEFINE k == KeepLast(q, m)
<1>1. CASE Len(q) < Depth
  <2>1. k = Append(q, m)
    BY <1>1 DEF KeepLast
  <2>2. k \in Seq(S) /\ Len(k) = Len(q) + 1 /\ k[Len(q) + 1] = m /\ k # <<>>
    BY <2>1
  <2>3. \A i \in 1 .. Len(q) : k[i] = q[i]
    BY <2>1
  <2>4. DOMAIN k = 1 .. Len(q) + 1 /\ DOMAIN q = 1 .. Len(q)
    BY <2>2
  <2>5. \A i \in DOMAIN k : i = Len(q) + 1 \/ i \in DOMAIN q
    BY <2>4
  <2>6. \A i \in DOMAIN k : k[i] = m \/ \E j \in DOMAIN q : k[i] = q[j]
    BY <2>2, <2>3, <2>4, <2>5
  <2>7. Len(k) \in 1 .. Depth
    BY <1>1, <2>2
  <2> QED
    BY <2>2, <2>6, <2>7
<1>2. CASE Len(q) = Depth
  <2>1. Tail(q) \in Seq(S) /\ Len(Tail(q)) = Depth - 1
    BY <1>2
  <2>2. \A i \in 1 .. Depth - 1 : Tail(q)[i] = q[i + 1]
    BY <1>2
  <2> QED
    BY <1>2, <2>1, <2>2 DEF KeepLast
<1> QED
  BY <1>1, <1>2

\* What is left of a queue whose first message is taken.
LEMMA TailKeeps ==
  ASSUME NEW S, NEW q \in Seq(S), q # <<>>
  PROVE  /\ Head(q) \in S /\ Head(q) = q[1] /\ 1 \in DOMAIN q
         /\ Tail(q) \in Seq(S) /\ Len(Tail(q)) = Len(q) - 1
         /\ Tail(q) = <<>> => Len(q) = 1
         /\ Tail(q) # <<>> => Tail(q)[Len(Tail(q))] = q[Len(q)]
         /\ \A i \in DOMAIN Tail(q) : \E j \in DOMAIN q : Tail(q)[i] = q[j]
<1>1. \A i \in 1 .. Len(q) - 1 : Tail(q)[i] = q[i + 1]
  OBVIOUS
<1>2. Tail(q) \in Seq(S) /\ Len(Tail(q)) = Len(q) - 1 /\ Len(q) \in Nat \ {0}
  OBVIOUS
<1>3. \A i \in DOMAIN Tail(q) : \E j \in DOMAIN q : Tail(q)[i] = q[j]
  BY <1>1, <1>2
<1>4. Head(q) \in S /\ Head(q) = q[1] /\ 1 \in DOMAIN q
  OBVIOUS
<1>5. Tail(q) = <<>> => Len(q) = 1
  <2>1. \A t \in Seq(S) : t = <<>> => Len(t) = 0
    OBVIOUS
  <2> QED
    BY <1>2, <2>1
<1>6. ASSUME Tail(q) # <<>> PROVE Tail(q)[Len(Tail(q))] = q[Len(q)]
  <2>1. Len(q) - 1 \in 1 .. Len(q) - 1
    BY <1>2, <1>6
  <2> QED
    BY <1>1, <1>2, <2>1
<1> QED
  BY <1>2, <1>3, <1>4, <1>5, <1>6

-----------------------------------------------------------------------------
(* Types                                                                   *)

\* Every reachable state is well typed: in particular no queue outgrows its depth.
THEOREM TypeCorrect == Spec => []TypeOK
<1> USE DEF Speeds, Readings
<1>1. Init => TypeOK
  BY BoundAssumption DEF Init, TypeOK
<1>2. TypeOK /\ [Next]_vars => TypeOK'
  <2> SUFFICES ASSUME TypeOK, [Next]_vars PROVE TypeOK'
    OBVIOUS
  <2>1. ASSUME NEW g \in Goals, StartGoal(g) PROVE TypeOK'
    <3>1. fresh' \subseteq Goals
      BY <2>1 DEF TypeOK, StartGoal
    <3>2. together' \subseteq Goals
      BY <2>1 DEF TypeOK, StartGoal, Executing
    <3> QED
      BY <2>1, <3>1, <3>2 DEF TypeOK, StartGoal, ExecGo, topics, plant
  <2>2. ASSUME NEW g \in Goals, Execute(g) PROVE TypeOK'
    <3>1. exec' \in [Goals -> {"unsent", "start", "loop", "stop", "succeed", "done"}]
      BY <2>2 DEF TypeOK, Execute, StartBelt, EndLoop, StopBelt, Succeed, ExecGo
    <3>2. \A m \in Speeds : KeepLast(rpm_data, m) \in Seq(Speeds) /\ Len(KeepLast(rpm_data, m)) <= Depth
      <4> SUFFICES ASSUME NEW m \in Speeds
                   PROVE  KeepLast(rpm_data, m) \in Seq(Speeds) /\ Len(KeepLast(rpm_data, m)) <= Depth
        OBVIOUS
      <4>1. rpm_data \in Seq(Speeds) /\ Len(rpm_data) <= Depth
        BY DEF TypeOK
      <4>2. KeepLast(rpm_data, m) \in Seq(Speeds) /\ Len(KeepLast(rpm_data, m)) \in 1 .. Depth
        BY <4>1, KeepLastTakes
      <4> QED
        BY <4>2, BoundAssumption
    <3>3. rpm_data' \in Seq(Speeds) /\ Len(rpm_data') <= Depth
      BY <2>2, <3>2 DEF TypeOK, Execute, StartBelt, EndLoop, StopBelt, Succeed, PublishRpm
    <3> QED
      BY <2>2, <3>1, <3>3 DEF TypeOK, Execute, plant, hist
  <2>3. CASE SensorCallback
    <3>1. Head(sensor_topic) \in Readings /\ Tail(sensor_topic) \in Seq(Readings)
          /\ Len(Tail(sensor_topic)) <= Depth
      BY <2>3, TailKeeps, BoundAssumption DEF TypeOK, SensorCallback
    <3> QED
      BY <2>3, <3>1 DEF TypeOK, SensorCallback, plant, hist
  <2>4. CASE Shutdown
    BY <2>4 DEF TypeOK, Shutdown, topics, plant, hist
  <2>5. CASE RpmCallback
    <3>1. Head(rpm_data) \in Speeds /\ Tail(rpm_data) \in Seq(Speeds)
          /\ Len(Tail(rpm_data)) <= Depth
      BY <2>5, TailKeeps, BoundAssumption DEF TypeOK, RpmCallback
    <3> QED
      BY <2>5, <3>1 DEF TypeOK, RpmCallback, plant, hist
  <2>6. CASE TimerCallback
    <3>1. CASE serial = <<>>
      BY <2>6, <3>1 DEF TypeOK, TimerCallback, hist
    <3>2. CASE serial # <<>>
      <4>1. /\ Head(serial) \in Readings /\ Tail(serial) \in Seq(Readings)
            /\ Len(Tail(serial)) <= MaxLines
        BY <3>2, TailKeeps, BoundAssumption DEF TypeOK
      <4>2. sensor_topic \in Seq(Readings) /\ Len(sensor_topic) <= Depth
        BY DEF TypeOK
      <4>3. KeepLast(sensor_topic, Head(serial)) \in Seq(Readings)
            /\ Len(KeepLast(sensor_topic, Head(serial))) \in 1 .. Depth
        BY <4>1, <4>2, KeepLastTakes
      <4>4. Len(KeepLast(sensor_topic, Head(serial))) <= Depth
        BY <4>3, BoundAssumption
      <4> QED
        BY <2>6, <3>2, <4>1, <4>3, <4>4 DEF TypeOK, TimerCallback, hist
    <3> QED
      BY <3>1, <3>2
  <2>7. CASE SendReading
    <3>1. Append(serial, object) \in Seq(Readings) /\ Len(Append(serial, object)) <= MaxLines
      BY <2>7, BoundAssumption DEF TypeOK, SendReading
    <3> QED
      BY <2>7, <3>1 DEF TypeOK, SendReading, topics, hist
  <2>8. CASE Carry
    BY <2>8 DEF TypeOK, Carry, topics, Executing
  <2>9. CASE Pick
    BY <2>9 DEF TypeOK, Pick, topics, hist
  <2>10. CASE UNCHANGED vars
    BY <2>10 DEF TypeOK, vars, topics, plant, hist
  <2> QED
    BY <2>1, <2>2, <2>3, <2>4, <2>5, <2>6, <2>7, <2>8, <2>9, <2>10 DEF Next
<1> QED
  BY <1>1, <1>2, PTL DEF Spec

-----------------------------------------------------------------------------
(* The belt                                                                *)

\* The last speed that was published: the gateway has it, or is about to get it.
LastSpeed == IF rpm_data = <<>> THEN rpm ELSE rpm_data[Len(rpm_data)]

\* Publishing replaces the last speed, whatever the topic has to drop for it.
LEMMA PublishSetsLast ==
  ASSUME TypeOK, ok, NEW m \in Speeds, PublishRpm(m)
  PROVE  LastSpeed' = m
<1>1. rpm_data \in Seq(Speeds) /\ Len(rpm_data) <= Depth /\ rpm_data' = KeepLast(rpm_data, m)
  BY DEF TypeOK, PublishRpm
<1>2. rpm_data' # <<>> /\ rpm_data'[Len(rpm_data')] = m
  BY <1>1, KeepLastTakes
<1> QED
  BY <1>2 DEF LastSpeed

\* The gateway's callback takes the first speed and leaves the last one the last.
LEMMA CallbackKeepsLast ==
  ASSUME TypeOK, RpmCallback
  PROVE  LastSpeed' = LastSpeed
<1>1. rpm_data \in Seq(Speeds) /\ rpm_data # <<>>
  BY DEF TypeOK, RpmCallback
<1>2. /\ Head(rpm_data) = rpm_data[1]
      /\ Tail(rpm_data) = <<>> => Len(rpm_data) = 1
      /\ Tail(rpm_data) # <<>> => Tail(rpm_data)[Len(Tail(rpm_data))] = rpm_data[Len(rpm_data)]
  BY <1>1, TailKeeps
<1> QED
  BY <1>1, <1>2 DEF LastSpeed, RpmCallback

\* No other step than those of a goal and of the gateway changes the last speed.
LEMMA OthersKeepLast ==
  ASSUME UNCHANGED <<rpm_data, rpm>>
  PROVE  LastSpeed' = LastSpeed
BY DEF LastSpeed

\* When no goal is between its two speeds, the last one published is 0.
Stopped == ok => ((\A g \in Goals : exec[g] \notin {"loop", "stop"}) => LastSpeed = "off")

\* However many goals were executed together, in whatever order they published
\* and however few speeds the topic keeps, the belt does not run for nobody.
THEOREM BeltStopsAlways == Spec => []BeltStops
<1>1. Init => Stopped
  BY DEF Init, Stopped, LastSpeed
<1>2. TypeOK /\ Stopped /\ [Next]_vars => Stopped'
  <2> SUFFICES ASSUME TypeOK, Stopped, [Next]_vars PROVE Stopped'
    OBVIOUS
  <2>1. ASSUME NEW g \in Goals, StartGoal(g) PROVE Stopped'
    <3>1. \A h \in Goals : exec'[h] \in {"loop", "stop"} <=> exec[h] \in {"loop", "stop"}
      BY <2>1 DEF StartGoal, ExecGo, TypeOK
    <3>2. LastSpeed' = LastSpeed /\ ok' = ok
      BY <2>1, OthersKeepLast DEF StartGoal, topics
    <3> QED
      BY <3>1, <3>2 DEF Stopped
  <2>2. ASSUME NEW g \in Goals, Execute(g) PROVE Stopped'
    <3> SUFFICES ASSUME ok PROVE Stopped'
      BY <2>2 DEF Stopped, Execute
    <3>1. CASE StartBelt(g) \/ EndLoop(g)
      <4>1. exec'[g] \in {"loop", "stop"}
        BY <3>1 DEF StartBelt, EndLoop, ExecGo, TypeOK
      <4> QED
        BY <4>1 DEF Stopped
    <3>2. CASE StopBelt(g)
      <4>1. LastSpeed' = "off"
        BY <3>2, PublishSetsLast DEF StopBelt, Speeds
      <4> QED
        BY <4>1 DEF Stopped
    <3>3. CASE Succeed(g)
      <4>1. \A h \in Goals : exec'[h] \in {"loop", "stop"} <=> exec[h] \in {"loop", "stop"}
        BY <3>3 DEF Succeed, ExecGo, TypeOK
      <4>2. LastSpeed' = LastSpeed /\ ok' = ok
        BY <2>2, <3>3, OthersKeepLast DEF Execute, Succeed
      <4> QED
        BY <4>1, <4>2 DEF Stopped
    <3> QED
      BY <2>2, <3>1, <3>2, <3>3 DEF Execute
  <2>3. CASE RpmCallback
    BY <2>3, CallbackKeepsLast DEF Stopped, RpmCallback
  <2>4. CASE Shutdown
    BY <2>4 DEF Stopped, Shutdown
  <2>5. CASE UNCHANGED <<ok, exec, rpm_data, rpm>>
    BY <2>5, OthersKeepLast DEF Stopped
  <2>6. SensorCallback \/ TimerCallback \/ SendReading \/ Carry \/ Pick \/ UNCHANGED vars
        => UNCHANGED <<ok, exec, rpm_data, rpm>>
    BY DEF SensorCallback, TimerCallback, SendReading, Carry, Pick, vars, topics, plant
  <2> QED
    BY <2>1, <2>2, <2>3, <2>4, <2>5, <2>6 DEF Next
<1>3. TypeOK /\ Stopped => BeltStops
  BY DEF Stopped, LastSpeed, BeltStops, Executing
<1> QED
  BY <1>1, <1>2, <1>3, TypeCorrect, PTL DEF Spec

\* Goals that are being executed at the same time are on record as together.
Alone == \A g, h \in Executing : g # h => g \in together

\* While a goal that was never together with another waits, the last speed
\* published is the 1000 it published itself.
THEOREM BeltRunsAlways == Spec => []BeltRunsForGoal
<1> DEFINE Inv == Alone /\ BeltRunsForGoal
<1>1. Init => Inv
  BY DEF Init, Alone, Executing, BeltRunsForGoal
<1>2. TypeOK /\ Inv /\ [Next]_vars => Inv'
  <2> SUFFICES ASSUME TypeOK, Alone, BeltRunsForGoal, [Next]_vars PROVE Inv'
    OBVIOUS
  <2>0. ASSUME LastSpeed' = LastSpeed, UNCHANGED <<ok, exec, together>> PROVE Inv'
    BY <2>0 DEF Alone, Executing, BeltRunsForGoal, LastSpeed
  <2>1. ASSUME NEW g \in Goals, StartGoal(g) PROVE Inv'
    <3>1. \A h \in Goals \ {g} : exec'[h] = exec[h]
      BY <2>1 DEF StartGoal, ExecGo, TypeOK
    <3>2. exec'[g] = "start"
      BY <2>1 DEF StartGoal, ExecGo, TypeOK
    <3>3. Executing' = Executing \cup {g}
      BY <2>1, <3>1, <3>2 DEF StartGoal, ExecGo, Executing
    <3>4. Alone'
      BY <2>1, <3>3 DEF StartGoal, Alone
    <3>5. together \subseteq together'
      BY <2>1 DEF StartGoal
    <3>6. LastSpeed' = LastSpeed /\ ok' = ok
      BY <2>1, OthersKeepLast DEF StartGoal, topics
    <3>7. BeltRunsForGoal'
      BY <3>1, <3>2, <3>5, <3>6 DEF BeltRunsForGoal, LastSpeed
    <3> QED
      BY <3>4, <3>7
  <2>2. ASSUME NEW g \in Goals, Execute(g) PROVE Inv'
    <3>1. \A h \in Goals \ {g} : exec'[h] = exec[h]
      BY <2>2 DEF Execute, StartBelt, EndLoop, StopBelt, Succeed, ExecGo, TypeOK
    <3>2. g \in Executing /\ together' = together /\ ok' = ok /\ rpm' = rpm
      BY <2>2 DEF Execute, StartBelt, EndLoop, StopBelt, Succeed, ExecGo, Executing, hist
    <3>3. Executing' \subseteq Executing
      BY <3>1, <3>2 DEF Executing
    <3>4. Alone'
      BY <3>2, <3>3 DEF Alone
    <3>5. BeltRunsForGoal'
      <4> SUFFICES ASSUME ok, NEW h \in Goals \ together, exec'[h] = "loop"
                   PROVE  LastSpeed' = "on"
        BY <3>2 DEF BeltRunsForGoal, LastSpeed
      <4>1. CASE StartBelt(g)
        BY <4>1, PublishSetsLast DEF StartBelt, Speeds
      <4>2. CASE EndLoop(g) \/ Succeed(g)
        <5>1. exec'[g] # "loop" /\ rpm_data' = rpm_data
          BY <4>2 DEF EndLoop, Succeed, ExecGo, TypeOK
        <5>2. exec[h] = "loop"
          BY <3>1, <5>1
        <5> QED
          BY <3>2, <5>1, <5>2 DEF BeltRunsForGoal, LastSpeed
      <4>3. CASE StopBelt(g)
        <5>1. exec'[g] = "succeed"
          BY <4>3 DEF StopBelt, ExecGo, TypeOK
        <5>2. h # g /\ h \in Executing
          BY <3>1, <5>1 DEF Executing
        <5> QED
          BY <3>2, <5>2 DEF Alone
      <4> QED
        BY <2>2, <4>1, <4>2, <4>3 DEF Execute
    <3> QED
      BY <3>4, <3>5
  <2>3. CASE RpmCallback
    BY <2>0, <2>3, CallbackKeepsLast DEF RpmCallback, hist
  <2>4. CASE Shutdown
    BY <2>4 DEF Shutdown, hist, Alone, Executing, BeltRunsForGoal
  <2>5. SensorCallback \/ TimerCallback \/ SendReading \/ Carry \/ Pick \/ UNCHANGED vars
        => UNCHANGED <<ok, exec, rpm_data, rpm, together>>
    BY DEF SensorCallback, TimerCallback, SendReading, Carry, Pick, vars, topics, plant, hist
  <2> QED
    BY <2>0, <2>1, <2>2, <2>3, <2>4, <2>5, OthersKeepLast DEF Next
<1> QED
  BY <1>1, <1>2, TypeCorrect, PTL DEF Spec

-----------------------------------------------------------------------------
(* The sensor                                                              *)

\* Readings only move on and are dropped: none of an object comes from nowhere.
LEMMA NearComesFromObject ==
  ASSUME TypeOK, NothingNear, [Next]_vars, object' # "near"
  PROVE  NothingNear'
<1> USE DEF Readings, Speeds
<1>1. CASE SensorCallback
  <2>1. sensor_topic \in Seq(Readings) /\ sensor_topic # <<>>
    BY <1>1 DEF TypeOK, SensorCallback
  <2>2. /\ Head(sensor_topic) = sensor_topic[1] /\ 1 \in DOMAIN sensor_topic
        /\ \A i \in DOMAIN Tail(sensor_topic) :
             \E j \in DOMAIN sensor_topic : Tail(sensor_topic)[i] = sensor_topic[j]
    BY <2>1, TailKeeps
  <2> QED
    BY <1>1, <2>2 DEF SensorCallback, plant, NothingNear
<1>2. CASE TimerCallback
  <2>1. CASE serial = <<>>
    BY <1>2, <2>1 DEF TimerCallback, NothingNear
  <2>2. CASE serial # <<>>
    <3>1. /\ Head(serial) = serial[1] /\ 1 \in DOMAIN serial /\ Head(serial) \in Readings
          /\ \A i \in DOMAIN Tail(serial) : \E j \in DOMAIN serial : Tail(serial)[i] = serial[j]
      BY <2>2, TailKeeps DEF TypeOK
    <3>2. \A i \in DOMAIN KeepLast(sensor_topic, Head(serial)) :
            \/ KeepLast(sensor_topic, Head(serial))[i] = Head(serial)
            \/ \E j \in DOMAIN sensor_topic : KeepLast(sensor_topic, Head(serial))[i] = sensor_topic[j]
      BY <3>1, KeepLastTakes DEF TypeOK
    <3> QED
      BY <1>2, <2>2, <3>1, <3>2 DEF TimerCallback, NothingNear
  <2> QED
    BY <2>1, <2>2
<1>3. CASE SendReading
  <2>1. serial \in Seq(Readings) /\ object \in Readings /\ serial' = Append(serial, object)
    BY <1>3 DEF TypeOK, SendReading
  <2>2. \A i \in DOMAIN serial' : serial'[i] = object \/ (i \in DOMAIN serial /\ serial'[i] = serial[i])
    BY <2>1
  <2> QED
    BY <1>3, <2>2 DEF SendReading, topics, NothingNear
<1>4. CASE UNCHANGED <<sensor_data, sensor_topic, serial>>
  BY <1>4 DEF NothingNear
<1>5. ASSUME NEW g \in Goals, StartGoal(g) \/ Execute(g) PROVE UNCHANGED <<sensor_data, sensor_topic, serial>>
  BY <1>5 DEF StartGoal, Execute, topics, plant
<1>6. Shutdown \/ RpmCallback \/ Carry \/ Pick \/ UNCHANGED vars
      => UNCHANGED <<sensor_data, sensor_topic, serial>>
  BY DEF Shutdown, RpmCallback, Carry, Pick, vars, topics, plant
<1> QED
  BY <1>1, <1>2, <1>3, <1>4, <1>5, <1>6 DEF Next

\* A goal that began with nothing near and was brought nothing has nothing near.
Waiting == ok => \A g \in fresh \ carried : exec[g] \in {"start", "loop"} => NothingNear

\* A goal is recorded as fresh when it is sent, not before.
FreshSent == \A g \in fresh : exec[g] # "unsent"

\* However long the queues between the sensor and the server, an old reading
\* never ends a goal that found the sensor, and them, free of any.
THEOREM EndsWithObjectAlways == Spec => []EndsWithObject
<1> DEFINE Inv == Waiting /\ FreshSent /\ EndsWithObject
<1>1. Init => Inv
  BY DEF Init, Waiting, FreshSent, EndsWithObject
<1>2. TypeOK /\ Inv /\ [Next]_vars => Inv'
  <2> SUFFICES ASSUME TypeOK, Waiting, FreshSent, EndsWithObject, [Next]_vars PROVE Inv'
    OBVIOUS
  <2>1. ASSUME NEW g \in Goals, StartGoal(g) PROVE Inv'
    <3>1. exec[g] = "unsent" /\ exec'[g] = "start" /\ \A h \in Goals \ {g} : exec'[h] = exec[h]
      BY <2>1 DEF StartGoal, ExecGo, TypeOK
    <3>2. g \notin fresh
      BY <3>1 DEF FreshSent
    <3>3. (NothingNear' <=> NothingNear) /\ ok' = ok /\ carried' = carried
      BY <2>1 DEF StartGoal, NothingNear, topics, plant
    <3>4. fresh' \subseteq fresh \cup {g} /\ (g \in fresh' => NothingNear) /\ fresh \subseteq Goals
      BY <2>1, <3>2 DEF StartGoal, TypeOK
    <3>5. Waiting'
      BY <3>1, <3>3, <3>4 DEF Waiting
    <3>6. FreshSent'
      BY <3>1, <3>4 DEF FreshSent
    <3>7. EndsWithObject'
      BY <3>1, <3>3, <3>4 DEF EndsWithObject
    <3> QED
      BY <3>5, <3>6, <3>7
  <2>2. ASSUME NEW g \in Goals, Execute(g) PROVE Inv'
    <3>1. \A h \in Goals \ {g} : exec'[h] = exec[h]
      BY <2>2 DEF Execute, StartBelt, EndLoop, StopBelt, Succeed, ExecGo, TypeOK
    <3>2. ok' = ok /\ fresh' = fresh /\ carried' = carried /\ (NothingNear' <=> NothingNear)
          /\ fresh \subseteq Goals
      BY <2>2 DEF Execute, NothingNear, plant, hist, TypeOK
    <3>3. exec'[g] # "unsent" /\ (exec'[g] = "loop" => exec[g] = "start") /\ exec'[g] # "start"
      BY <2>2 DEF Execute, StartBelt, EndLoop, StopBelt, Succeed, ExecGo, TypeOK
    <3>4. Waiting' /\ FreshSent'
      BY <3>1, <3>2, <3>3 DEF Waiting, FreshSent
    <3>5. EndsWithObject'
      <4> SUFFICES ASSUME ok, g \in fresh, exec'[g] \in {"stop", "succeed", "done"} PROVE g \in carried
        BY <3>1, <3>2 DEF EndsWithObject
      <4>1. CASE EndLoop(g)
        <5>1. exec[g] = "loop" /\ sensor_data = "near"
          BY <4>1 DEF EndLoop, ExecGo
        <5> QED
          BY <5>1 DEF Waiting, NothingNear
      <4>2. CASE StopBelt(g) \/ Succeed(g)
        BY <4>2 DEF StopBelt, Succeed, ExecGo, EndsWithObject
      <4>3. CASE StartBelt(g)
        BY <4>3 DEF StartBelt, ExecGo, TypeOK
      <4> QED
        BY <2>2, <4>1, <4>2, <4>3 DEF Execute
    <3> QED
      BY <3>4, <3>5
  <2>3. CASE Shutdown
    BY <2>3 DEF Shutdown, hist, Waiting, FreshSent, EndsWithObject
  <2>4. CASE Carry
    <3>1. UNCHANGED <<ok, exec, fresh>> /\ carried \subseteq carried' /\ fresh \subseteq Goals
      BY <2>4 DEF Carry, TypeOK
    <3>2. CASE object' = "near"
      <4>1. \A g \in fresh : exec[g] \in {"start", "loop"} => g \in carried'
        BY <2>4, <3>1, <3>2 DEF Carry, Executing
      <4> QED
        BY <3>1, <4>1 DEF Waiting, FreshSent, EndsWithObject
    <3>3. CASE object' # "near"
      <4>1. NothingNear => NothingNear'
        BY <3>3, NearComesFromObject
      <4> QED
        BY <3>1, <4>1 DEF Waiting, FreshSent, EndsWithObject
    <3> QED
      BY <3>2, <3>3
  <2>5. CASE UNCHANGED <<ok, exec, fresh, carried>> /\ (object' = object \/ object' = "far")
    <3>1. NothingNear => NothingNear'
      BY <2>5, NearComesFromObject DEF NothingNear
    <3> QED
      BY <2>5, <3>1 DEF Waiting, FreshSent, EndsWithObject
  <2>6. SensorCallback \/ RpmCallback \/ TimerCallback \/ SendReading \/ Pick \/ UNCHANGED vars
        => UNCHANGED <<ok, exec, fresh, carried>> /\ (object' = object \/ object' = "far")
    BY DEF SensorCallback, RpmCallback, TimerCallback, SendReading, Pick, vars, plant, hist
  <2> QED
    BY <2>1, <2>2, <2>3, <2>4, <2>5, <2>6 DEF Next
<1> QED
  BY <1>1, <1>2, TypeCorrect, PTL DEF Spec
=============================================================================
