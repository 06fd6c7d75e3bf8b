-------------------------- MODULE PosePipelineProofs --------------------------
(***************************************************************************)
(* What holds of the poses for every line, reach, depth and number of      *)
(* goals.                                                                  *)
(***************************************************************************)
EXTENDS PosePipeline, TLAPS

\* A queue of the middleware takes the new message as its last one, and keeps its bound.
LEMMA PushTakes ==
  ASSUME NEW S, NEW q \in Seq(S), Len(q) <= Depth, NEW e \in S
  PROVE  /\ Push(q, e) \in Seq(S)
         /\ Len(Push(q, e)) \in 1 .. Depth
         /\ Push(q, e)[Len(Push(q, e))] = e
         /\ Len(Push(q, e)) = (IF Len(q) < Depth THEN Len(q) + 1 ELSE Len(q))
         /\ \A i \in 1 .. Len(Push(q, e)) - 1 :
              Push(q, e)[i] = (IF Len(q) < Depth THEN q[i] ELSE q[i + 1])
<1> USE DepthAssumption
<1>1. CASE Len(q) < Depth
  BY <1>1 DEF Push
<1>2. CASE Len(q) = Depth
  <2>1. q # <<>> /\ Tail(q) \in Seq(S) /\ Len(Tail(q)) = Depth - 1
    BY <1>2
  <2>2. \A i \in 1 .. Depth - 1 : Tail(q)[i] = q[i + 1]
    BY <1>2
  <2> QED
    BY <1>2, <2>1, <2>2 DEF Push
<1> QED
  BY <1>1, <1>2

\* The queue whose first message is taken.
LEMMA TailKeeps ==
  ASSUME NEW S, NEW q \in Seq(S), q # <<>>
  PROVE  /\ Head(q) \in S /\ Head(q) = q[1]
         /\ Tail(q) \in Seq(S) /\ Len(Tail(q)) = Len(q) - 1
         /\ \A i \in 1 .. Len(q) - 1 : Tail(q)[i] = q[i + 1]
  OBVIOUS

-----------------------------------------------------------------------------
(* Types                                                                   *)

\* The angles the gateway starts with are typed like a pose.
LEMMA StartIsPose == Start \in Pose
  BY BoundAssumption DEF Start, Pose

\* Publishing leaves every publisher's queue typed and within its depth.
LEMMA PublishKeepsType ==
  ASSUME TypeOK, NEW w \in Writers, NEW p \in Pose, Publish(w, p)
  PROVE  /\ sent' \in [Writers -> Seq(Pose)] /\ \A v \in Writers : Len(sent'[v]) <= Depth
         /\ unordered' \in BOOLEAN
<1>1. /\ Push(sent[w], p) \in Seq(Pose) /\ Len(Push(sent[w], p)) <= Depth
  <2>1. sent[w] \in Seq(Pose) /\ Len(sent[w]) <= Depth
    BY DEF TypeOK
  <2>2. Len(Push(sent[w], p)) \in 1 .. Depth /\ Push(sent[w], p) \in Seq(Pose)
    BY <2>1, PushTakes
  <2> QED
    BY <2>2, DepthAssumption
<1> QED
  BY <1>1 DEF TypeOK, Publish

\* A thread that goes on still has its goal's place ahead.
LEMMA GoesKeepsType ==
  ASSUME TypeOK, NEW t \in threads, NEW x \in t.ahead, Goes(t, x)
  PROVE  /\ threads' \subseteq Thread /\ \A s \in threads' : s.to \in s.ahead
         /\ client' \in {"boot", "idle", "move", "approach"}
<1> DEFINE rest == {y \in t.ahead : (x <= y /\ y <= t.to) \/ (t.to <= y /\ y <= x)} \ {x}
           u    == [t EXCEPT !.ahead = rest, !.first = FALSE]
<1>1. t \in Thread /\ t.to \in t.ahead /\ t.ahead \subseteq Places
  BY DEF TypeOK, Thread
<1>2. u \in Thread
  BY <1>1 DEF Thread
<1>3. x # t.to => u.to \in u.ahead
  <2>1. x \in Int /\ t.to \in Int
    BY <1>1, ReachAssumption DEF Places
  <2>2. u.to = t.to /\ u.ahead = rest
    BY <1>1 DEF Thread
  <2> QED
    BY <1>1, <2>1, <2>2
<1>4. threads' = (threads \ {t}) \cup (IF x = t.to THEN {} ELSE {u})
  BY DEF Goes
<1>5. client' \in {"boot", "idle", "move", "approach"}
  BY DEF Goes, TypeOK
<1>6. ASSUME NEW s \in threads' PROVE s \in Thread /\ s.to \in s.ahead
  <2> HIDE DEF u
  <2>1. CASE s \in threads
    BY <2>1 DEF TypeOK
  <2>2. CASE s \notin threads
    <3>1. x # t.to /\ s = u
      BY <1>4, <1>6, <2>2
    <3> QED
      BY <1>2, <1>3, <3>1
  <2> QED
    BY <2>1, <2>2
<1> HIDE DEF u, rest
<1>7. threads' \subseteq Thread
  BY <1>6
<1> QED
  BY <1>5, <1>6, <1>7

\* Every reachable state is well typed; in particular a thread of move.cpp that runs
\* still has its goal's pose to publish.
THEOREM TypeCorrect == Spec => []TypeOK
<1> USE BoundAssumption, ReachAssumption, DepthAssumption
<1>1. Init => TypeOK
  <2> SUFFICES ASSUME Init PROVE TypeOK
    OBVIOUS
  <2>1. sent \in [Writers -> Seq(Pose)] /\ \A w \in Writers : Len(sent[w]) <= Depth
    BY DEF Init
  <2>2. {pos_data, angles, arm, arrived, final} \subseteq Pose
    BY StartIsPose DEF Init
  <2>3. threads \subseteq Thread /\ \A t \in threads : t.to \in t.ahead
    BY DEF Init
  <2>4. /\ inbox \in Seq(Pose) /\ Len(inbox) <= 1
        /\ angle_data \in Seq(Pose) /\ Len(angle_data) <= Depth
    BY DEF Init
  <2>5. goals \in 0 .. MaxGoals /\ callbacks \in 0 .. MaxCallbacks
    BY DEF Init
  <2>6. /\ client \in {"boot", "idle", "move", "approach"}
        /\ gateway \in {"spinning", "dead"} /\ unordered \in BOOLEAN
    BY DEF Init
  <2> QED
    BY <2>1, <2>2, <2>3, <2>4, <2>5, <2>6 DEF TypeOK
<1>2. TypeOK /\ [Next]_vars => TypeOK'
  <2> SUFFICES ASSUME TypeOK, [Next]_vars PROVE TypeOK'
    OBVIOUS
  <2>1. CASE Boot
    <3>1. [n |-> 0, at |-> Home] \in Pose
      BY DEF Pose, Home, Places
    <3> QED
      BY <2>1, <3>1, PublishKeepsType DEF Boot, TypeOK, Writers, pipeline
  <2>2. CASE SendMove
    <3>1. goals + 1 \in 1 .. MaxGoals
      BY <2>2 DEF SendMove, TypeOK
    <3>2. PICK a \in Places, b \in Places :
            /\ threads' = threads \cup {[n |-> goals', ahead |-> Between(a, b),
                                        to |-> b, first |-> TRUE]}
            /\ final' = [n |-> goals', at |-> b]
      BY <2>2 DEF SendMove
    <3>3. Between(a, b) \in SUBSET Places /\ b \in Between(a, b)
      BY DEF Between, Places
    <3>4. goals' \in 1 .. MaxGoals
      BY <2>2, <3>1 DEF SendMove
    <3>5. final' \in Pose
      BY <3>2, <3>4 DEF Pose
    <3>6. threads' \subseteq Thread /\ \A t \in threads' : t.to \in t.ahead
      <4> DEFINE new == [n |-> goals', ahead |-> Between(a, b), to |-> b, first |-> TRUE]
      <4>1. new \in Thread /\ new.to \in new.ahead
        BY <3>3, <3>4 DEF Thread
      <4> HIDE DEF new
      <4> QED
        BY <3>2, <4>1 DEF TypeOK, new
    <3> QED
      BY <2>2, <3>4, <3>5, <3>6 DEF SendMove, TypeOK, pipeline
  <2>3. CASE SendApproach
    <3>1. goals' \in 1 .. MaxGoals
      BY <2>3 DEF SendApproach, TypeOK
    <3>2. pos_data' \in Pose
      BY <2>3, <3>1 DEF SendApproach, Pose, Home, Places
    <3> QED
      BY <2>3, <3>1, <3>2 DEF SendApproach, TypeOK, pipeline
  <2>4. CASE GiveUp
    BY <2>4 DEF GiveUp, TypeOK, pipeline
  <2>5. CASE MoveStep
    <3>1. PICK t \in threads : /\ Iterate(t) \/ IterateNaN(t)
                              /\ UNCHANGED <<goals, pos_data, callbacks, final, pipeline>>
      BY <2>5 DEF MoveStep
    <3>2. t \in Thread /\ t.to \in t.ahead
      BY DEF TypeOK
    <3>3. CASE Iterate(t)
      <4>1. PICK x \in t.ahead : Goes(t, x) /\ Publish("move", [n |-> t.n, at |-> x])
        BY <3>3 DEF Iterate
      <4>2. [n |-> t.n, at |-> x] \in Pose
        BY <3>2 DEF Thread, Pose
      <4> QED
        BY <3>1, <4>1, <4>2, GoesKeepsType, PublishKeepsType DEF TypeOK, Writers, pipeline
    <3>4. CASE IterateNaN(t)
      <4>1. [n |-> t.n, at |-> Undefined] \in Pose
        BY <3>2 DEF Thread, Pose
      <4>2. [t EXCEPT !.first = FALSE] \in Thread
        BY <3>2 DEF Thread
      <4>3. [t EXCEPT !.first = FALSE].to \in [t EXCEPT !.first = FALSE].ahead
        BY <3>2 DEF Thread
      <4>4. threads' \subseteq Thread /\ \A s \in threads' : s.to \in s.ahead
        BY <3>4, <4>2, <4>3 DEF IterateNaN, TypeOK
      <4> QED
        BY <3>1, <3>4, <4>1, <4>4, PublishKeepsType DEF IterateNaN, TypeOK, Writers, pipeline
    <3> QED
      BY <3>1, <3>3, <3>4
  <2>6. CASE Control
    <3>1. PICK x \in Places : pos_data' = [pos_data EXCEPT !.at = x]
      BY <2>6 DEF Control
    <3>2. pos_data' \in Pose
      BY <3>1 DEF TypeOK, Pose
    <3>3. callbacks' \in 0 .. MaxCallbacks
      BY <2>6 DEF Control, TypeOK
    <3> QED
      BY <2>6, <3>2, <3>3 DEF Control, TypeOK, pipeline
  <2>7. CASE Finish
    BY <2>7 DEF Finish, TypeOK, pipeline
  <2>8. CASE PublishPos
    <3>1. pos_data \in Pose /\ "approach" \in Writers
      BY DEF TypeOK, Writers
    <3>2. callbacks' \in 0 .. MaxCallbacks
      BY <2>8 DEF PublishPos, TypeOK
    <3> QED
      BY <2>8, <3>1, <3>2, PublishKeepsType DEF PublishPos, TypeOK, pipeline
  <2>9. ASSUME NEW w \in Writers, Arrive(w) PROVE TypeOK'
    <3>1. sent[w] \in Seq(Pose) /\ sent[w] # <<>> /\ Len(sent[w]) <= Depth
      BY <2>9 DEF Arrive, TypeOK
    <3>2. /\ Head(sent[w]) \in Pose /\ Tail(sent[w]) \in Seq(Pose)
          /\ Len(Tail(sent[w])) <= Depth
      BY <3>1, TailKeeps
    <3>3. inbox' \in Seq(Pose) /\ Len(inbox') <= 1 /\ arrived' \in Pose
      BY <2>9, <3>2 DEF Arrive
    <3>4. sent' \in [Writers -> Seq(Pose)] /\ \A v \in Writers : Len(sent'[v]) <= Depth
      BY <2>9, <3>2 DEF Arrive, TypeOK
    <3> QED
      BY <2>9, <3>3, <3>4 DEF Arrive, TypeOK
  <2>10. CASE pose_callback
    <3>1. inbox[1] \in Pose
      BY <2>10 DEF pose_callback, TypeOK
    <3>2. Push(angle_data, inbox[1]) \in Seq(Pose) /\ Len(Push(angle_data, inbox[1])) <= Depth
      <4>1. angle_data \in Seq(Pose) /\ Len(angle_data) <= Depth
        BY DEF TypeOK
      <4>2. Len(Push(angle_data, inbox[1])) \in 1 .. Depth
            /\ Push(angle_data, inbox[1]) \in Seq(Pose)
        BY <3>1, <4>1, PushTakes
      <4> QED
        BY <4>2
    <3> QED
      BY <2>10, <3>2 DEF pose_callback, TypeOK
  <2>11. CASE angles_callback
    <3>1. Head(angle_data) \in Pose /\ Tail(angle_data) \in Seq(Pose) /\ Len(Tail(angle_data)) <= Depth
      BY <2>11, TailKeeps DEF angles_callback, TypeOK
    <3> QED
      BY <2>11, <3>1 DEF angles_callback, TypeOK
  <2>12. CASE timer_callback
    BY <2>12 DEF timer_callback, TypeOK
  <2>13. CASE UNCHANGED vars
    BY <2>13 DEF vars, TypeOK
  <2> QED
    BY <2>1, <2>2, <2>3, <2>4, <2>5, <2>6, <2>7, <2>8, <2>9, <2>10, <2>11, <2>12, <2>13
    DEF Next, Tree, Approach, Gateway
<1> QED
  BY <1>1, <1>2, PTL DEF Spec

-----------------------------------------------------------------------------
(* The pose that came last is not lost                                     *)

\* It is the newest of those that wait for ik.cpp and gateway.cpp, or has been taken.
Newest ==
  /\ inbox # <<>> => inbox[1] = arrived
  /\ inbox = <<>> /\ Passes(arrived) =>
       IF angle_data = <<>> THEN angles = arrived
       ELSE angle_data[Len(angle_data)] = arrived

\* When nothing waits between ik.cpp and gateway.cpp, the gateway holds the angles of
\* the pose that came last, unless that pose is out of reach.
THEOREM SettledAlways == Spec => []Settled
<1>1. Init => Newest
  BY DEF Init, Newest
<1>2. TypeOK /\ Newest /\ [Next]_vars => Newest'
  <2> SUFFICES ASSUME TypeOK, Newest, [Next]_vars PROVE Newest'
    OBVIOUS
  <2>1. ASSUME NEW w \in Writers, Arrive(w) PROVE Newest'
    BY <2>1 DEF Arrive, Newest
  <2>2. CASE pose_callback
    <3>1. inbox # <<>> /\ inbox[1] = arrived /\ inbox[1] \in Pose
      BY <2>2 DEF pose_callback, Newest, TypeOK
    <3>2. CASE Passes(arrived)
      <4>1. angle_data \in Seq(Pose) /\ Len(angle_data) <= Depth
        BY DEF TypeOK
      <4>2. /\ angle_data' \in Seq(Pose) /\ Len(angle_data') \in 1 .. Depth
            /\ angle_data'[Len(angle_data')] = arrived
        <5>1. angle_data' = Push(angle_data, inbox[1])
          BY <2>2, <3>1, <3>2 DEF pose_callback
        <5>2. /\ Push(angle_data, inbox[1]) \in Seq(Pose)
              /\ Len(Push(angle_data, inbox[1])) \in 1 .. Depth
              /\ Push(angle_data, inbox[1])[Len(Push(angle_data, inbox[1]))] = inbox[1]
          BY <3>1, <4>1, PushTakes
        <5> QED
          BY <3>1, <5>1, <5>2
      <4>3. angle_data' # <<>>
        BY <4>2
      <4> QED
        BY <2>2, <4>2, <4>3 DEF pose_callback, Newest
    <3>3. CASE ~Passes(arrived)
      BY <2>2, <3>3 DEF pose_callback, Newest, Passes
    <3> QED
      BY <3>2, <3>3
  <2>3. CASE angles_callback
    <3>1. angle_data \in Seq(Pose) /\ angle_data # <<>>
      BY <2>3 DEF angles_callback, TypeOK
    <3>2. /\ Head(angle_data) = angle_data[1]
          /\ Tail(angle_data) \in Seq(Pose) /\ Len(Tail(angle_data)) = Len(angle_data) - 1
          /\ \A i \in 1 .. Len(angle_data) - 1 : Tail(angle_data)[i] = angle_data[i + 1]
      BY <3>1, TailKeeps
    <3>3. CASE Len(angle_data) = 1
      <4>1. angle_data' = <<>>
        BY <2>3, <3>2, <3>3 DEF angles_callback
      <4>2. angles' = angle_data[Len(angle_data)]
        BY <2>3, <3>2, <3>3 DEF angles_callback
      <4> QED
        <5>1. inbox' = inbox /\ arrived' = arrived
          BY <2>3 DEF angles_callback
        <5>2. inbox = <<>> /\ Passes(arrived) => angles' = arrived
          BY <3>1, <4>2 DEF Newest
        <5>3. inbox' = <<>> /\ Passes(arrived') => angles' = arrived'
          BY <5>1, <5>2
        <5>4. inbox' # <<>> => inbox'[1] = arrived'
          BY <5>1 DEF Newest
        <5> QED
          BY <4>1, <5>3, <5>4 DEF Newest, Passes
    <3>4. CASE Len(angle_data) > 1
      <4>1. /\ angle_data' # <<>>
            /\ angle_data'[Len(angle_data')] = angle_data[Len(angle_data)]
        <5>1. angle_data' = Tail(angle_data)
          BY <2>3 DEF angles_callback
        <5>2. Len(angle_data) \in Nat /\ Len(angle_data) - 1 \in 1 .. Len(angle_data) - 1
          BY <3>1, <3>4
        <5>3. Tail(angle_data)[Len(angle_data) - 1] = angle_data[Len(angle_data) - 1 + 1]
          BY <3>2, <5>2
        <5>4. Len(angle_data') = Len(angle_data) - 1 /\ Len(angle_data) - 1 + 1 = Len(angle_data)
          BY <3>2, <5>1, <5>2
        <5>5. Tail(angle_data) # <<>>
          <6>1. Len(<<>>) = 0 /\ Len(Tail(angle_data)) # 0
            BY <3>2, <3>4, <5>2
          <6> QED
            BY <6>1
        <5> QED
          BY <5>1, <5>3, <5>4, <5>5
      <4>2. inbox' = inbox /\ arrived' = arrived
        BY <2>3 DEF angles_callback
      <4>3. inbox = <<>> /\ Passes(arrived) => angle_data'[Len(angle_data')] = arrived
        BY <3>1, <4>1 DEF Newest
      <4> QED
        BY <4>1, <4>2, <4>3 DEF Newest, Passes
    <3> QED
      BY <3>1, <3>3, <3>4
  <2>4. CASE UNCHANGED <<inbox, angle_data, angles, arrived>>
    BY <2>4 DEF Newest, Passes
  <2> QED
    BY <2>1, <2>2, <2>3, <2>4
    DEF Next, Tree, Boot, SendMove, SendApproach, GiveUp, MoveStep, Approach, Control, Finish,
        PublishPos, Gateway, timer_callback, pipeline, vars
<1>3. Newest => Settled
  BY DEF Newest, Settled
<1> QED
  BY <1>1, <1>2, <1>3, TypeCorrect, PTL DEF Spec

-----------------------------------------------------------------------------
(* Poses keep the order of the goals                                       *)

\* A queue, two queues, or a queue and a bound are in the order of the goals.
Ascending(q) == \A i, j \in 1 .. Len(q) : i < j => q[i].n <= q[j].n
Below(k, q)  == \A i \in 1 .. Len(q) : k <= q[i].n
Above(q, k)  == \A i \in 1 .. Len(q) : q[i].n <= k
Behind(q, r) == \A i \in 1 .. Len(q) : Below(q[i].n, r)

\* One thread at most, and it belongs to the goal the tree waits for.
OneLine ==
  /\ client = "boot" => goals = 0
  /\ pos_data.n <= goals
  /\ ~unordered => /\ \A t \in threads : client = "move" /\ t.n = goals
                   /\ \A s, t \in threads : s = t

\* From the arm back to the publishers, goals only grow, and one publisher at a time
\* has poses on their way.
InOrder ==
  /\ arm.n <= angles.n /\ angles.n <= goals
  /\ Below(angles.n, angle_data) /\ Above(angle_data, goals) /\ Ascending(angle_data)
  /\ Below(angles.n, inbox) /\ Above(inbox, goals) /\ Behind(angle_data, inbox)
  /\ \A w \in Writers :
       /\ Below(angles.n, sent[w]) /\ Above(sent[w], goals) /\ Ascending(sent[w])
       /\ Behind(angle_data, sent[w]) /\ Behind(inbox, sent[w])
  /\ \A v, w \in Writers : v # w => sent[v] = <<>> \/ sent[w] = <<>>

Order == OneLine /\ (~unordered => InOrder)

\* What a queue holds after a message came or went was there, or is that message.
LEMMA PushElements ==
  ASSUME NEW q \in Seq(Pose), Len(q) <= Depth, NEW e \in Pose
  PROVE  /\ Push(q, e) \in Seq(Pose)
         /\ \A i \in 1 .. Len(Push(q, e)) :
              Push(q, e)[i] = e \/ \E j \in 1 .. Len(q) : Push(q, e)[i] = q[j]
         /\ Ascending(q) /\ Above(q, e.n) => Ascending(Push(q, e))
<1> DEFINE r == Push(q, e)
<1> USE DepthAssumption
<1>1. /\ r \in Seq(Pose) /\ Len(r) \in 1 .. Depth /\ r[Len(r)] = e
      /\ Len(r) = (IF Len(q) < Depth THEN Len(q) + 1 ELSE Len(q))
      /\ \A i \in 1 .. Len(r) - 1 : r[i] = (IF Len(q) < Depth THEN q[i] ELSE q[i + 1])
  BY PushTakes
<1> HIDE DEF r
<1>2. Len(q) \in Nat /\ Len(r) \in Nat
  BY <1>1
<1>3. \A i \in 1 .. Len(r) : r[i] = e \/ \E j \in 1 .. Len(q) : r[i] = q[j]
  <2> TAKE i \in 1 .. Len(r)
  <2>1. CASE i = Len(r)
    BY <1>1, <2>1
  <2>2. CASE i # Len(r)
    <3>1. i \in 1 .. Len(r) - 1 /\ i \in 1 .. Len(q) /\ (Len(q) >= Depth => i + 1 \in 1 .. Len(q))
      BY <1>1, <1>2, <2>2
    <3> QED
      BY <1>1, <3>1
  <2> QED
    BY <2>1, <2>2
<1>4. ASSUME Ascending(q), Above(q, e.n) PROVE Ascending(r)
  <2> SUFFICES ASSUME NEW i \in 1 .. Len(r), NEW j \in 1 .. Len(r), i < j PROVE r[i].n <= r[j].n
    BY DEF Ascending
  <2>1. i \in 1 .. Len(r) - 1
    BY <1>2
  <2>2. CASE j = Len(r)
    <3>1. PICK k \in 1 .. Len(q) : r[i] = q[k]
      BY <1>1, <1>2, <2>1
    <3> QED
      BY <1>1, <1>4, <2>2, <3>1 DEF Above
  <2>3. CASE j # Len(r)
    <3>1. j \in 1 .. Len(r) - 1
      BY <1>2, <2>3
    <3>2. CASE Len(q) < Depth
      <4>1. r[i] = q[i] /\ r[j] = q[j] /\ i \in 1 .. Len(q) /\ j \in 1 .. Len(q)
        BY <1>1, <1>2, <2>1, <3>1, <3>2
      <4> QED
        BY <1>4, <4>1 DEF Ascending
    <3>3. CASE ~(Len(q) < Depth)
      <4>1. /\ r[i] = q[i + 1] /\ r[j] = q[j + 1] /\ i + 1 < j + 1
            /\ i + 1 \in 1 .. Len(q) /\ j + 1 \in 1 .. Len(q)
        BY <1>1, <1>2, <2>1, <3>1, <3>3
      <4> QED
        BY <1>4, <4>1 DEF Ascending
    <3> QED
      BY <3>2, <3>3
  <2> QED
    BY <2>2, <2>3
<1> QED
  BY <1>1, <1>3, <1>4 DEF r

\* Taking the first message of an ordered queue leaves it ordered, and that message below.
LEMMA TailElements ==
  ASSUME NEW q \in Seq(Pose), q # <<>>
  PROVE  /\ Head(q) \in Pose /\ Tail(q) \in Seq(Pose)
         /\ \E j \in 1 .. Len(q) : Head(q) = q[j]
         /\ \A i \in 1 .. Len(Tail(q)) : \E j \in 1 .. Len(q) : Tail(q)[i] = q[j]
         /\ Ascending(q) => Ascending(Tail(q)) /\ Below(Head(q).n, Tail(q))
<1>1. /\ Head(q) \in Pose /\ Head(q) = q[1] /\ Tail(q) \in Seq(Pose)
      /\ Len(Tail(q)) = Len(q) - 1 /\ \A i \in 1 .. Len(q) - 1 : Tail(q)[i] = q[i + 1]
  BY TailKeeps
<1>2. Len(q) \in Nat /\ Len(q) > 0
  OBVIOUS
<1>3. \A i \in 1 .. Len(Tail(q)) : i + 1 \in 1 .. Len(q) /\ Tail(q)[i] = q[i + 1]
  BY <1>1, <1>2
<1>4. 1 \in 1 .. Len(q)
  BY <1>2
<1>5. Ascending(q) => Ascending(Tail(q))
  <2> SUFFICES ASSUME Ascending(q), NEW i \in 1 .. Len(Tail(q)), NEW j \in 1 .. Len(Tail(q)), i < j
               PROVE  Tail(q)[i].n <= Tail(q)[j].n
    BY DEF Ascending
  <2>1. i + 1 < j + 1 /\ i \in Nat /\ j \in Nat
    BY <1>1, <1>2
  <2> QED
    BY <1>3, <2>1 DEF Ascending
<1>6. Ascending(q) => Below(Head(q).n, Tail(q))
  <2> SUFFICES ASSUME Ascending(q), NEW i \in 1 .. Len(Tail(q))
               PROVE  Head(q).n <= Tail(q)[i].n
    BY DEF Below
  <2>1. 1 < i + 1
    BY <1>1, <1>2
  <2> QED
    BY <1>1, <1>3, <1>4, <2>1 DEF Ascending
<1> QED
  BY <1>1, <1>3, <1>4, <1>5, <1>6

\* A pose of the newest goal may be published.
LEMMA PublishInOrder ==
  ASSUME TypeOK, InOrder, NEW w \in Writers, NEW p \in Pose, p.n = goals, Publish(w, p),
         ~unordered', UNCHANGED <<goals, angles, arm, angle_data, inbox>>
  PROVE  InOrder'
<1> DEFINE q == sent[w]  r == Push(sent[w], p)
<1>1. /\ q \in Seq(Pose) /\ Len(q) <= Depth
      /\ Below(angles.n, q) /\ Above(q, goals) /\ Ascending(q)
      /\ Behind(angle_data, q) /\ Behind(inbox, q)
  BY DEF TypeOK, InOrder
<1>2. /\ r \in Seq(Pose)
      /\ \A i \in 1 .. Len(r) : r[i] = p \/ \E j \in 1 .. Len(q) : r[i] = q[j]
      /\ Ascending(q) /\ Above(q, p.n) => Ascending(r)
  BY <1>1, PushElements
<1>3. sent' = [sent EXCEPT ![w] = r] /\ \A v \in Writers \ {w} : sent[v] = <<>>
  BY DEF Publish, Crossed
<1> HIDE DEF q, r
<1>4. /\ angles.n <= goals /\ Above(angle_data, goals) /\ Above(inbox, goals)
      /\ goals \in Int
  BY DEF InOrder, TypeOK
<1>5. Below(angles.n, r) /\ Above(r, goals) /\ Ascending(r)
  BY <1>1, <1>2, <1>4 DEF Below, Above
<1>6. Behind(angle_data, r)
  BY <1>1, <1>2, <1>4 DEF Behind, Below, Above
<1>7. Behind(inbox, r)
  BY <1>1, <1>2, <1>4 DEF Behind, Below, Above
<1>8. \A v \in Writers : sent'[v] = IF v = w THEN r ELSE <<>>
  BY <1>3 DEF TypeOK
<1>9. \A v \in Writers : v # w => sent'[v] = sent[v]
  BY <1>3, <1>8
<1>10. \A v \in Writers :
         /\ Below(angles.n, sent'[v]) /\ Above(sent'[v], goals) /\ Ascending(sent'[v])
         /\ Behind(angle_data, sent'[v]) /\ Behind(inbox, sent'[v])
  <2> TAKE v \in Writers
  <2>1. CASE v = w
    BY <1>5, <1>6, <1>7, <1>8, <2>1
  <2>2. CASE v # w
    BY <1>9, <2>2 DEF InOrder
  <2> QED
    BY <2>1, <2>2
<1>11. \A v, u \in Writers : v # u => sent'[v] = <<>> \/ sent'[u] = <<>>
  BY <1>8
<1> QED
  BY <1>10, <1>11 DEF InOrder, Below, Above, Ascending, Behind

\* The pose that arrives is the oldest of its publisher, and no other has any.
LEMMA ArriveInOrder ==
  ASSUME TypeOK, InOrder, NEW w \in Writers, Arrive(w)
  PROVE  InOrder'
<1> DEFINE q == sent[w]  h == Head(sent[w])  r == Tail(sent[w])
<1>1. /\ q \in Seq(Pose) /\ q # <<>>
      /\ Below(angles.n, q) /\ Above(q, goals) /\ Ascending(q) /\ Behind(angle_data, q)
  BY DEF TypeOK, InOrder, Arrive
<1>2. /\ h \in Pose /\ r \in Seq(Pose)
      /\ \E j \in 1 .. Len(q) : h = q[j]
      /\ \A i \in 1 .. Len(r) : \E j \in 1 .. Len(q) : r[i] = q[j]
      /\ Ascending(q) => Ascending(r) /\ Below(h.n, r)
  BY <1>1, TailElements
<1>3. /\ sent' = [sent EXCEPT ![w] = r] /\ inbox' = <<h>>
      /\ UNCHANGED <<angles, arm, goals, angle_data>>
      /\ \A v \in Writers \ {w} : sent[v] = <<>>
  BY <1>1 DEF Arrive, InOrder
<1> HIDE DEF q, h, r
<1>4. Below(angles.n, r) /\ Above(r, goals) /\ Ascending(r) /\ Behind(angle_data, r)
  BY <1>1, <1>2 DEF Below, Above, Behind
<1>5. Len(<<h>>) = 1 /\ <<h>>[1] = h /\ \A i \in 1 .. 1 : i = 1
  OBVIOUS
<1>6. Below(angles.n, <<h>>) /\ Above(<<h>>, goals) /\ Behind(angle_data, <<h>>) /\ Behind(<<h>>, r)
  BY <1>1, <1>2, <1>5 DEF Below, Above, Behind
<1>7. \A v \in Writers : sent'[v] = IF v = w THEN r ELSE <<>>
  BY <1>3 DEF TypeOK
<1>8. \A q0 : q0 = <<>> => Len(q0) = 0
  OBVIOUS
<1>9. \A v \in Writers :
         /\ Below(angles.n, sent'[v]) /\ Above(sent'[v], goals) /\ Ascending(sent'[v])
         /\ Behind(angle_data, sent'[v]) /\ Behind(<<h>>, sent'[v])
  <2> TAKE v \in Writers
  <2>1. CASE v = w
    BY <1>4, <1>6, <1>7, <2>1
  <2>2. CASE v # w
    BY <1>7, <1>8, <2>2 DEF Below, Above, Ascending, Behind
  <2> QED
    BY <2>1, <2>2
<1>10. \A v, u \in Writers : v # u => sent'[v] = <<>> \/ sent'[u] = <<>>
  BY <1>7
<1> QED
  BY <1>3, <1>6, <1>9, <1>10 DEF InOrder, Below, Above, Ascending, Behind

\* The pose that ik.cpp takes comes after all angles that wait for the gateway.
LEMMA PoseCallbackInOrder ==
  ASSUME TypeOK, InOrder, pose_callback
  PROVE  InOrder'
<1> DEFINE p == inbox[1]  q == angle_data  r == Push(angle_data, inbox[1])
<1>1. /\ inbox # <<>> /\ p \in Pose /\ 1 \in 1 .. Len(inbox)
      /\ inbox' = <<>> /\ Len(inbox') = 0 /\ UNCHANGED <<sent, angles, arm, goals>>
  BY DEF pose_callback, TypeOK
<1>2. /\ q \in Seq(Pose) /\ Len(q) <= Depth
      /\ Below(angles.n, q) /\ Above(q, goals) /\ Ascending(q) /\ Behind(q, inbox)
      /\ Below(angles.n, inbox) /\ Above(inbox, goals)
  BY DEF TypeOK, InOrder
<1>3. /\ \A i \in 1 .. Len(r) : r[i] = p \/ \E j \in 1 .. Len(q) : r[i] = q[j]
      /\ Ascending(q) /\ Above(q, p.n) => Ascending(r)
  BY <1>1, <1>2, PushElements
<1>4. angle_data' = q \/ angle_data' = r
  BY DEF pose_callback
<1> HIDE DEF p, q, r
<1>5. angles.n <= p.n /\ p.n <= goals /\ Above(q, p.n)
  BY <1>1, <1>2 DEF Below, Above, Behind, p
<1>6. Below(angles.n, r) /\ Above(r, goals) /\ Ascending(r)
  BY <1>2, <1>3, <1>5 DEF Below, Above
<1>7. ASSUME NEW w \in Writers PROVE Behind(r, sent[w]) /\ Behind(q, sent[w])
  <2>1. Behind(q, sent[w]) /\ Behind(inbox, sent[w])
    BY DEF InOrder, q
  <2>2. Below(p.n, sent[w])
    BY <1>1, <2>1 DEF Behind, p
  <2> QED
    BY <1>3, <2>1, <2>2 DEF Behind
<1>8. /\ Below(angles.n, angle_data') /\ Above(angle_data', goals) /\ Ascending(angle_data')
      /\ \A w \in Writers : Behind(angle_data', sent[w])
  BY <1>2, <1>4, <1>6, <1>7
<1>9. \A s : Below(angles.n, inbox') /\ Above(inbox', goals) /\ Behind(s, inbox') /\ Behind(inbox', s)
  BY <1>1 DEF Below, Above, Behind
<1> QED
  BY <1>1, <1>8, <1>9 DEF InOrder, Below, Above, Ascending, Behind

\* The angles the gateway takes are the oldest of those that wait.
LEMMA AnglesCallbackInOrder ==
  ASSUME TypeOK, InOrder, angles_callback, arm' = arm
  PROVE  InOrder'
<1> DEFINE q == angle_data  h == Head(angle_data)  r == Tail(angle_data)
<1>1. /\ q \in Seq(Pose) /\ q # <<>>
      /\ Below(angles.n, q) /\ Above(q, goals) /\ Ascending(q) /\ Behind(q, inbox)
  BY DEF TypeOK, InOrder, angles_callback
<1>2. /\ h \in Pose
      /\ \E j \in 1 .. Len(q) : h = q[j]
      /\ \A i \in 1 .. Len(r) : \E j \in 1 .. Len(q) : r[i] = q[j]
      /\ Ascending(q) => Ascending(r) /\ Below(h.n, r)
  BY <1>1, TailElements
<1>3. angles' = h /\ angle_data' = r /\ UNCHANGED <<inbox, sent, goals>>
  BY DEF angles_callback
<1> HIDE DEF q, h, r
<1>4. angles.n <= h.n /\ h.n <= goals /\ Above(r, goals) /\ Ascending(r) /\ Below(h.n, r)
  BY <1>1, <1>2 DEF Below, Above
<1>5. Behind(r, inbox) /\ Below(h.n, inbox)
  BY <1>1, <1>2 DEF Behind
<1>6. \A w \in Writers : Behind(r, sent[w]) /\ Below(h.n, sent[w])
  <2> TAKE w \in Writers
  <2>1. Behind(q, sent[w])
    BY DEF InOrder, q
  <2> QED
    BY <1>2, <2>1 DEF Behind
<1>7. arm.n <= h.n
  <2>1. arm.n <= angles.n /\ arm.n \in Int /\ angles.n \in Int /\ h.n \in Int
    BY <1>2, BoundAssumption DEF InOrder, TypeOK, Pose
  <2> QED
    BY <1>4, <2>1
<1> QED
  BY <1>3, <1>4, <1>5, <1>6, <1>7 DEF InOrder, Below, Above, Ascending, Behind

\* The arm goes back to a pose of an earlier goal only if a leaf has given a goal up, a
\* callback has published after its goal, or poses of two publishers have crossed.
THEOREM BackNeedsCauseAlways == Spec => BackNeedsCause
<1>1. Init => Order
  BY DEF Init, Order, OneLine, InOrder, Start, Below, Above, Ascending, Behind
<1>2. TypeOK /\ Order /\ [Next]_vars => Order'
  <2> SUFFICES ASSUME TypeOK, Order, [Next]_vars PROVE Order'
    OBVIOUS
  <2>1. CASE Boot
    <3>1. /\ goals = 0 /\ goals' = goals
          /\ Publish("tree", [n |-> 0, at |-> Home])
          /\ UNCHANGED <<threads, pos_data, angles, arm, angle_data, inbox>>
          /\ client = "boot" /\ client' = "idle"
      BY <2>1 DEF Boot, Order, OneLine, pipeline
    <3>2. [n |-> 0, at |-> Home] \in Pose
      BY BoundAssumption, ReachAssumption DEF Pose, Home, Places
    <3>3. ~unordered' => ~unordered
      BY <3>1 DEF Publish, TypeOK
    <3>4. ~unordered' => InOrder'
      BY <3>1, <3>2, <3>3, PublishInOrder DEF Order, Writers
    <3>5. OneLine'
      BY <3>1, <3>3 DEF Order, OneLine
    <3> QED
      BY <3>4, <3>5 DEF Order
  <2>2. CASE SendMove \/ SendApproach
    <3>1. /\ client = "idle" /\ client' \in {"move", "approach"}
          /\ goals \in Int /\ goals' = goals + 1
          /\ UNCHANGED <<sent, unordered, angles, arm, angle_data, inbox>>
      BY <2>2, BoundAssumption DEF SendMove, SendApproach, pipeline, TypeOK
    <3>2. pos_data'.n <= goals'
      BY <2>2, <3>1, BoundAssumption DEF SendMove, SendApproach, Order, OneLine, TypeOK, Pose
    <3>3. ~unordered => threads = {}
      BY <3>1 DEF Order, OneLine
    <3>4. ~unordered => /\ \A t \in threads' : client' = "move" /\ t.n = goals'
                        /\ \A s, t \in threads' : s = t
      <4>1. CASE SendMove
        <5>1. PICK a \in Places, b \in Places :
                threads' = threads \cup {[n |-> goals', ahead |-> Between(a, b),
                                          to |-> b, first |-> TRUE]}
          BY <4>1 DEF SendMove
        <5>2. client' = "move"
          BY <4>1 DEF SendMove
        <5> DEFINE new == [n |-> goals', ahead |-> Between(a, b), to |-> b, first |-> TRUE]
        <5>3. new.n = goals'
          OBVIOUS
        <5>4. ~unordered => threads' = {new}
          BY <3>3, <5>1
        <5> HIDE DEF new
        <5> QED
          BY <5>2, <5>3, <5>4
      <4>2. CASE SendApproach
        BY <3>3, <4>2 DEF SendApproach
      <4> QED
        BY <2>2, <4>1, <4>2
    <3>5. InOrder => InOrder'
      <4> SUFFICES ASSUME InOrder PROVE InOrder'
        OBVIOUS
      <4>1. \A q \in Seq(Pose) : Above(q, goals) => Above(q, goals')
        <5> TAKE q \in Seq(Pose)
        <5>1. ASSUME NEW i \in 1 .. Len(q) PROVE q[i].n \in Int
          <6>1. q[i] \in Pose
            OBVIOUS
          <6> QED
            BY <6>1, BoundAssumption DEF Pose
        <5> QED
          BY <3>1, <5>1 DEF Above
      <4>2. Above(angle_data, goals') /\ Above(inbox, goals') /\ \A w \in Writers : Above(sent[w], goals')
        BY <4>1 DEF InOrder, TypeOK
      <4>3. angles.n <= goals'
        BY <3>1, BoundAssumption DEF InOrder, TypeOK, Pose
      <4> QED
        BY <3>1, <4>2, <4>3 DEF InOrder, Below, Above, Ascending, Behind
    <3> QED
      BY <3>1, <3>2, <3>4, <3>5 DEF Order, OneLine
  <2>3. CASE GiveUp
    BY <2>3 DEF GiveUp, Order, OneLine, pipeline
  <2>4. CASE MoveStep
    <3>1. PICK t \in threads : /\ Iterate(t) \/ IterateNaN(t)
                              /\ UNCHANGED <<goals, pos_data, callbacks, final, pipeline>>
      BY <2>4 DEF MoveStep
    <3>2. PICK x \in Places \cup {Undefined} : Publish("move", [n |-> t.n, at |-> x])
      BY <3>1 DEF Iterate, IterateNaN, TypeOK, Thread
    <3>3. [n |-> t.n, at |-> x] \in Pose
      BY DEF TypeOK, Thread, Pose
    <3>4. ~unordered' => ~unordered
      BY <3>2 DEF Publish, TypeOK
    <3>5. ~unordered => threads = {t} /\ t.n = goals /\ client = "move"
      BY DEF Order, OneLine
    <3>6. ~unordered' => InOrder'
      BY <3>1, <3>2, <3>3, <3>4, <3>5, PublishInOrder DEF Order, Writers, pipeline
    <3>7. ~unordered => /\ \A s \in threads' : client' = "move" /\ s.n = goals
                        /\ \A s, u \in threads' : s = u
      <4> SUFFICES ASSUME ~unordered PROVE /\ \A s \in threads' : client' = "move" /\ s.n = goals
                                           /\ \A s, u \in threads' : s = u
        OBVIOUS
      <4>1. t \in Thread
        BY DEF TypeOK
      <4>2. CASE Iterate(t)
        <5>1. PICK y \in t.ahead : Goes(t, y)
          BY <4>2 DEF Iterate
        <5>2. CASE y = t.to
          BY <3>5, <5>1, <5>2 DEF Goes
        <5>3. CASE y # t.to
          <6>1. client' = client
            BY <5>1, <5>3 DEF Goes
          <6>2. \E v : v.n = t.n /\ threads' = (threads \ {t}) \cup {v}
            <7> DEFINE rest == {z \in t.ahead : (y <= z /\ z <= t.to) \/ (t.to <= z /\ z <= y)} \ {y}
                       v    == [t EXCEPT !.ahead = rest, !.first = FALSE]
            <7>1. threads' = (threads \ {t}) \cup {v}
              BY <5>1, <5>3 DEF Goes
            <7>2. v.n = t.n
              BY <4>1 DEF Thread
            <7> HIDE DEF v
            <7> QED
              BY <7>1, <7>2
          <6> QED
            BY <3>5, <6>1, <6>2
        <5> QED
          BY <5>2, <5>3
      <4>3. CASE IterateNaN(t)
        <5>1. [t EXCEPT !.first = FALSE].n = t.n
          BY <4>1 DEF Thread
        <5> QED
          BY <3>5, <4>3, <5>1 DEF IterateNaN
      <4> QED
        BY <3>1, <4>2, <4>3
    <3>8. client' = "boot" => client = "boot"
      BY <3>1 DEF Iterate, IterateNaN, Goes
    <3> QED
      BY <3>1, <3>4, <3>6, <3>7, <3>8 DEF Order, OneLine
  <2>5. CASE PublishPos
    <3>1. /\ Publish("approach", pos_data) /\ pos_data \in Pose /\ pos_data.n <= goals
          /\ UNCHANGED <<client, goals, threads, pos_data, angles, arm, angle_data, inbox>>
      BY <2>5 DEF PublishPos, Order, OneLine, TypeOK, pipeline
    <3>2. ~unordered' => ~unordered /\ ~(pos_data.n < goals)
      BY <3>1 DEF Publish, TypeOK
    <3>3. ~unordered' => pos_data.n = goals
      BY <3>1, <3>2, BoundAssumption DEF TypeOK, Pose
    <3>4. ~unordered' => InOrder'
      BY <3>1, <3>2, <3>3, PublishInOrder DEF Order, Writers
    <3> QED
      BY <3>1, <3>2, <3>4 DEF Order, OneLine
  <2>6. CASE Control
    <3>1. pos_data'.n = pos_data.n
      BY <2>6 DEF Control, TypeOK, Pose
    <3> QED
      BY <2>6, <3>1
      DEF Control, pipeline, Order, OneLine, InOrder, Below, Above, Ascending, Behind
  <2>7. CASE Finish
    <3>1. ~unordered => threads = {}
      BY <2>7 DEF Finish, Order, OneLine
    <3> QED
      BY <2>7, <3>1
      DEF Finish, pipeline, Order, OneLine, InOrder, Below, Above, Ascending, Behind
  <2>8. ASSUME NEW w \in Writers, Arrive(w) PROVE Order'
    <3>1. ~unordered => InOrder'
      BY <2>8, ArriveInOrder DEF Order
    <3> QED
      BY <2>8, <3>1 DEF Arrive, Order, OneLine
  <2>9. CASE pose_callback
    <3>1. ~unordered => InOrder'
      BY <2>9, PoseCallbackInOrder DEF Order
    <3> QED
      BY <2>9, <3>1 DEF pose_callback, Order, OneLine
  <2>10. CASE angles_callback
    <3>1. ~unordered => InOrder'
      BY <2>10, AnglesCallbackInOrder DEF Order, angles_callback
    <3> QED
      BY <2>10, <3>1 DEF angles_callback, Order, OneLine
  <2>11. CASE timer_callback
    <3>1. angles.n <= angles.n
      BY BoundAssumption DEF TypeOK, Pose
    <3> QED
      BY <2>11, <3>1
      DEF timer_callback, Order, OneLine, InOrder, Below, Above, Ascending, Behind
  <2>12. CASE UNCHANGED vars
    BY <2>12 DEF vars, Order, OneLine, InOrder, Below, Above, Ascending, Behind
  <2> QED
    BY <2>1, <2>2, <2>3, <2>4, <2>5, <2>6, <2>7, <2>8, <2>9, <2>10, <2>11, <2>12
    DEF Next, Tree, Approach, Gateway
<1>3. TypeOK /\ Order /\ [Next]_vars => [arm'.n < arm.n => unordered]_vars
  <2> SUFFICES ASSUME TypeOK, Order, Next, arm'.n < arm.n, ~unordered PROVE FALSE
    OBVIOUS
  <2>1. arm.n \in Int /\ angles.n \in Int /\ arm.n <= angles.n
    BY BoundAssumption DEF TypeOK, Pose, Order, InOrder
  <2>2. arm' = arm \/ arm' = angles
    BY DEF Next, Tree, Boot, SendMove, SendApproach, GiveUp, MoveStep, Approach, Control, Finish,
           PublishPos, Arrive, pose_callback, Gateway, angles_callback, timer_callback, pipeline
  <2> QED
    BY <2>1, <2>2
<1> QED
  BY <1>1, <1>2, <1>3, TypeCorrect, PTL DEF Spec, BackNeedsCause
=============================================================================
