------------------------- MODULE RosActionNodeProofs -------------------------
(***************************************************************************)
(* What holds of the action leaves for every number of leaves and goals.   *)
(***************************************************************************)
EXTENDS RosActionNode, TLAPS

\* Every member keeps its type; in particular the tree's thread is inside tick()
\* or halt() exactly when `ticking' names the leaf.
LEMMA TypesAlways == Spec => []Types
<1>1. Init => Types
  <2> SUFFICES ASSUME Init PROVE Types
    OBVIOUS
  <2>1. /\ status \in [Leaves -> {"IDLE", "RUNNING", "SUCCESS", "FAILURE"}]
        /\ goal_received \in [Leaves -> BOOLEAN]
        /\ result \in [Leaves -> Codes \cup {"UNKNOWN"}]
    BY DEF Init
  <2>2. /\ future \in [Leaves -> Goals \cup {NoGoal}]
        /\ goal_handle \in [Leaves -> Goals \cup {NoGoal}]
    BY DEF Init
  <2>3. sent \in 0 .. MaxGoals
    BY GoalAssumption DEF Init
  <2> QED
    BY <2>1, <2>2, <2>3 DEF Init, Types
<1>2. Types /\ [Next]_vars => Types'
  <2> SUFFICES ASSUME Types, [Next]_vars PROVE Types'
    OBVIOUS
  <2> USE GoalAssumption, LeafAssumption
  <2>1. ASSUME NEW l \in Leaves, LeafStep(l) PROVE Types'
    <3>1. CASE Start(l)
      <4>1. CASE sent' = sent
        BY <3>1, <4>1 DEF Types, Start, InTree, tickVars
      <4>2. CASE sent < MaxGoals /\ sent' = sent + 1
        <5>1. sent + 1 \in Goals /\ sent' \in 0 .. MaxGoals
          BY <4>2 DEF Types, Goals
        <5> QED
          BY <3>1, <4>2, <5>1 DEF Types, Start, InTree, tickVars
      <4> QED
        BY <3>1, <4>1, <4>2 DEF Start
    <3>2. CASE BeginTick(l)
      BY <3>2 DEF Types, BeginTick, InTree, leafVars
    <3>3. CASE SpinSomeIdle(l)
      BY <3>3 DEF Types, SpinSomeIdle, At, NoEvent, leafVars
    <3>4. CASE SpinSomeEvent(l)
      BY <3>4 DEF Types, SpinSomeEvent, At, Event, GoalResponse, ResultCallback, leafVars, Codes
    <3>5. CASE SpinForAnswer(l)
      BY <3>5 DEF Types, SpinForAnswer, At, Event, GoalResponse, ResultCallback, NoEvent,
                   leafVars, Codes, tickVars
    <3>6. CASE StillWaiting(l)
      BY <3>6 DEF Types, StillWaiting, At, Leave, leafVars
    <3>7. CASE SendGoalTimeout(l)
      BY <3>7 DEF Types, SendGoalTimeout, At, Leave, Answered, NoGoal, Goals
    <3>8. CASE GoalRejected(l)
      BY <3>8 DEF Types, GoalRejected, At, Leave, TakeHandle
    <3>9. CASE GoalAccepted(l)
      BY <3>9 DEF Types, GoalAccepted, At, TakeHandle, tickVars
    <3>10. CASE Conclude(l)
      BY <3>10 DEF Types, Conclude, At, Leave
    <3>11. CASE TickAfterShutdown(l)
      BY <3>11 DEF Types, TickAfterShutdown, InTree, tickVars
    <3>12. CASE ResetLeaf(l)
      BY <3>12 DEF Types, ResetLeaf, InTree, tickVars
    <3>13. CASE HaltLeaf(l)
      BY <3>13 DEF Types, HaltLeaf, InTree, leafVars
    <3>14. CASE CancelGoal(l)
      BY <3>14 DEF Types, CancelGoal, At, leafVars
    <3>15. CASE CancelSpin(l)
      BY <3>15 DEF Types, CancelSpin, At, Event, GoalResponse, ResultCallback, leafVars, tickVars, Codes
    <3>16. CASE CancelTakeHandle(l)
      BY <3>16 DEF Types, CancelTakeHandle, At
    <3>17. CASE CancelSend(l)
      BY <3>17 DEF Types, CancelSend, At, leafVars
    <3>18. CASE CancelAnswered(l)
      BY <3>18 DEF Types, CancelAnswered, At, leafVars
    <3>19. CASE CancelReturn(l)
      BY <3>19 DEF Types, CancelReturn, At, Leave
    <3> QED
      BY <2>1, <3>1, <3>2, <3>3, <3>4, <3>5, <3>6, <3>7, <3>8, <3>9, <3>10, <3>11, <3>12, <3>13, <3>14, <3>15, <3>16, <3>17, <3>18, <3>19
      DEF LeafStep, Decide, Cancelling

  <2>2. ASSUME NEW g \in Goals, ServerStep(g) PROVE Types'
    <3>1. CASE ServerGoal(g)
      BY <3>1 DEF Types, ServerGoal, serverUnchanged, leafVars, tickVars, Accepted, Live
    <3>2. CASE ServerCancel(g)
      BY <3>2 DEF Types, ServerCancel, serverUnchanged, leafVars, tickVars, Accepted, Live
    <3>3. CASE ServerFinish(g)
      BY <3>3, EnvAssumption
      DEF Types, ServerFinish, serverUnchanged, leafVars, tickVars, Accepted
    <3> QED
      BY <2>2, <3>1, <3>2, <3>3 DEF ServerStep
  <2>3. CASE Shutdown
    BY <2>3 DEF Types, Shutdown, leafVars, tickVars
  <2>4. CASE UNCHANGED vars
    BY <2>4 DEF Types, vars
  <2> QED
    BY <2>1, <2>2, <2>3, <2>4 DEF Next
<1> QED
  BY <1>1, <1>2, PTL DEF Spec

-----------------------------------------------------------------------------
(* The inductive invariant behind SuccessIsOwn, where no leaf is halted.   *)

\* The tree runs one leaf, and its thread is only ever inside that one.
OneRuns ==
  /\ \A l, k \in Leaves : status[l] = "RUNNING" /\ status[k] = "RUNNING" => l = k
  /\ ticking # NoLeaf => status[ticking] = "RUNNING"
  /\ phase \in {"cancel", "hfuture", "hsend", "hcancel", "hresult"} => ~ok
  /\ phase = "hfuture" => goal_handle[ticking] = NoGoal

\* Goals not sent yet are unknown to everyone; a leaf holds goals it sent.
GoalsOwned ==
  /\ \A g \in Goals : IF g > sent THEN client[g] = "none" /\ server[g] = "unsent"
                                    ELSE owner[g] \in Leaves
  /\ \A l \in Leaves :
       /\ goal_handle[l] <= sent
       /\ future[l] <= sent
       /\ goal_handle[l] # NoGoal => owner[goal_handle[l]] = l
       /\ future[l] # NoGoal => owner[future[l]] = l

\* What a leaf that runs, or has succeeded, holds.
HandleTaken ==
  \A l \in Leaves :
    /\ status[l] \in {"RUNNING", "SUCCESS"} /\ goal_received[l]
         => goal_handle[l] # NoGoal /\ future[l] = NoGoal
    /\ status[l] = "SUCCESS" => goal_received[l] /\ result[l] = "SUCCEEDED"

\* While rclcpp is up, the client has forgotten the goal of every handle a leaf
\* kept from an earlier activation, so no result comes for it any more.
StaleIsDone ==
  ok => \A l \in Leaves :
          goal_handle[l] # NoGoal /\ ~(status[l] = "RUNNING" /\ goal_received[l])
            => client[goal_handle[l]] = "done"

\* result_ is the result of the goal of goal_handle_.
ResultOfHandle ==
  \A l \in Leaves :
    result[l] # "UNKNOWN" => /\ goal_received[l]
                             /\ goal_handle[l] # NoGoal
                             /\ server[goal_handle[l]] = result[l]
                             /\ client[goal_handle[l]] = "done"

LeafInv == OneRuns /\ GoalsOwned /\ HandleTaken /\ StaleIsDone /\ ResultOfHandle

\* One event of the client, handled while a leaf is ticked, keeps the invariant.
LEMMA EventInv ==
  ASSUME Types, LeafInv, ok, NEW g \in Goals, Event(g),
         phase' \in {"wait", "decide"},
         UNCHANGED <<leafVars, ticking, ok, sent, owner, server>>
  PROVE  LeafInv'
<1> USE DEF leafVars, NoGoal
<1>1. CASE GoalResponse(g)
  BY <1>1 DEF GoalResponse, LeafInv, OneRuns, GoalsOwned, HandleTaken, StaleIsDone,
              ResultOfHandle, Types
<1>2. CASE ResultCallback(g)
  <2> DEFINE l == owner[g]
  <2>1. /\ l \in Leaves
        /\ client[g] = "accepted" /\ server[g] \in Codes
        /\ client' = [client EXCEPT ![g] = "done"]
        /\ result' = IF goal_handle[l] = g
                     THEN [result EXCEPT ![l] = server[g]] ELSE result
    BY <1>2 DEF ResultCallback, LeafInv, GoalsOwned, Types
  <2>2. OneRuns' /\ GoalsOwned'
    BY <2>1 DEF LeafInv, OneRuns, GoalsOwned, Types
  <2>3. HandleTaken'
    BY <2>1 DEF LeafInv, HandleTaken, StaleIsDone, ResultOfHandle, Types
  <2>4. StaleIsDone'
    BY <2>1 DEF LeafInv, StaleIsDone, Types
  <2>5. ResultOfHandle'
    <3> SUFFICES ASSUME NEW k \in Leaves, result'[k] # "UNKNOWN"
                 PROVE  /\ goal_received[k] /\ goal_handle[k] # NoGoal
                        /\ server[goal_handle[k]] = result'[k]
                        /\ client'[goal_handle[k]] = "done"
      BY DEF ResultOfHandle
    <3>1. CASE k = l /\ goal_handle[l] = g
      BY <2>1, <3>1 DEF LeafInv, StaleIsDone, Types, Goals
    <3>2. CASE ~(k = l /\ goal_handle[l] = g)
      BY <2>1, <3>2 DEF LeafInv, ResultOfHandle, Types
    <3> QED
      BY <3>1, <3>2
  <2> QED
    BY <2>2, <2>3, <2>4, <2>5 DEF LeafInv
<1> QED
  BY <1>1, <1>2 DEF Event

\* Every step keeps LeafInv, as long as no leaf is halted while rclcpp runs: the
\* two ways a leaf gets a result that is not its goal's, a handle kept from the
\* activation before and a result still to come for it, exclude each other.
LEMMA LeafInvStep ==
  ASSUME ~Halting, Types, LeafInv, [Next]_vars
  PROVE  LeafInv'
<1> USE LeafAssumption DEF LeafInv, OneRuns, GoalsOwned, HandleTaken, StaleIsDone,
        ResultOfHandle, Types, NoGoal
<1>1. ASSUME NEW l \in Leaves, LeafStep(l) PROVE LeafInv'
  <2>1. CASE Start(l)
    <3>1. CASE sent' = sent
      BY <2>1, <3>1 DEF Start, InTree, tickVars
    <3>2. CASE sent < MaxGoals /\ sent' = sent + 1
      <4>1. sent + 1 \in Goals /\ sent \in Nat
        BY <3>2, GoalAssumption DEF Goals
      <4>2. /\ status[l] = "IDLE" /\ phase' = phase /\ ticking' = ticking
            /\ UNCHANGED <<goal_handle, ok>>
            /\ phase = "out"
            /\ \A k \in Leaves : status[k] # "RUNNING"
            /\ goal_received' = [goal_received EXCEPT ![l] = FALSE]
            /\ result' = [result EXCEPT ![l] = "UNKNOWN"]
            /\ status' = [status EXCEPT ![l] = "RUNNING"]
            /\ future' = [future EXCEPT ![l] = sent + 1]
            /\ owner' = [owner EXCEPT ![sent + 1] = l]
            /\ client' = [client EXCEPT ![sent + 1] = "awaiting"]
            /\ server' = [server EXCEPT ![sent + 1] = "requested"]
        BY <2>1, <3>2 DEF Start, InTree, tickVars
      <4>3. \A g \in Goals \cup {NoGoal} : g <= sent =>
              g # sent + 1
        BY <4>1 DEF Goals
      <4>4. OneRuns'
        BY <4>2
      <4>5. GoalsOwned'
        BY <4>1, <4>2, <4>3, <3>2 DEF Goals
      <4>6. HandleTaken'
        BY <4>2
      <4>7. StaleIsDone' /\ ResultOfHandle'
        BY <4>1, <4>2, <4>3
      <4> QED
        BY <4>4, <4>5, <4>6, <4>7
    <3> QED
      BY <2>1, <3>1, <3>2 DEF Start
  <2>2. CASE BeginTick(l)
    BY <2>2 DEF BeginTick, InTree, leafVars
  <2>3. CASE SpinSomeIdle(l)
    BY <2>3 DEF SpinSomeIdle, At, NoEvent, leafVars
  <2>4. CASE SpinSomeEvent(l)
    BY <2>4, EventInv DEF SpinSomeEvent, leafVars
  <2>5. CASE SpinForAnswer(l)
    <3>1. CASE NoEvent
      BY <2>5, <3>1 DEF SpinForAnswer, At, NoEvent, leafVars
    <3>2. CASE ok /\ \E g \in Goals : Event(g)
      BY <2>5, <3>2, EventInv DEF SpinForAnswer, leafVars
    <3> QED
      BY <2>5, <3>1, <3>2 DEF SpinForAnswer
  <2>6. CASE StillWaiting(l)
    BY <2>6 DEF StillWaiting, At, Leave, leafVars
  <2>7. CASE SendGoalTimeout(l)
    BY <2>7 DEF SendGoalTimeout, At, Leave
  <2>8. CASE GoalRejected(l)
    BY <2>8 DEF GoalRejected, At, Leave, TakeHandle
  <2>9. CASE GoalAccepted(l)
    BY <2>9 DEF GoalAccepted, At, TakeHandle, tickVars, Answered
  <2>10. CASE Conclude(l)
    BY <2>10 DEF Conclude, At, Leave
  <2>11. CASE TickAfterShutdown(l)
    BY <2>11 DEF TickAfterShutdown, InTree, tickVars
  <2>12. CASE ResetLeaf(l)
    BY <2>12 DEF ResetLeaf, InTree, tickVars
  <2>13. CASE HaltLeaf(l)
    BY <2>13 DEF HaltLeaf, InTree, leafVars
  <2>14. CASE CancelGoal(l)
    BY <2>14 DEF CancelGoal, At, leafVars
  <2>15. CASE CancelSpin(l)
    BY <2>15 DEF CancelSpin, At
  <2>16. CASE CancelTakeHandle(l)
    BY <2>16 DEF CancelTakeHandle, At
  <2>17. CASE CancelSend(l)
    BY <2>17 DEF CancelSend, At, leafVars
  <2>18. CASE CancelAnswered(l)
    BY <2>18 DEF CancelAnswered, At, leafVars
  <2>19. CASE CancelReturn(l)
    BY <2>19 DEF CancelReturn, At, Leave
  <2> QED
    BY <1>1, <2>1, <2>2, <2>3, <2>4, <2>5, <2>6, <2>7, <2>8, <2>9, <2>10, <2>11, <2>12, <2>13, <2>14, <2>15, <2>16, <2>17, <2>18, <2>19
    DEF LeafStep, Decide, Cancelling
<1>2. ASSUME NEW g \in Goals, ServerStep(g) PROVE LeafInv'
  <2>1. CASE ServerGoal(g)
    BY <2>1 DEF ServerGoal, serverUnchanged, leafVars, tickVars, Codes
  <2>2. CASE ServerCancel(g)
    BY <2>2 DEF ServerCancel, serverUnchanged, leafVars, tickVars, Codes
  <2>3. CASE ServerFinish(g)
    BY <2>3 DEF ServerFinish, serverUnchanged, leafVars, tickVars, Codes, Live
  <2> QED
    BY <1>2, <2>1, <2>2, <2>3 DEF ServerStep
<1>3. CASE Shutdown
  BY <1>3 DEF Shutdown, leafVars, tickVars
<1>4. CASE UNCHANGED vars
  BY <1>4 DEF vars
<1> QED
  BY <1>1, <1>2, <1>3, <1>4 DEF Next

\* For every number of leaves and goals, a leaf that nobody halts reports SUCCESS
\* only for the goal its own activation sent, however late answers and results
\* of goals given up by a SEND_GOAL_TIMEOUT are handled.
THEOREM SuccessIsOwnAlways ==
  ASSUME ~Halting
  PROVE  Spec => []SuccessIsOwn
<1>1. Init => LeafInv
  BY DEF Init, LeafInv, OneRuns, GoalsOwned, HandleTaken, StaleIsDone,
         ResultOfHandle, NoGoal, Goals
<1>2. Types /\ LeafInv => SuccessIsOwn
  BY DEF Types, LeafInv, HandleTaken, ResultOfHandle, SuccessIsOwn, CurrentGoal
<1> QED
  BY <1>1, <1>2, LeafInvStep, TypesAlways, PTL DEF Spec

-----------------------------------------------------------------------------
(* Goals and results where no leaf is halted while rclcpp runs             *)

\* What the client has handled of a goal is what the server has said of it.
ClientServer ==
  \A g \in Goals : /\ client[g] = "none" => server[g] = "unsent"
                   /\ client[g] = "rejected" => server[g] = "rejected"
                   /\ client[g] = "done" => server[g] \in Codes

\* A leaf that runs and has no answer yet waits for one.
RunningWaits ==
  \A l \in Leaves : status[l] = "RUNNING" /\ ~goal_received[l] => future[l] # NoGoal

\* An answer that was handled is taken in the same tick, before any other event.
AnswerTaken ==
  \A l \in Leaves :
    status[l] = "RUNNING" /\ future[l] # NoGoal /\ client[future[l]] # "awaiting"
      => ticking = l /\ phase \in {"wait", "decide"}

\* The goal a client still expects something of is the running leaf's own, or
\* was given up.
Pending ==
  \A g \in Goals \ abandoned :
    client[g] \in {"awaiting", "accepted"}
      => status[owner[g]] = "RUNNING" /\ CurrentGoal(owner[g]) = g

GoalInv == /\ ClientServer /\ RunningWaits /\ AnswerTaken /\ Pending
           /\ ResultNotLost /\ CrashNeedsTimeout

\* The goal of a leaf that runs is a goal it sent.
LEMMA RunningHasGoal ==
  ASSUME Types, LeafInv, RunningWaits, NEW l \in Leaves, status[l] = "RUNNING"
  PROVE  CurrentGoal(l) \in Goals /\ owner[CurrentGoal(l)] = l /\ CurrentGoal(l) <= sent
BY DEF Types, LeafInv, HandleTaken, GoalsOwned, RunningWaits, CurrentGoal

\* An answer that comes while a leaf is ticked keeps GoalInv.
LEMMA ResponseGoalInv ==
  ASSUME Types, LeafInv, GoalInv, ok, NEW g \in Goals, GoalResponse(g),
         ticking # NoLeaf, phase' \in {"wait", "decide"},
         UNCHANGED <<leafVars, ticking, ok, sent, owner, server, abandoned>>
  PROVE  GoalInv'
<1> USE DEF leafVars
<1>1. /\ client[g] = "awaiting" /\ server[g] \in Accepted \cup {"rejected"}
      /\ client' = [client EXCEPT ![g] = IF server[g] = "rejected" THEN "rejected" ELSE "accepted"]
      /\ UNCHANGED <<result, crashed>>
  BY DEF GoalResponse
<1>2. ClientServer' /\ RunningWaits'
  BY <1>1 DEF GoalInv, ClientServer, RunningWaits, Types
<1>3. AnswerTaken'
  BY <1>1 DEF GoalInv, AnswerTaken, LeafInv, OneRuns, Types
<1>4. Pending'
  BY <1>1 DEF GoalInv, Pending, CurrentGoal, Types
<1>5. ResultNotLost'
  <2> SUFFICES ASSUME NEW l \in Leaves, status[l] = "RUNNING", client'[CurrentGoal(l)] = "done"
               PROVE  result[l] = server[CurrentGoal(l)]
    BY <1>1 DEF ResultNotLost, CurrentGoal
  <2>1. CurrentGoal(l) \in Goals
    BY RunningHasGoal DEF GoalInv
  <2>2. client[CurrentGoal(l)] = "done"
    BY <1>1, <2>1 DEF Types
  <2> QED
    BY <2>2 DEF GoalInv, ResultNotLost
<1>6. CrashNeedsTimeout'
  BY <1>1 DEF GoalInv, CrashNeedsTimeout
<1> QED
  BY <1>2, <1>3, <1>4, <1>5, <1>6 DEF GoalInv

\* A result that comes while a leaf is ticked keeps GoalInv: if it is for the
\* running goal the leaf has its handle, because no answer is waiting to be taken.
LEMMA ResultGoalInv ==
  ASSUME Types, LeafInv, GoalInv, ok, NEW g \in Goals, ResultCallback(g),
         ticking \in Leaves, phase = "spin" \/ ~Answered(ticking), phase' \in {"wait", "decide"},
         UNCHANGED <<leafVars, ticking, ok, sent, owner, server, abandoned>>
  PROVE  GoalInv'
<1> USE DEF leafVars
<1>1. /\ client[g] = "accepted" /\ server[g] \in Codes
      /\ client' = [client EXCEPT ![g] = "done"]
      /\ crashed' = (goal_handle[owner[g]] = NoGoal)
      /\ result' = IF goal_handle[owner[g]] = g
                   THEN [result EXCEPT ![owner[g]] = server[g]] ELSE result
  BY DEF ResultCallback
<1>2. ClientServer' /\ RunningWaits'
  BY <1>1 DEF GoalInv, ClientServer, RunningWaits, Types
<1>3. AnswerTaken'
  BY <1>1 DEF GoalInv, AnswerTaken, LeafInv, OneRuns, Types
<1>4. Pending'
  BY <1>1 DEF GoalInv, Pending, CurrentGoal, Types
<1>5. \A l \in Leaves : status[l] = "RUNNING" => future[l] # g
  <2> SUFFICES ASSUME NEW l \in Leaves, status[l] = "RUNNING", future[l] = g PROVE FALSE
    OBVIOUS
  <2>1. ticking = l /\ phase \in {"wait", "decide"}
    BY <1>1 DEF GoalInv, AnswerTaken, Goals, NoGoal
  <2>2. Answered(ticking)
    BY <1>1, <2>1 DEF Answered, Goals, NoGoal
  <2> QED
    BY <2>1, <2>2
<1>6. ResultNotLost'
  <2> SUFFICES ASSUME NEW l \in Leaves, status[l] = "RUNNING", client'[CurrentGoal(l)] = "done"
               PROVE  result'[l] = server[CurrentGoal(l)]
    BY <1>1 DEF ResultNotLost, CurrentGoal
  <2>1. CurrentGoal(l) \in Goals /\ owner[CurrentGoal(l)] = l
    BY RunningHasGoal DEF GoalInv
  <2>2. CASE CurrentGoal(l) = g
    <3>1. goal_handle[l] = g /\ owner[g] = l
      BY <1>5, <2>1, <2>2 DEF CurrentGoal
    <3> QED
      BY <1>1, <2>2, <3>1 DEF Types
  <2>3. CASE CurrentGoal(l) # g
    <3>1. result[l] = server[CurrentGoal(l)]
      BY <1>1, <2>1, <2>3 DEF GoalInv, ResultNotLost, Types
    <3>2. goal_handle[l] # g \/ future[l] # NoGoal
      BY <2>3 DEF CurrentGoal
    <3>3. goal_handle[l] # g
      BY <1>1, <3>2 DEF LeafInv, StaleIsDone, HandleTaken, Goals, NoGoal
    <3> QED
      BY <1>1, <3>1, <3>3 DEF Types
  <2> QED
    BY <2>2, <2>3
<1>7. CrashNeedsTimeout'
  <2>1. ASSUME abandoned = {} PROVE goal_handle[owner[g]] # NoGoal
    <3>1. status[owner[g]] = "RUNNING" /\ CurrentGoal(owner[g]) = g
      BY <1>1, <2>1 DEF GoalInv, Pending
    <3>2. owner[g] \in Leaves
      BY <1>1 DEF LeafInv, GoalsOwned, Types
    <3> QED
      BY <1>5, <3>1, <3>2 DEF CurrentGoal, Goals, NoGoal
  <2> QED
    BY <1>1, <2>1 DEF CrashNeedsTimeout
<1> QED
  BY <1>2, <1>3, <1>4, <1>6, <1>7 DEF GoalInv

\* Every step keeps GoalInv, as long as no leaf is halted while rclcpp runs.
LEMMA GoalInvStep ==
  ASSUME ~Halting, Types, LeafInv, GoalInv, [Next]_vars
  PROVE  GoalInv'
<1> USE LeafAssumption DEF GoalInv, ClientServer, RunningWaits, AnswerTaken, Pending, ResultNotLost,
        CrashNeedsTimeout, CurrentGoal, NoGoal
<1>0. \A l \in Leaves : status[l] = "RUNNING" => CurrentGoal(l) \in Goals
  BY RunningHasGoal
<1>1. ASSUME NEW l \in Leaves, LeafStep(l) PROVE GoalInv'
  <2>0. phase \in {"cancel", "hfuture", "hsend", "hcancel", "hresult"} => ~ok
    BY DEF LeafInv, OneRuns
  <2>00. \A k \in Leaves : ticking = l /\ status[k] = "RUNNING" => k = l
    BY DEF LeafInv, OneRuns
  <2>1. CASE Start(l)
    <3>1. phase = "out" /\ \A k \in Leaves : status[k] # "RUNNING"
      BY <2>1 DEF Start, InTree
    <3>2. CASE sent' = sent
      BY <2>1, <3>1, <3>2 DEF Start, InTree, tickVars, Types, LeafInv, GoalsOwned
    <3>3. CASE sent < MaxGoals /\ sent' = sent + 1
      <4>1. sent + 1 \in Goals /\ sent \in Nat
        BY <3>3, GoalAssumption DEF Goals, Types
      <4>2. /\ UNCHANGED <<goal_handle, ok, crashed, abandoned, phase, ticking>>
            /\ goal_received' = [goal_received EXCEPT ![l] = FALSE]
            /\ result' = [result EXCEPT ![l] = "UNKNOWN"]
            /\ status' = [status EXCEPT ![l] = "RUNNING"]
            /\ future' = [future EXCEPT ![l] = sent + 1]
            /\ owner' = [owner EXCEPT ![sent + 1] = l]
            /\ client' = [client EXCEPT ![sent + 1] = "awaiting"]
            /\ server' = [server EXCEPT ![sent + 1] = "requested"]
        BY <2>1, <3>3 DEF Start, InTree, tickVars
      <4>3. ClientServer'
        BY <4>1, <4>2 DEF Types
      <4>4. RunningWaits' /\ AnswerTaken'
        BY <3>1, <4>1, <4>2 DEF Types
      <4>5. \A g \in Goals \ abandoned : g # sent + 1 => client[g] \notin {"awaiting", "accepted"}
        <5> SUFFICES ASSUME NEW g \in Goals \ abandoned, g # sent + 1, client[g] \in {"awaiting", "accepted"}
                     PROVE  FALSE
          OBVIOUS
        <5>1. owner[g] \in Leaves
          BY DEF LeafInv, GoalsOwned
        <5> QED
          BY <3>1, <5>1
      <4>6. Pending'
        BY <4>1, <4>2, <4>5 DEF Types, Goals
      <4>7. ResultNotLost'
        BY <3>1, <4>1, <4>2 DEF Types, Goals
      <4> QED
        BY <4>2, <4>3, <4>4, <4>6, <4>7
    <3> QED
      BY <2>1, <3>2, <3>3 DEF Start
  <2>2. CASE BeginTick(l)
    BY <2>2 DEF BeginTick, InTree, leafVars
  <2>3. CASE SpinSomeIdle(l)
    BY <2>3 DEF SpinSomeIdle, At, NoEvent, leafVars
  <2>4. CASE SpinSomeEvent(l)
    BY <2>4, ResponseGoalInv, ResultGoalInv DEF SpinSomeEvent, At, Event, leafVars
  <2>5. CASE SpinForAnswer(l)
    <3>1. CASE NoEvent
      BY <2>5, <3>1 DEF SpinForAnswer, At, NoEvent, leafVars
    <3>2. CASE ok /\ ~Answered(l) /\ \E g \in Goals : Event(g)
      BY <2>5, <3>2, ResponseGoalInv, ResultGoalInv DEF SpinForAnswer, At, Event, leafVars
    <3> QED
      BY <2>5, <3>1, <3>2 DEF SpinForAnswer
  <2>6. CASE StillWaiting(l)
    BY <2>6, <2>00 DEF StillWaiting, At, Leave, leafVars, Answered
  <2>7. CASE SendGoalTimeout(l)
    <3>1. status[l] = "RUNNING" /\ CurrentGoal(l) = future[l] /\ future[l] \in Goals
      BY <2>7, <1>0 DEF SendGoalTimeout, At, LeafInv, OneRuns
    <3>2. abandoned' = abandoned \cup {future[l]}
      BY <2>7, <3>1 DEF SendGoalTimeout
    <3> QED
      BY <2>7, <2>00, <3>1, <3>2 DEF SendGoalTimeout, At, Leave, Types
  <2>8. CASE GoalRejected(l)
    BY <2>8, <2>00 DEF GoalRejected, At, Leave, TakeHandle, Types
  <2>9. CASE GoalAccepted(l)
    BY <2>9, <2>00 DEF GoalAccepted, At, TakeHandle, tickVars, Answered, Types
  <2>10. CASE Conclude(l)
    BY <2>10, <2>00 DEF Conclude, At, Leave, Types, LeafInv, HandleTaken, ResultOfHandle, OneRuns
  <2>11. CASE TickAfterShutdown(l)
    <3>1. CASE status[l] = "IDLE"
      <4>1. /\ \A k \in Leaves : status[k] # "RUNNING" /\ status'[k] # "RUNNING"
            /\ UNCHANGED <<client, abandoned, ok, crashed, owner, server>>
        BY <2>11, <3>1 DEF TickAfterShutdown, Types
      <4>2. \A g \in Goals \ abandoned : client[g] \notin {"awaiting", "accepted"}
        BY <4>1 DEF LeafInv, GoalsOwned
      <4> QED
        BY <4>1, <4>2
    <3>2. CASE status[l] = "RUNNING"
      BY <2>11, <3>2 DEF TickAfterShutdown, InTree
    <3> QED
      BY <2>11, <3>1, <3>2 DEF TickAfterShutdown
  <2>12. CASE ResetLeaf(l)
    BY <2>12 DEF ResetLeaf, InTree, tickVars, Types
  <2>13. CASE HaltLeaf(l)
    BY <2>13 DEF HaltLeaf, InTree, leafVars
  <2>14. CASE CancelGoal(l)
    BY <2>14 DEF CancelGoal, At, leafVars
  <2>15. CASE CancelSpin(l)
    BY <2>15, <2>0 DEF CancelSpin, At
  <2>16. CASE CancelTakeHandle(l)
    BY <2>16 DEF CancelTakeHandle, At, Answered, LeafInv, OneRuns
  <2>17. CASE CancelSend(l)
    BY <2>17, <2>0 DEF CancelSend, At, leafVars
  <2>18. CASE CancelAnswered(l)
    BY <2>18 DEF CancelAnswered, At, leafVars
  <2>19. CASE CancelReturn(l)
    BY <2>19, <2>00, <2>0 DEF CancelReturn, At, Leave, Types
  <2> QED
    BY <1>1, <2>1, <2>2, <2>3, <2>4, <2>5, <2>6, <2>7, <2>8, <2>9, <2>10, <2>11, <2>12, <2>13, <2>14,
       <2>15, <2>16, <2>17, <2>18, <2>19
    DEF LeafStep, Decide, Cancelling
<1>2. ASSUME NEW g \in Goals, ServerStep(g) PROVE GoalInv'
  <2>1. CASE ServerGoal(g)
    BY <1>0, <2>1 DEF ServerGoal, serverUnchanged, leafVars, tickVars, Codes, Types
  <2>2. CASE ServerCancel(g)
    BY <1>0, <2>2 DEF ServerCancel, serverUnchanged, leafVars, tickVars, Codes, Types
  <2>3. CASE ServerFinish(g)
    BY <1>0, <2>3, EnvAssumption DEF ServerFinish, serverUnchanged, leafVars, tickVars, Codes, Live, Types
  <2> QED
    BY <1>2, <2>1, <2>2, <2>3 DEF ServerStep
<1>3. CASE Shutdown
  BY <1>3 DEF Shutdown, leafVars, tickVars
<1>4. CASE UNCHANGED vars
  BY <1>4 DEF vars
<1> QED
  BY <1>1, <1>2, <1>3, <1>4 DEF Next

\* Both invariants hold of every run in which no leaf is halted.
LEMMA GoalInvAlways ==
  ASSUME ~Halting
  PROVE  Spec => [](Types /\ LeafInv /\ GoalInv)
<1>1. Init => LeafInv
  BY DEF Init, LeafInv, OneRuns, GoalsOwned, HandleTaken, StaleIsDone, ResultOfHandle, NoGoal, Goals
<1>2. Init => GoalInv
  BY DEF Init, GoalInv, ClientServer, RunningWaits, AnswerTaken, Pending, ResultNotLost, CrashNeedsTimeout
<1> QED
  BY <1>1, <1>2, LeafInvStep, GoalInvStep, TypesAlways, PTL DEF Spec

\* Two goals of the leaves are at work together only if a leaf gave one up by a
\* time-out, whatever the order in which answers and results are handled.
THEOREM OverlapNeedsAbandonedAlways ==
  ASSUME ~Halting
  PROVE  Spec => []OverlapNeedsAbandoned
<1>1. Types /\ LeafInv /\ GoalInv => OverlapNeedsAbandoned
  <2> SUFFICES ASSUME Types, LeafInv, GoalInv, NEW g \in Goals \ abandoned, NEW h \in Goals \ abandoned,
                      {server[g], server[h]} \subseteq Live \cup {"requested"}
               PROVE  g = h
    BY DEF OverlapNeedsAbandoned
  <2>1. \A k \in Goals : server[k] \in Live \cup {"requested"} => client[k] \in {"awaiting", "accepted"}
    BY DEF GoalInv, ClientServer, Types, Live, Codes
  <2>2. /\ status[owner[g]] = "RUNNING" /\ CurrentGoal(owner[g]) = g
        /\ status[owner[h]] = "RUNNING" /\ CurrentGoal(owner[h]) = h
    BY <2>1 DEF GoalInv, Pending
  <2>3. owner[g] \in Leaves /\ owner[h] \in Leaves
    BY <2>1 DEF LeafInv, GoalsOwned
  <2> QED
    BY <2>2, <2>3 DEF LeafInv, OneRuns
<1> QED
  BY <1>1, GoalInvAlways, PTL

\* No result of a running leaf's goal is lost, however its answer and its result
\* are spread over the ticks and the spins within them.
THEOREM ResultNotLostAlways ==
  ASSUME ~Halting
  PROVE  Spec => []ResultNotLost
<1>1. GoalInv => ResultNotLost
  BY DEF GoalInv
<1> QED
  BY <1>1, GoalInvAlways, PTL

\* result_callback never finds goal_handle_ null while no goal was given up.
THEOREM CrashNeedsTimeoutAlways ==
  ASSUME ~Halting
  PROVE  Spec => []CrashNeedsTimeout
<1>1. GoalInv => CrashNeedsTimeout
  BY DEF GoalInv
<1> QED
  BY <1>1, GoalInvAlways, PTL

-----------------------------------------------------------------------------
(* Goals and results where leaves may be halted                            *)

\* The tree runs one leaf and its thread is in no other; cancelGoal() waits for
\* an answer only without a handle.
OneTicked ==
  /\ \A l, k \in Leaves : status[l] = "RUNNING" /\ status[k] = "RUNNING" => l = k
  /\ ticking # NoLeaf => status[ticking] = "RUNNING"
  /\ phase = "hfuture" => goal_handle[ticking] = NoGoal

\* What a leaf that runs, or has succeeded, holds.
HandleHeld ==
  \A l \in Leaves :
    /\ status[l] \in {"RUNNING", "SUCCESS"} /\ goal_received[l]
         => goal_handle[l] # NoGoal /\ future[l] = NoGoal
    /\ status[l] = "SUCCESS" => goal_received[l]
    /\ status[l] = "RUNNING" /\ ~goal_received[l] /\ phase \notin {"hsend", "hcancel", "hresult"}
         => future[l] # NoGoal
    /\ future[l] # NoGoal => goal_handle[l] < future[l]

\* Leaf l gave up goal g or an earlier one.
LeftBehind(l, g) == \E h \in abandoned : owner[h] = l /\ h <= g

\* A goal the client still expects something of is the running leaf's own, or
\* its leaf gave up that one or an earlier one.
Accounted ==
  /\ \A h \in abandoned : h <= sent
  /\ \A g \in Goals :
       client[g] \in {"awaiting", "accepted"}
         => \/ status[owner[g]] = "RUNNING" /\ CurrentGoal(owner[g]) = g
            \/ LeftBehind(owner[g], g)

\* The result a leaf has is its goal's, or that of an earlier goal it sent no
\* earlier than one it gave up.
FromOwn(l, g) ==
  /\ owner[g] = l /\ server[g] = result[l]
  /\ \/ g = CurrentGoal(l) /\ client[g] = "done"
     \/ g < CurrentGoal(l) /\ LeftBehind(l, g)

ResultFrom ==
  \A l \in Leaves :
    status[l] = "RUNNING" /\ result[l] # "UNKNOWN"
      => goal_handle[l] # NoGoal /\ \E g \in Goals : FromOwn(l, g)

HaltInv == OneTicked /\ GoalsOwned /\ HandleHeld /\ Accounted /\ ResultFrom

\* One event of the client keeps HaltInv and what StaleSuccessNeedsTimeout says.
LEMMA EventHaltInv ==
  ASSUME Types, HaltInv, StaleSuccessNeedsTimeout, NEW g \in Goals, Event(g),
         phase' = phase \/ (phase \in {"spin", "wait"} /\ phase' \in {"wait", "decide"}),
         UNCHANGED <<leafVars, ticking, ok, sent, owner, server, abandoned>>
  PROVE  HaltInv' /\ StaleSuccessNeedsTimeout'
<1> USE DEF leafVars
<1>1. /\ client[g] \in {"awaiting", "accepted"}
      /\ client' \in [Goals -> {"none", "awaiting", "accepted", "rejected", "done"}]
      /\ \A h \in Goals \ {g} : client'[h] = client[h]
      /\ client'[g] # "awaiting" /\ (client'[g] = "accepted" => client[g] = "awaiting")
  BY DEF Event, GoalResponse, ResultCallback, Types
<1>2. OneTicked' /\ HandleHeld'
  BY DEF HaltInv, OneTicked, HandleHeld
<1>21. GoalsOwned'
  BY <1>1 DEF HaltInv, GoalsOwned
<1>3. Accounted'
  BY <1>1 DEF HaltInv, Accounted, LeftBehind, CurrentGoal
<1>4. StaleSuccessNeedsTimeout'
  BY DEF StaleSuccessNeedsTimeout, CurrentGoal
<1>5. ResultFrom'
  <2> SUFFICES ASSUME NEW l \in Leaves, status[l] = "RUNNING", result'[l] # "UNKNOWN"
               PROVE  goal_handle[l] # NoGoal /\ \E h \in Goals : FromOwn(l, h)'
    BY DEF ResultFrom
  <2>1. CASE result'[l] = result[l]
    <3>1. goal_handle[l] # NoGoal
      BY <2>1 DEF HaltInv, ResultFrom
    <3>2. PICK h \in Goals : FromOwn(l, h)
      BY <2>1 DEF HaltInv, ResultFrom
    <3>3. FromOwn(l, h)'
      BY <1>1, <2>1, <3>2 DEF FromOwn, LeftBehind, CurrentGoal
    <3> QED
      BY <3>1, <3>3
  <2>2. CASE result'[l] # result[l]
    <3>1. /\ l = owner[g] /\ goal_handle[l] = g /\ result'[l] = server[g]
          /\ client[g] = "accepted" /\ client'[g] = "done"
      BY <2>2 DEF Event, GoalResponse, ResultCallback, Types
    <3>2. CASE future[l] = NoGoal
      BY <3>1, <3>2 DEF FromOwn, CurrentGoal, Goals, NoGoal
    <3>3. CASE future[l] # NoGoal
      <4>1. CurrentGoal(l) = future[l] /\ g < CurrentGoal(l)
        BY <3>1, <3>3 DEF CurrentGoal, HaltInv, HandleHeld
      <4>2. LeftBehind(l, g)
        BY <3>1, <4>1 DEF HaltInv, Accounted, Goals
      <4>3. FromOwn(l, g)'
        BY <3>1, <4>1, <4>2 DEF FromOwn, LeftBehind, CurrentGoal
      <4> QED
        BY <3>1, <4>3 DEF Goals, NoGoal
    <3> QED
      BY <3>2, <3>3
  <2> QED
    BY <2>1, <2>2
<1> QED
  BY <1>2, <1>21, <1>3, <1>4, <1>5 DEF HaltInv

\* So does one event handled inside cancelGoal().
LEMMA CancelSpinHaltInv ==
  ASSUME Types, HaltInv, StaleSuccessNeedsTimeout, NEW l \in Leaves, CancelSpin(l)
  PROVE  HaltInv' /\ StaleSuccessNeedsTimeout'
<1>1. PICK g \in Goals : Event(g)
  BY DEF CancelSpin
<1>2. phase' = phase \/ (phase \in {"spin", "wait"} /\ phase' \in {"wait", "decide"})
  BY DEF CancelSpin, tickVars
<1>3. UNCHANGED <<leafVars, ticking, ok, sent, owner, server, abandoned>>
  BY DEF CancelSpin, tickVars
<1> QED
  BY <1>1, <1>2, <1>3, EventHaltInv

\* Every step keeps HaltInv, and what StaleSuccessNeedsTimeout says of it.
LEMMA HaltInvStep ==
  ASSUME Types, HaltInv, StaleSuccessNeedsTimeout, [Next]_vars
  PROVE  HaltInv' /\ StaleSuccessNeedsTimeout'
<1> USE LeafAssumption
<1> USE DEF HaltInv, OneTicked, GoalsOwned, HandleHeld, Accounted, ResultFrom, FromOwn, LeftBehind,
        StaleSuccessNeedsTimeout, CurrentGoal, NoGoal
<1>1. ASSUME NEW l \in Leaves, LeafStep(l) PROVE HaltInv' /\ StaleSuccessNeedsTimeout'
  <2>0. \A k \in Leaves : ticking = l /\ status[k] = "RUNNING" => k = l
    OBVIOUS
  <2>1. CASE Start(l)
    <3>1. phase = "out" /\ \A k \in Leaves : status[k] # "RUNNING"
      BY <2>1 DEF Start, InTree
    <3>2. CASE sent' = sent
      BY <2>1, <3>1, <3>2 DEF Start, InTree, tickVars, Types
    <3>3. CASE sent < MaxGoals /\ sent' = sent + 1
      <4>1. sent + 1 \in Goals /\ sent \in Nat
        BY <3>3, GoalAssumption DEF Goals, Types
      <4>2. /\ UNCHANGED <<goal_handle, ok, crashed, abandoned, phase, ticking>>
            /\ goal_received' = [goal_received EXCEPT ![l] = FALSE]
            /\ result' = [result EXCEPT ![l] = "UNKNOWN"]
            /\ status' = [status EXCEPT ![l] = "RUNNING"]
            /\ future' = [future EXCEPT ![l] = sent + 1]
            /\ owner' = [owner EXCEPT ![sent + 1] = l]
            /\ client' = [client EXCEPT ![sent + 1] = "awaiting"]
            /\ server' = [server EXCEPT ![sent + 1] = "requested"]
        BY <2>1, <3>3 DEF Start, InTree, tickVars
      <4>3. OneTicked' /\ HandleHeld'
        BY <3>1, <4>1, <4>2 DEF Types, Goals
      <4>4. GoalsOwned'
        BY <3>3, <4>1, <4>2 DEF Types, Goals
      <4>5. Accounted'
        BY <3>1, <3>3, <4>1, <4>2 DEF Types, Goals
      <4>6. ResultFrom'
        BY <3>1, <4>1, <4>2 DEF Types
      <4>7. StaleSuccessNeedsTimeout'
        BY <3>1, <3>3, <4>1, <4>2 DEF Types, Goals
      <4> QED
        BY <4>3, <4>4, <4>5, <4>6, <4>7
    <3> QED
      BY <2>1, <3>2, <3>3 DEF Start
  <2>2. CASE BeginTick(l)
    BY <2>2 DEF BeginTick, InTree, leafVars
  <2>3. CASE SpinSomeIdle(l)
    BY <2>3 DEF SpinSomeIdle, At, NoEvent, leafVars
  <2>4. CASE SpinSomeEvent(l)
    BY <2>4, EventHaltInv DEF SpinSomeEvent, At, leafVars
  <2>5. CASE SpinForAnswer(l)
    <3>1. CASE NoEvent
      BY <2>5, <3>1 DEF SpinForAnswer, At, NoEvent, leafVars
    <3>2. CASE \E g \in Goals : Event(g)
      BY <2>5, <3>2, EventHaltInv DEF SpinForAnswer, At, leafVars
    <3> QED
      BY <2>5, <3>1, <3>2 DEF SpinForAnswer
  <2>6. CASE StillWaiting(l)
    BY <2>6 DEF StillWaiting, At, Leave, leafVars
  <2>7. CASE SendGoalTimeout(l)
    <3>1. /\ status[l] = "RUNNING" /\ future[l] \in Goals /\ CurrentGoal(l) = future[l]
          /\ owner[future[l]] = l /\ future[l] <= sent
      BY <2>7 DEF SendGoalTimeout, At, Types
    <3>2. /\ abandoned' = abandoned \cup {future[l]} /\ phase' = "out" /\ ticking' = NoLeaf
          /\ UNCHANGED <<goal_received, future, goal_handle, result, sent, owner, client, server>>
          /\ status' = [status EXCEPT ![l] = "FAILURE"]
      BY <2>7, <3>1 DEF SendGoalTimeout, Leave
    <3>3. OneTicked' /\ GoalsOwned' /\ HandleHeld'
      BY <2>7, <2>0, <3>2 DEF At, SendGoalTimeout, Types
    <3>4. \A k \in Leaves, g \in Goals : LeftBehind(k, g) => LeftBehind(k, g)'
      BY <3>2
    <3>5. LeftBehind(l, future[l])'
      BY <3>1, <3>2 DEF Goals
    <3>6. Accounted'
      <4> HIDE DEF LeftBehind
      <4>1. \A h \in abandoned' : h <= sent'
        BY <3>1, <3>2
      <4> SUFFICES ASSUME NEW g \in Goals, client'[g] \in {"awaiting", "accepted"},
                          ~LeftBehind(owner[g], g)'
                   PROVE  status'[owner[g]] = "RUNNING" /\ CurrentGoal(owner[g])' = g
        BY <3>2, <4>1
      <4>2. owner[g] \in Leaves
        BY <3>2 DEF Types
      <4>3. status[owner[g]] = "RUNNING" /\ CurrentGoal(owner[g]) = g
        BY <3>2, <3>4, <4>2
      <4>4. owner[g] # l
        BY <3>1, <3>2, <3>5, <4>3
      <4> QED
        BY <3>2, <4>2, <4>3, <4>4 DEF Types
    <3>7. ResultFrom'
      BY <3>2 DEF Types
    <3>8. StaleSuccessNeedsTimeout'
      BY <3>2 DEF Types
    <3> QED
      BY <3>3, <3>6, <3>7, <3>8
  <2>8. CASE GoalRejected(l)
    BY <2>8, <2>0 DEF GoalRejected, At, Leave, TakeHandle, Types
  <2>9. CASE GoalAccepted(l)
    BY <2>9, <2>0 DEF GoalAccepted, At, TakeHandle, tickVars, Answered, Types
  <2>10. CASE Conclude(l)
    <3>1. /\ status[l] = "RUNNING" /\ goal_received[l] /\ CurrentGoal(l) = goal_handle[l]
          /\ goal_handle[l] \in Goals
      BY <2>10 DEF Conclude, At, Types
    <3>2. /\ phase' = "out" /\ ticking' = NoLeaf
          /\ UNCHANGED <<goal_received, future, goal_handle, result, sent, owner, client, server, abandoned>>
          /\ status' \in [Leaves -> {"IDLE", "RUNNING", "SUCCESS", "FAILURE"}]
          /\ \A k \in Leaves \ {l} : status'[k] = status[k]
          /\ status'[l] = "RUNNING" <=> result[l] = "UNKNOWN"
          /\ status'[l] = "SUCCESS" => result[l] = "SUCCEEDED"
      BY <2>10 DEF Conclude, Leave, Types
    <3>3. OneTicked' /\ GoalsOwned'
      BY <3>1, <3>2
    <3>4. HandleHeld'
      BY <2>10, <3>1, <3>2 DEF Conclude, At
    <3>5. ASSUME result[l] # "UNKNOWN"
          PROVE  LeftBehind(l, CurrentGoal(l)) \/ client[CurrentGoal(l)] = "done"
      <4>1. PICK g \in Goals : FromOwn(l, g)
        BY <3>1, <3>5
      <4>2. CASE g < CurrentGoal(l) /\ LeftBehind(l, g)
        <5>1. PICK h \in abandoned : owner[h] = l /\ h <= g
          BY <4>2
        <5>2. h \in Goals /\ h <= CurrentGoal(l)
          BY <3>1, <4>2, <5>1 DEF Types, Goals
        <5> QED
          BY <5>1, <5>2
      <4> QED
        BY <4>1, <4>2
    <3>6. Accounted'
      <4> SUFFICES ASSUME NEW g \in Goals, client[g] \in {"awaiting", "accepted"},
                          ~LeftBehind(owner[g], g)
                   PROVE  status'[owner[g]] = "RUNNING" /\ CurrentGoal(owner[g])' = g
        BY <3>2
      <4>1. status[owner[g]] = "RUNNING" /\ CurrentGoal(owner[g]) = g
        OBVIOUS
      <4>2. owner[g] \in Leaves
        BY DEF Types
      <4>3. owner[g] = l /\ g = CurrentGoal(l)
        BY <3>1, <4>1, <4>2
      <4>4. result[l] = "UNKNOWN"
        BY <3>5, <4>3
      <4> QED
        BY <3>1, <3>2, <4>1, <4>3, <4>4
    <3>7. ResultFrom'
      BY <3>2
    <3>8. StaleSuccessNeedsTimeout'
      <4> SUFFICES ASSUME status'[l] = "SUCCESS", server[CurrentGoal(l)] # "SUCCEEDED"
                   PROVE  \E h \in abandoned : \E g \in h .. CurrentGoal(l) - 1 :
                            owner[h] = l /\ owner[g] = l /\ server[g] = "SUCCEEDED"
        BY <3>2
      <4>1. PICK g \in Goals : FromOwn(l, g)
        BY <3>1, <3>2
      <4>2. server[g] = "SUCCEEDED" /\ owner[g] = l /\ g < CurrentGoal(l) /\ LeftBehind(l, g)
        BY <3>2, <4>1
      <4>3. PICK h \in abandoned : owner[h] = l /\ h <= g
        BY <4>2
      <4>4. g \in h .. CurrentGoal(l) - 1
        BY <3>1, <4>2, <4>3 DEF Types, Goals
      <4> QED
        BY <4>2, <4>3, <4>4
    <3> QED
      BY <3>3, <3>4, <3>6, <3>7, <3>8
  <2>11. CASE TickAfterShutdown(l)
    BY <2>11 DEF TickAfterShutdown, InTree, tickVars, Types
  <2>12. CASE ResetLeaf(l)
    BY <2>12 DEF ResetLeaf, InTree, tickVars, Types
  <2>13. CASE HaltLeaf(l)
    BY <2>13 DEF HaltLeaf, InTree, leafVars
  <2>14. CASE CancelGoal(l)
    BY <2>14 DEF CancelGoal, At, leafVars
  <2>15. CASE CancelSpin(l)
    BY <2>15, CancelSpinHaltInv
  <2>16. CASE CancelTakeHandle(l)
    BY <2>16, <2>0 DEF CancelTakeHandle, At, Answered, Types
  <2>17. CASE CancelSend(l)
    BY <2>17, <2>0 DEF CancelSend, At, leafVars
  <2>18. CASE CancelAnswered(l)
    BY <2>18, <2>0 DEF CancelAnswered, At, leafVars
  <2>19. CASE CancelReturn(l)
    <3>1. status[l] = "RUNNING" /\ ticking = l
      BY <2>19 DEF CancelReturn, At
    <3>2. /\ abandoned' = abandoned \cup {g \in Goals : g = CurrentGoal(l) /\ client[g] # "done"}
          /\ phase' = "out" /\ ticking' = NoLeaf
          /\ UNCHANGED <<goal_received, future, goal_handle, result, sent, owner, client, server>>
          /\ status' = [status EXCEPT ![l] = after] /\ after \in {"IDLE", "FAILURE"}
      BY <2>19 DEF CancelReturn, Leave, Types
    <3>3. OneTicked' /\ GoalsOwned'
      BY <3>1, <3>2 DEF Types
    <3>4. HandleHeld'
      BY <3>1, <3>2 DEF Types
    <3>5. \A k \in Leaves, g \in Goals : LeftBehind(k, g) => LeftBehind(k, g)'
      BY <3>2
    <3>6. Accounted'
      <4> HIDE DEF LeftBehind
      <4>1. \A h \in abandoned' : h <= sent'
        BY <3>2
      <4> SUFFICES ASSUME NEW g \in Goals, client'[g] \in {"awaiting", "accepted"},
                          ~LeftBehind(owner[g], g)'
                   PROVE  status'[owner[g]] = "RUNNING" /\ CurrentGoal(owner[g])' = g
        BY <3>2, <4>1
      <4>2. owner[g] \in Leaves
        BY <3>2 DEF Types
      <4>3. status[owner[g]] = "RUNNING" /\ CurrentGoal(owner[g]) = g
        BY <3>2, <3>5, <4>2
      <4>4. owner[g] # l
        <5>1. ASSUME owner[g] = l PROVE g \in abandoned'
          BY <3>2, <4>3, <5>1
        <5>2. ASSUME owner[g] = l PROVE LeftBehind(l, g)'
          BY <3>2, <5>1, <5>2 DEF LeftBehind, Goals
        <5> QED
          BY <3>2, <5>2
      <4> QED
        BY <3>2, <4>2, <4>3, <4>4 DEF Types
    <3>7. ResultFrom'
      BY <3>2 DEF Types
    <3>8. StaleSuccessNeedsTimeout'
      BY <3>2 DEF Types
    <3> QED
      BY <3>3, <3>4, <3>6, <3>7, <3>8
  <2> QED
    BY <1>1, <2>1, <2>2, <2>3, <2>4, <2>5, <2>6, <2>7, <2>8, <2>9, <2>10, <2>11, <2>12, <2>13, <2>14,
       <2>15, <2>16, <2>17, <2>18, <2>19
    DEF LeafStep, Decide, Cancelling
<1>2. ASSUME NEW g \in Goals, ServerStep(g) PROVE HaltInv' /\ StaleSuccessNeedsTimeout'
  <2>1. /\ UNCHANGED <<leafVars, result, tickVars, ok, crashed, sent, owner, client, abandoned>>
        /\ server' \in [Goals -> {"unsent", "requested", "rejected"} \cup Accepted]
        /\ \A h \in Goals : server'[h] # server[h] => server[h] \in Live \cup {"requested"}
    BY <1>2, EnvAssumption DEF ServerStep, ServerGoal, ServerCancel, ServerFinish, serverUnchanged,
                               Live, Codes, Accepted, Types
  <2>2. OneTicked' /\ HandleHeld' /\ GoalsOwned' /\ Accounted'
    BY <2>1 DEF leafVars, tickVars, Live
  <2>3. ResultFrom'
    BY <2>1 DEF leafVars, tickVars, Live, Codes, Types
  <2>4. StaleSuccessNeedsTimeout'
    <3>1. \A h \in Goals : server[h] = "SUCCEEDED" => server'[h] = "SUCCEEDED"
      BY <2>1 DEF Live
    <3>2. \A k \in Leaves : status[k] = "SUCCESS" => CurrentGoal(k) \in Goals
      BY DEF Types
    <3>3. \A h \in abandoned : \A k \in Leaves : \A j \in h .. CurrentGoal(k) - 1 : j \in Goals
      BY GoalAssumption DEF Types, Goals
    <3> QED
      BY <2>1, <3>1, <3>2, <3>3 DEF leafVars
  <2> QED
    BY <2>2, <2>3, <2>4
<1>3. CASE Shutdown
  BY <1>3 DEF Shutdown, leafVars, tickVars
<1>4. CASE UNCHANGED vars
  BY <1>4 DEF vars
<1> QED
  BY <1>1, <1>2, <1>3, <1>4 DEF Next

\* HaltInv holds of every reachable state.
LEMMA HaltInvAlways == Spec => [](HaltInv /\ StaleSuccessNeedsTimeout)
<1>1. Init => HaltInv /\ StaleSuccessNeedsTimeout
  BY DEF Init, HaltInv, OneTicked, GoalsOwned, HandleHeld, Accounted, ResultFrom,
         StaleSuccessNeedsTimeout, NoGoal, Goals
<1> QED
  BY <1>1, HaltInvStep, TypesAlways, PTL DEF Spec

\* Every reachable state is well typed, and a leaf that runs has a valid future
\* until its goal was received and the handle from then on, whether leaves are
\* halted or not, goals given up, rejected or cancelled.
THEOREM TypeCorrect == Spec => []TypeOK
<1>1. Types /\ HaltInv => TypeOK
  BY DEF TypeOK, Holds, HaltInv, HandleHeld
<1> QED
  BY <1>1, HaltInvAlways, TypesAlways, PTL

\* However leaves are halted and goals given up, a leaf that credits itself with a
\* success its goal did not have takes it from a goal of its own, and only once
\* a cancelGoal() or the wait for an answer has timed out on it.
THEOREM StaleSuccessNeedsTimeoutAlways == Spec => []StaleSuccessNeedsTimeout
BY HaltInvAlways, PTL

-----------------------------------------------------------------------------
(* The action leaves implement ActionLeaf, where no leaf is halted while   *)
(* rclcpp runs.                                                            *)

\* What is needed of a state: the leaf that runs has a goal of its own, and the
\* one that succeeded had it done.
LEMMA WorkIsOwn ==
  ASSUME Types, LeafInv, GoalInv
  PROVE  /\ \A l \in Leaves : status[l] \in {"RUNNING", "SUCCESS"}
              => /\ CurrentGoal(l) \in Goals /\ CurrentGoal(l) <= sent
                 /\ owner[CurrentGoal(l)] = l
         /\ \A l \in Leaves : status[l] = "SUCCESS" => Work[l] = "done"
         /\ \A l \in Leaves : Work[l] = "asked" => status[l] = "RUNNING"
<1>1. \A l \in Leaves : status[l] = "RUNNING"
        => CurrentGoal(l) \in Goals /\ CurrentGoal(l) <= sent /\ owner[CurrentGoal(l)] = l
  BY RunningHasGoal DEF GoalInv
<1>2. \A l \in Leaves : status[l] = "SUCCESS"
        => /\ CurrentGoal(l) \in Goals /\ CurrentGoal(l) <= sent /\ owner[CurrentGoal(l)] = l
           /\ server[CurrentGoal(l)] = "SUCCEEDED"
  BY DEF Types, LeafInv, HandleTaken, GoalsOwned, ResultOfHandle, CurrentGoal
<1> QED
  BY <1>1, <1>2 DEF Work

\* A step that changes neither a status, nor a running goal, nor what the server
\* says of one is a stutter of ActionLeaf.
LEMMA Stutter ==
  ASSUME Types, LeafInv, GoalInv, UNCHANGED status,
         \A l \in Leaves : status[l] \in {"RUNNING", "SUCCESS"} =>
           CurrentGoal(l)' = CurrentGoal(l)
             /\ (server'[CurrentGoal(l)] = "SUCCEEDED" <=> server[CurrentGoal(l)] = "SUCCEEDED")
  PROVE  UNCHANGED Promise!vars
BY DEF Work, Promise!vars

\* What it takes to change the work of one leaf.
LEMMA OneWork ==
  ASSUME NEW l \in Leaves, NEW w, Work'[l] = w,
         \A k \in Leaves \ {l} : Work'[k] = Work[k]
  PROVE  Work' = [Work EXCEPT ![l] = w]
<1>1. DOMAIN Work = Leaves /\ DOMAIN Work' = Leaves
  BY DEF Work
<1>2. Work = [k \in Leaves |-> Work[k]] /\ Work' = [k \in Leaves |-> Work'[k]]
  BY DEF Work
<1> HIDE DEF Work
<1> QED
  BY <1>1, <1>2

\* A step that changes the status of one leaf, and neither its goal nor the
\* others' nor the server, changes the work of no other leaf.
LEMMA OneStatus ==
  ASSUME Types, LeafInv, GoalInv, NEW l \in Leaves, NEW s \in {"IDLE", "RUNNING", "SUCCESS", "FAILURE"},
         status' = [status EXCEPT ![l] = s], UNCHANGED server,
         \A k \in Leaves \ {l} : CurrentGoal(k)' = CurrentGoal(k)
  PROVE  /\ Work' = [Work EXCEPT ![l] = Work'[l]]
         /\ s \in {"IDLE", "FAILURE"} => Work'[l] = "none"
<1>1. \A k \in Leaves \ {l} : Work'[k] = Work[k]
  BY DEF Work, Types
<1>2. s \in {"IDLE", "FAILURE"} => Work'[l] = "none"
  BY DEF Work, Types
<1> QED
  BY <1>1, <1>2, OneWork

\* Every step of the leaves is a step, or a stutter, of ActionLeaf.
LEMMA StepImplements ==
  ASSUME ~Halting, Types, LeafInv, GoalInv, [Next]_vars
  PROVE  [Promise!Next]_Promise!vars
<1> USE DEF Promise!Next
<1>0. /\ \A l \in Leaves : status[l] \in {"RUNNING", "SUCCESS"}
           => /\ CurrentGoal(l) \in Goals /\ CurrentGoal(l) <= sent
              /\ owner[CurrentGoal(l)] = l
      /\ \A l \in Leaves : status[l] = "SUCCESS" => Work[l] = "done"
      /\ \A l \in Leaves : Work[l] = "asked" => status[l] = "RUNNING"
  BY WorkIsOwn
<1>1. ASSUME NEW l \in Leaves, LeafStep(l) PROVE [Promise!Next]_Promise!vars
  <2>0. ASSUME UNCHANGED <<status, future, goal_handle, server>> PROVE UNCHANGED Promise!vars
    BY <2>0, Stutter DEF CurrentGoal
  <2>1. CASE Start(l)
    <3>1. status[l] = "IDLE" /\ \A k \in Leaves : status[k] # "RUNNING"
      BY <2>1 DEF Start
    <3>2. CASE status' = [status EXCEPT ![l] = "FAILURE"] /\ UNCHANGED server
      <4>1. \A k \in Leaves \ {l} : CurrentGoal(k)' = CurrentGoal(k)
        BY <2>1 DEF Start, CurrentGoal, Types
      <4>2. Work' = [Work EXCEPT ![l] = "none"]
        BY <3>2, <4>1, OneStatus
      <4>3. Work' = Work
        BY <3>1, <4>2 DEF Work
      <4> QED
        BY <3>1, <3>2, <4>3 DEF Promise!Activate
    <3>3. CASE /\ sent < MaxGoals
               /\ status' = [status EXCEPT ![l] = "RUNNING"]
               /\ future' = [future EXCEPT ![l] = sent + 1]
               /\ server' = [server EXCEPT ![sent + 1] = "requested"]
      <4>1. sent + 1 \in Goals /\ sent \in Nat
        BY <3>3, GoalAssumption DEF Goals, Types
      <4>2. CurrentGoal(l)' = sent + 1 /\ server'[sent + 1] = "requested"
        BY <3>3, <4>1 DEF CurrentGoal, Types, Goals, NoGoal
      <4>3. \A k \in Leaves \ {l} : CurrentGoal(k)' = CurrentGoal(k)
        BY <2>1, <3>3 DEF Start, CurrentGoal, Types
      <4>4. \A k \in Leaves \ {l} : status[k] = "SUCCESS" =>
              server'[CurrentGoal(k)] = server[CurrentGoal(k)]
        BY <1>0, <3>3, <4>1 DEF Types, Goals
      <4>5. Work' = [Work EXCEPT ![l] = "asked"]
        <5>1. Work'[l] = "asked"
          BY <3>3, <4>2 DEF Work, Types
        <5>2. \A k \in Leaves \ {l} : Work'[k] = Work[k]
          BY <3>1, <3>3, <4>3, <4>4 DEF Work, Types
        <5> QED
          BY <5>1, <5>2, OneWork
      <4> QED
        BY <3>1, <3>3, <4>5 DEF Promise!Activate
    <3> QED
      BY <2>1, <3>2, <3>3 DEF Start
  <2>2. CASE SpinSomeIdle(l) \/ SpinSomeEvent(l) \/ SpinForAnswer(l) \/ BeginTick(l) \/ HaltLeaf(l)
             \/ CancelGoal(l) \/ CancelSend(l) \/ CancelAnswered(l) \/ CancelSpin(l) \/ StillWaiting(l)
    <3>1. UNCHANGED <<status, future, goal_handle, server>>
      BY <2>2 DEF SpinSomeIdle, SpinSomeEvent, SpinForAnswer, BeginTick, HaltLeaf, CancelGoal, CancelSend,
                  CancelAnswered, CancelSpin, StillWaiting, leafVars
    <3> QED
      BY <2>0, <3>1
  <2>3. ASSUME status[l] = "RUNNING", NEW s \in {"IDLE", "FAILURE"}, status' = [status EXCEPT ![l] = s],
               UNCHANGED server, \A k \in Leaves \ {l} : CurrentGoal(k)' = CurrentGoal(k)
        PROVE  Promise!GiveUp(l)
    BY <2>3, OneStatus DEF Promise!GiveUp
  <2>4. phase \in {"wait", "decide"} \/ ticking # NoLeaf => (ticking = l => status[l] = "RUNNING")
    BY LeafAssumption DEF LeafInv, OneRuns
  <2>5. CASE SendGoalTimeout(l)
    BY <2>3, <2>4, <2>5, LeafAssumption DEF SendGoalTimeout, At, CurrentGoal
  <2>6. CASE GoalRejected(l)
    <3>1. \A k \in Leaves \ {l} : CurrentGoal(k)' = CurrentGoal(k)
      BY <2>6 DEF GoalRejected, TakeHandle, CurrentGoal, Types
    <3> QED
      BY <2>3, <2>4, <2>6, <3>1, LeafAssumption DEF GoalRejected, At
  <2>7. CASE GoalAccepted(l)
    <3>1. \A k \in Leaves : CurrentGoal(k)' = CurrentGoal(k)
      BY <2>7 DEF GoalAccepted, TakeHandle, CurrentGoal, Types, Answered
    <3>2. UNCHANGED <<status, server>>
      BY <2>7 DEF GoalAccepted
    <3> QED
      BY <3>1, <3>2, Stutter
  <2>8. CASE Conclude(l)
    <3>1. /\ status[l] = "RUNNING" /\ goal_received[l]
          /\ UNCHANGED <<server, future, goal_handle>>
      BY <2>4, <2>8, LeafAssumption DEF Conclude, At
    <3>2. \A k \in Leaves : CurrentGoal(k)' = CurrentGoal(k)
      BY <3>1 DEF CurrentGoal
    <3>3. CASE result[l] = "UNKNOWN"
      <4>1. UNCHANGED status
        BY <2>8, <3>1, <3>3 DEF Conclude, Types
      <4> QED
        BY <2>0, <3>1, <4>1
    <3>4. CASE result[l] = "SUCCEEDED"
      <4>1. status' = [status EXCEPT ![l] = "SUCCESS"]
        BY <2>8, <3>4 DEF Conclude
      <4>2. server[CurrentGoal(l)] = "SUCCEEDED"
        BY <3>1, <3>4 DEF LeafInv, HandleTaken, ResultOfHandle, CurrentGoal
      <4>3. Work[l] = "done" /\ Work' = Work
        BY <3>1, <3>2, <4>1, <4>2 DEF Work, Types
      <4> QED
        BY <3>1, <4>1, <4>3 DEF Promise!Succeed
    <3>5. CASE result[l] \notin {"UNKNOWN", "SUCCEEDED"}
      BY <2>3, <2>8, <3>1, <3>2, <3>5 DEF Conclude
    <3> QED
      BY <3>3, <3>4, <3>5
  <2>9. CASE TickAfterShutdown(l)
    <3>1. UNCHANGED <<future, goal_handle, server>>
      BY <2>9 DEF TickAfterShutdown
    <3>2. CASE UNCHANGED status
      BY <2>0, <3>1, <3>2
    <3>3. CASE /\ status[l] = "IDLE" /\ \A k \in Leaves : status[k] # "RUNNING"
               /\ status' = [status EXCEPT ![l] = "FAILURE"]
      <4>1. Work' = Work
        BY <3>1, <3>3 DEF Work, CurrentGoal, Types
      <4> QED
        BY <3>3, <4>1 DEF Promise!Activate
    <3> QED
      BY <2>9, <3>2, <3>3 DEF TickAfterShutdown
  <2>10. CASE ResetLeaf(l)
    <3>1. Work' = [Work EXCEPT ![l] = "none"]
      BY <2>10, OneStatus DEF ResetLeaf, CurrentGoal
    <3> QED
      BY <2>10, <3>1 DEF ResetLeaf, Promise!Reset
  <2>11. CASE CancelTakeHandle(l)
    BY <2>4, <2>11, LeafAssumption DEF CancelTakeHandle, At, Answered, GoalInv, AnswerTaken
  <2>12. CASE CancelReturn(l)
    <3>1. status[l] = "RUNNING" /\ after \in {"IDLE", "FAILURE"}
      BY <2>4, <2>12, LeafAssumption DEF CancelReturn, At, Types
    <3> QED
      BY <2>3, <2>12, <3>1 DEF CancelReturn, CurrentGoal
  <2> QED
    BY <1>1, <2>1, <2>2, <2>5, <2>6, <2>7, <2>8, <2>9, <2>10, <2>11, <2>12
    DEF LeafStep, Decide, Cancelling
<1>2. ASSUME NEW g \in Goals, ServerStep(g) PROVE [Promise!Next]_Promise!vars
  <2>1. UNCHANGED <<status, future, goal_handle>> /\ \A l \in Leaves : CurrentGoal(l)' = CurrentGoal(l)
    BY <1>2 DEF ServerStep, ServerGoal, ServerCancel, ServerFinish, serverUnchanged, leafVars, CurrentGoal
  <2>2. \A h \in Goals \ {g} : server'[h] = server[h]
    BY <1>2 DEF ServerStep, ServerGoal, ServerCancel, ServerFinish, Types
  <2>3. server' = server \/ server[g] # "SUCCEEDED"
    BY <1>2 DEF ServerStep, ServerGoal, ServerCancel, ServerFinish, Live, Types
  <2>31. CASE server' = server
    BY <2>1, <2>31, Stutter
  <2>4. CASE server[g] # "SUCCEEDED" /\ server'[g] = "SUCCEEDED"
             /\ \E l \in Leaves : status[l] = "RUNNING" /\ CurrentGoal(l) = g
    <3>1. PICK l \in Leaves : status[l] = "RUNNING" /\ CurrentGoal(l) = g
      BY <2>4
    <3>2. Work[l] = "asked"
      BY <2>4, <3>1 DEF Work
    <3>3. Work'[l] = "done"
      BY <2>1, <2>4, <3>1 DEF Work
    <3>4. \A k \in Leaves \ {l} : Work'[k] = Work[k]
      BY <1>0, <2>1, <2>2, <3>1 DEF Work
    <3> QED
      BY <2>1, <3>2, <3>3, <3>4, OneWork DEF Promise!WorkDone
  <2>5. CASE server[g] # "SUCCEEDED"
             /\ ~(server'[g] = "SUCCEEDED" /\ \E l \in Leaves : status[l] = "RUNNING" /\ CurrentGoal(l) = g)
    <3>1. \A l \in Leaves : status[l] = "SUCCESS" => CurrentGoal(l) # g
      BY <1>0, <2>5 DEF Work
    <3>2. \A l \in Leaves : status[l] \in {"RUNNING", "SUCCESS"} =>
            (server'[CurrentGoal(l)] = "SUCCEEDED" <=> server[CurrentGoal(l)] = "SUCCEEDED")
      BY <1>0, <2>2, <2>5, <3>1
    <3> QED
      BY <2>1, <3>2, Stutter
  <2> QED
    BY <2>3, <2>31, <2>4, <2>5
<1>3. CASE Shutdown \/ UNCHANGED vars
  <2>1. UNCHANGED <<status, future, goal_handle, server>>
    BY <1>3 DEF Shutdown, vars, leafVars
  <2> QED
    BY <2>1, Stutter DEF CurrentGoal
<1> QED
  BY <1>1, <1>2, <1>3 DEF Next

\* Whatever answers, results, time-outs and a shutdown do, the tree sees of its
\* leaves only what ActionLeaf promises.
THEOREM ImplementsActionLeafAlways ==
  ASSUME ~Halting
  PROVE  Spec => ImplementsActionLeaf
<1>1. Init => Promise!Init
  BY DEF Init, Promise!Init, Work
<1> QED
  BY <1>1, StepImplements, GoalInvAlways, PTL DEF Spec, ImplementsActionLeaf, Promise!Spec
=============================================================================
