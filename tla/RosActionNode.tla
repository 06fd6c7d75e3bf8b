---------------------------- MODULE RosActionNode ----------------------------
(***************************************************************************)
(* The action leaves of the behaviour tree (BT::RosActionNode) that share  *)
(* one rclcpp action client, together with the action server they talk to. *)
(*                                                                         *)
(* A leaf runs in the tree's thread.  A tick is a few steps here: one      *)
(* event of the client may be handled by spin_some, one more while the     *)
(* goal answer is still awaited, and then tick() decides.  The server runs *)
(* in a process of its own and answers as late as it likes.  What is in    *)
(* flight is the difference between server[g] and client[g].               *)
(*                                                                         *)
(* onFeedback is not overridden and the servers send no feedback, so the   *)
(* "SECOND case" of tick() never fires and is left out.                    *)
(***************************************************************************)
EXTENDS Naturals, FiniteSets

CONSTANTS
  Leaves,     \* the tree nodes with one action_name: they share a client
  NoLeaf,
  MaxGoals,   \* bound: how many goals are ever sent
  Outcomes,   \* the result codes the server can end a goal with
  Rejecting,  \* may the server reject a goal?
  Halting     \* may the tree halt a running leaf?

Goals  == 1 .. MaxGoals
NoGoal == 0

Codes    == {"SUCCEEDED", "ABORTED", "CANCELED"}
Live     == {"executing", "canceling"}
Accepted == Live \cup Codes

ASSUME LeafAssumption == NoLeaf \notin Leaves
ASSUME GoalAssumption == MaxGoals \in Nat
ASSUME EnvAssumption  == /\ Outcomes \subseteq Codes
                         /\ "SUCCEEDED" \in Outcomes
                         /\ Rejecting \in BOOLEAN
                         /\ Halting \in BOOLEAN

VARIABLES
  \* one value per leaf
  status,         \* TreeNode::status()
  goal_received,  \* goal_received_
  future,         \* future_goal_handle_: the goal whose answer it will hold
  goal_handle,    \* goal_handle_
  result,         \* result_.code
  \* the thread that ticks the tree
  ticking,        \* the leaf inside tick() or halt(), or NoLeaf
  phase,          \* where it is there
  after,          \* the status a leaf gets when its halt() is over
  ok,             \* rclcpp::ok()
  crashed,        \* undefined behaviour or an exception nobody catches
  \* one value per goal
  sent,           \* goals sent so far
  owner,          \* the leaf whose `this' the goal's callbacks captured
  client,         \* what the action client has handled of the goal
  cancel,         \* the cancel request of the goal
  server,         \* the goal at the server
  abandoned       \* history: goals a leaf gave up before their result

leafVars == <<status, goal_received, future, goal_handle>>
tickVars == <<ticking, phase, after>>
vars == <<status, goal_received, future, goal_handle, result, ticking, phase,
          after, ok, crashed, sent, owner, client, cancel, server, abandoned>>

Types ==
  /\ status        \in [Leaves -> {"IDLE", "RUNNING", "SUCCESS", "FAILURE"}]
  /\ goal_received \in [Leaves -> BOOLEAN]
  /\ future        \in [Leaves -> Goals \cup {NoGoal}]
  /\ goal_handle   \in [Leaves -> Goals \cup {NoGoal}]
  /\ result        \in [Leaves -> Codes \cup {"UNKNOWN"}]
  /\ ticking       \in Leaves \cup {NoLeaf}
  /\ phase         \in {"out", "spin", "wait", "decide", "cancel", "hfuture",
                        "hsend", "hcancel", "hresult"}
  /\ (phase = "out") <=> (ticking = NoLeaf)
  /\ after         \in {"IDLE", "FAILURE"}
  /\ ok            \in BOOLEAN
  /\ crashed       \in BOOLEAN
  /\ sent          \in 0 .. MaxGoals
  /\ owner         \in [Goals -> Leaves \cup {NoLeaf}]
  /\ client        \in [Goals -> {"none", "awaiting", "accepted", "rejected",
                                  "done"}]
  /\ cancel        \in [Goals -> {"no", "asked", "answered"}]
  /\ server        \in [Goals -> {"unsent", "requested", "rejected"} \cup Accepted]
  /\ abandoned     \subseteq Goals

\* A leaf that runs holds what it waits for: while the answer is to come a future
\* that is valid, and once it was received the handle and no future.
Holds(l) ==
  status[l] = "RUNNING" =>
    IF goal_received[l] THEN goal_handle[l] # NoGoal /\ future[l] = NoGoal
    ELSE future[l] # NoGoal \/ phase \in {"hsend", "hcancel", "hresult"}

\* Every member has its type, and goal_received_ says which of future_goal_handle_
\* and goal_handle_ may be used: tick() neither spins on a future that is not
\* valid nor waits for the result of a goal it has no handle of.
TypeOK == Types /\ \A l \in Leaves : Holds(l)

Init ==
  /\ status        = [l \in Leaves |-> "IDLE"]
  /\ goal_received = [l \in Leaves |-> FALSE]
  /\ future        = [l \in Leaves |-> NoGoal]
  /\ goal_handle   = [l \in Leaves |-> NoGoal]
  /\ result        = [l \in Leaves |-> "UNKNOWN"]
  /\ ticking = NoLeaf /\ phase = "out" /\ after = "IDLE"
  /\ ok = TRUE /\ crashed = FALSE
  /\ sent = 0
  /\ owner     = [g \in Goals |-> NoLeaf]
  /\ client    = [g \in Goals |-> "none"]
  /\ cancel    = [g \in Goals |-> "no"]
  /\ server    = [g \in Goals |-> "unsent"]
  /\ abandoned = {}

-----------------------------------------------------------------------------
(* The action client: what handling one event does.                        *)

\* The goal answer: the promise behind the future is kept, and for an
\* accepted goal the result is asked for (make_result_aware).
GoalResponse(g) ==
  /\ client[g] = "awaiting"
  /\ server[g] \in Accepted \cup {"rejected"}
  /\ client' = [client EXCEPT ![g] = IF server[g] = "rejected" THEN "rejected"
                                                               ELSE "accepted"]
  /\ UNCHANGED <<result, crashed>>

\* Mutant: the identifiers are not compared.
ResultCallbackAnyGoal(g) ==
  /\ client[g] = "accepted"
  /\ server[g] \in Codes
  /\ client' = [client EXCEPT ![g] = "done"]
  /\ crashed' = (goal_handle[owner[g]] = NoGoal)
  /\ result' = [result EXCEPT ![owner[g]] = server[g]]

\* Mutant: the result is never stored.
ResultCallbackDrops(g) ==
  /\ client[g] = "accepted"
  /\ server[g] \in Codes
  /\ client' = [client EXCEPT ![g] = "done"]
  /\ UNCHANGED <<result, crashed>>

\* result_callback of the leaf that sent the goal, whichever leaf is ticked.
\* It reads goal_handle_ without testing it.
ResultCallback(g) ==
  LET l == owner[g] IN
    /\ client[g] = "accepted"
    /\ server[g] \in Codes
    /\ client' = [client EXCEPT ![g] = "done"]
    /\ crashed' = (goal_handle[l] = NoGoal)
    /\ result' = IF goal_handle[l] = g
                 THEN [result EXCEPT ![l] = server[g]] ELSE result

Event(g) == GoalResponse(g) \/ ResultCallback(g)
NoEvent  == UNCHANGED <<client, result, crashed>>

\* The goal the leaf is running: the one it waits to be answered, or the one
\* whose handle it took.
CurrentGoal(l) == IF future[l] # NoGoal THEN future[l] ELSE goal_handle[l]

\* future_goal_handle_ of the leaf is ready.
Answered(l) == future[l] # NoGoal /\ client[future[l]] # "awaiting"

-----------------------------------------------------------------------------
(* tick()                                                                  *)

InTree == phase = "out" /\ ~crashed
At(l, p) == ticking = l /\ phase = p /\ ~crashed
Leave == ticking' = NoLeaf /\ phase' = "out" /\ UNCHANGED after

\* Mutant: goal_received_ keeps the value of the activation before.
StartKeepsReceived(l) ==
  /\ InTree /\ ok
  /\ status[l] = "IDLE" /\ sent < MaxGoals
  /\ \A k \in Leaves : status[k] # "RUNNING"
  /\ result' = [result EXCEPT ![l] = "UNKNOWN"]
  /\ sent' = sent + 1
  /\ status' = [status EXCEPT ![l] = "RUNNING"]
  /\ future' = [future EXCEPT ![l] = sent + 1]
  /\ owner' = [owner EXCEPT ![sent + 1] = l]
  /\ client' = [client EXCEPT ![sent + 1] = "awaiting"]
  /\ server' = [server EXCEPT ![sent + 1] = "requested"]
  /\ UNCHANGED <<goal_received, goal_handle, tickVars, ok, crashed, cancel, abandoned>>

\* Mutant: result_ keeps the code of the activation before.
StartKeepsResult(l) ==
  /\ InTree /\ ok
  /\ status[l] = "IDLE" /\ sent < MaxGoals
  /\ \A k \in Leaves : status[k] # "RUNNING"
  /\ goal_received' = [goal_received EXCEPT ![l] = FALSE]
  /\ sent' = sent + 1
  /\ status' = [status EXCEPT ![l] = "RUNNING"]
  /\ future' = [future EXCEPT ![l] = sent + 1]
  /\ owner' = [owner EXCEPT ![sent + 1] = l]
  /\ client' = [client EXCEPT ![sent + 1] = "awaiting"]
  /\ server' = [server EXCEPT ![sent + 1] = "requested"]
  /\ UNCHANGED <<result, goal_handle, tickVars, ok, crashed, cancel, abandoned>>

\* tick() of an IDLE leaf; the tree runs one leaf at a time.  goal_handle_
\* keeps what an earlier activation left in it.
Start(l) ==
  /\ InTree /\ ok
  /\ status[l] = "IDLE"
  /\ \A k \in Leaves : status[k] # "RUNNING"
  /\ goal_received' = [goal_received EXCEPT ![l] = FALSE]
  /\ result' = [result EXCEPT ![l] = "UNKNOWN"]
  /\ \/ \* !action_server_is_ready(): SERVER_UNREACHABLE
        /\ status' = [status EXCEPT ![l] = "FAILURE"]
        /\ future' = [future EXCEPT ![l] = NoGoal]
        /\ UNCHANGED <<sent, owner, client, server>>
     \/ \* async_send_goal
        /\ sent < MaxGoals
        /\ sent' = sent + 1
        /\ status' = [status EXCEPT ![l] = "RUNNING"]
        /\ future' = [future EXCEPT ![l] = sent + 1]
        /\ owner' = [owner EXCEPT ![sent + 1] = l]
        /\ client' = [client EXCEPT ![sent + 1] = "awaiting"]
        /\ server' = [server EXCEPT ![sent + 1] = "requested"]
  /\ UNCHANGED <<goal_handle, tickVars, ok, crashed, cancel, abandoned>>

BeginTick(l) ==
  /\ InTree /\ ok
  /\ status[l] = "RUNNING"
  /\ ticking' = l /\ phase' = "spin"
  /\ UNCHANGED <<leafVars, result, after, ok, crashed, sent, owner, client,
                 cancel, server, abandoned>>

\* callback_executor.spin_some(): at most one event of the client; none when
\* it has not reached this process yet, or when rclcpp is shut down.
SpinSomeIdle(l) ==
  /\ At(l, "spin")
  /\ NoEvent
  /\ phase' = "wait"
  /\ UNCHANGED <<leafVars, ticking, after, ok, sent, owner, cancel, server,
                 abandoned>>

SpinSomeEvent(l) ==
  /\ At(l, "spin") /\ ok
  /\ \E g \in Goals : Event(g)
  /\ phase' = "wait"
  /\ UNCHANGED <<leafVars, ticking, after, ok, sent, owner, cancel, server,
                 abandoned>>

\* Mutant: one event is handled even when the future is ready.
SpinForAnswerAnyway(l) ==
  /\ At(l, "wait")
  /\ NoEvent \/ \E g \in Goals : Event(g)
  /\ phase' = "decide"
  /\ UNCHANGED <<leafVars, ticking, after, ok, sent, owner, cancel, server,
                 abandoned>>

\* spin_until_future_complete(future_goal_handle_, 0ms): nothing is handled
\* when the goal was received or the future is ready, else at most one event.
SpinForAnswer(l) ==
  /\ At(l, "wait")
  /\ \/ NoEvent
     \/ /\ ~goal_received[l] /\ ~Answered(l) /\ ok
        /\ \E g \in Goals : Event(g)
  /\ phase' = "decide"
  /\ UNCHANGED <<leafVars, ticking, after, ok, sent, owner, cancel, server,
                 abandoned>>

\* No answer yet, and the second given to the server is not over.
StillWaiting(l) ==
  /\ At(l, "decide")
  /\ ~goal_received[l] /\ ~Answered(l)
  /\ Leave
  /\ UNCHANGED <<leafVars, result, ok, crashed, sent, owner, client, cancel,
                 server, abandoned>>

\* SEND_GOAL_TIMEOUT: the goal is given up, but the server is not told.
SendGoalTimeout(l) ==
  /\ At(l, "decide")
  /\ ~goal_received[l] /\ ~Answered(l)
  /\ status' = [status EXCEPT ![l] = "FAILURE"]
  /\ abandoned' = abandoned \cup ({future[l]} \cap Goals)
  /\ Leave
  /\ UNCHANGED <<goal_received, future, goal_handle, result, ok, crashed, sent,
                 owner, client, cancel, server>>

\* The answer is in: goal_handle_ becomes the new goal's, or null.
TakeHandle(l) ==
  /\ goal_received' = [goal_received EXCEPT ![l] = TRUE]
  /\ goal_handle' = [goal_handle EXCEPT ![l] =
                       IF client[future[l]] = "rejected" THEN NoGoal ELSE future[l]]
  /\ future' = [future EXCEPT ![l] = NoGoal]

\* GOAL_REJECTED_BY_SERVER
GoalRejected(l) ==
  /\ At(l, "decide")
  /\ ~goal_received[l] /\ Answered(l) /\ client[future[l]] = "rejected"
  /\ TakeHandle(l)
  /\ status' = [status EXCEPT ![l] = "FAILURE"]
  /\ Leave
  /\ UNCHANGED <<result, ok, crashed, sent, owner, client, cancel, server,
                 abandoned>>

GoalAccepted(l) ==
  /\ At(l, "decide")
  /\ ~goal_received[l] /\ Answered(l) /\ client[future[l]] # "rejected"
  /\ TakeHandle(l)
  /\ UNCHANGED <<status, result, tickVars, ok, crashed, sent, owner, client,
                 cancel, server, abandoned>>

\* Mutant: an aborted goal is reported like one that succeeded.
ConcludeAnyResult(l) ==
  /\ At(l, "decide")
  /\ goal_received[l]
  /\ status' = [status EXCEPT ![l] =
                  IF result[l] = "UNKNOWN" THEN "RUNNING" ELSE "SUCCESS"]
  /\ Leave
  /\ UNCHANGED <<goal_received, future, goal_handle, result, ok, crashed, sent,
                 owner, client, cancel, server, abandoned>>

\* The THIRD case: onFailure for an aborted or cancelled goal, the node's
\* onResultReceived for one that succeeded; RUNNING while there is no result.
Conclude(l) ==
  /\ At(l, "decide")
  /\ goal_received[l]
  /\ status' = [status EXCEPT ![l] = CASE result[l] = "UNKNOWN"   -> "RUNNING"
                                       [] result[l] = "SUCCEEDED" -> "SUCCESS"
                                       [] OTHER                   -> "FAILURE"]
  /\ Leave
  /\ UNCHANGED <<goal_received, future, goal_handle, result, ok, crashed, sent,
                 owner, client, cancel, server, abandoned>>

\* tick() once rclcpp is shut down: halt(), then FAILURE.
TickAfterShutdown(l) ==
  /\ InTree /\ ~ok
  /\ \/ /\ status[l] = "IDLE"
        /\ \A k \in Leaves : status[k] # "RUNNING"
        /\ status' = [status EXCEPT ![l] = "FAILURE"]
        /\ UNCHANGED tickVars
     \/ /\ status[l] = "RUNNING"
        /\ ticking' = l /\ phase' = "cancel" /\ after' = "FAILURE"
        /\ UNCHANGED status
  /\ UNCHANGED <<goal_received, future, goal_handle, result, ok, crashed, sent,
                 owner, client, cancel, server, abandoned>>

\* The parent resets a leaf that has completed.
ResetLeaf(l) ==
  /\ InTree
  /\ status[l] \in {"SUCCESS", "FAILURE"}
  /\ status' = [status EXCEPT ![l] = "IDLE"]
  /\ UNCHANGED <<goal_received, future, goal_handle, result, tickVars, ok,
                 crashed, sent, owner, client, cancel, server, abandoned>>

-----------------------------------------------------------------------------
(* halt() and cancelGoal()                                                 *)

\* halt() of a running leaf: by its parent, or by the tree's destructor once
\* rclcpp::spin has returned.
HaltLeaf(l) ==
  /\ InTree /\ (Halting \/ ~ok)
  /\ status[l] = "RUNNING"
  /\ ticking' = l /\ phase' = "cancel" /\ after' = "IDLE"
  /\ UNCHANGED <<leafVars, result, ok, crashed, sent, owner, client, cancel,
                 server, abandoned>>

\* cancelGoal() looks at goal_handle_ first, whatever goal it belongs to.
\* A leaf RUNNING always waits for an answer or holds a handle, so the
\* "empty goal_handle" warning is not reached.
CancelGoal(l) ==
  /\ At(l, "cancel")
  /\ phase' = IF goal_handle[l] = NoGoal THEN "hfuture" ELSE "hsend"
  /\ UNCHANGED <<leafVars, result, ticking, after, ok, crashed, sent, owner,
                 client, cancel, server, abandoned>>

\* One event handled by a spin_until_future_complete of cancelGoal().
CancelSpin(l) ==
  /\ \E p \in {"hfuture", "hcancel", "hresult"} : At(l, p)
  /\ ok
  /\ phase = "hfuture" => ~Answered(l)
  /\ phase = "hresult" => client[goal_handle[l]] # "done"
  /\ \E g \in Goals : Event(g)
  /\ UNCHANGED <<leafVars, tickVars, ok, sent, owner, cancel, server, abandoned>>

\* The handle is taken without looking whether the goal was rejected.
CancelTakeHandle(l) ==
  /\ At(l, "hfuture") /\ Answered(l)
  /\ goal_handle' = [goal_handle EXCEPT ![l] =
                       IF client[future[l]] = "rejected" THEN NoGoal ELSE future[l]]
  /\ future' = [future EXCEPT ![l] = NoGoal]
  /\ phase' = "hsend"
  /\ UNCHANGED <<status, goal_received, result, ticking, after, ok, crashed,
                 sent, owner, client, cancel, server, abandoned>>

\* async_get_result, which throws on a null handle and on one the client has
\* forgotten; then async_cancel_goal.
CancelSend(l) ==
  /\ At(l, "hsend")
  /\ LET g == goal_handle[l] IN
       IF g = NoGoal \/ client[g] = "done"
       THEN /\ crashed' = TRUE
            /\ UNCHANGED <<phase, cancel>>
       ELSE /\ phase' = "hcancel"
            /\ cancel' = [cancel EXCEPT ![g] = IF @ = "no" THEN "asked" ELSE @]
            /\ UNCHANGED crashed
  /\ UNCHANGED <<leafVars, result, ticking, after, ok, sent, owner, client,
                 server, abandoned>>

\* The cancel answer has come, or server_timeout_ is over.
CancelAnswered(l) ==
  /\ At(l, "hcancel")
  /\ phase' = "hresult"
  /\ UNCHANGED <<leafVars, result, ticking, after, ok, crashed, sent, owner,
                 client, cancel, server, abandoned>>

\* cancelGoal() returns: the result has come or server_timeout_ is over, or
\* the goal was not answered within server_timeout_.
CancelReturn(l) ==
  /\ \/ At(l, "hresult")
     \/ At(l, "hfuture") /\ ~Answered(l)
  /\ status' = [status EXCEPT ![l] = after]
  /\ abandoned' = abandoned \cup
       {g \in Goals : g = CurrentGoal(l) /\ client[g] # "done"}
  /\ Leave
  /\ UNCHANGED <<goal_received, future, goal_handle, result, ok, crashed, sent,
                 owner, client, cancel, server>>

-----------------------------------------------------------------------------
(* The action server, and the signal that ends the program.                *)

serverUnchanged == UNCHANGED <<leafVars, result, tickVars, ok, crashed, sent,
                               owner, client, abandoned>>

\* handle_goal: a thread of its own for every goal accepted.
ServerGoal(g) ==
  /\ server[g] = "requested"
  /\ \/ server' = [server EXCEPT ![g] = "executing"]
     \/ Rejecting /\ server' = [server EXCEPT ![g] = "rejected"]
  /\ UNCHANGED cancel
  /\ serverUnchanged

\* handle_cancel accepts the request of any goal that is still live.
ServerCancel(g) ==
  /\ cancel[g] = "asked"
  /\ cancel' = [cancel EXCEPT ![g] = "answered"]
  /\ server' = [server EXCEPT ![g] = IF @ = "executing" THEN "canceling" ELSE @]
  /\ serverUnchanged

\* execute() ends the goal with a result.
ServerFinish(g) ==
  /\ server[g] \in Live
  /\ \E code \in Outcomes :
       /\ code = "CANCELED" => server[g] = "canceling"
       /\ server' = [server EXCEPT ![g] = code]
  /\ UNCHANGED cancel
  /\ serverUnchanged

Shutdown ==
  /\ ok /\ ~crashed
  /\ ok' = FALSE
  /\ UNCHANGED <<leafVars, result, tickVars, crashed, sent, owner, client,
                 cancel, server, abandoned>>

-----------------------------------------------------------------------------
Decide(l) == \/ StillWaiting(l) \/ SendGoalTimeout(l)
             \/ GoalRejected(l) \/ GoalAccepted(l) \/ Conclude(l)

Cancelling(l) == \/ CancelGoal(l) \/ CancelTakeHandle(l) \/ CancelSend(l)
                 \/ CancelAnswered(l) \/ CancelReturn(l)

LeafStep(l) ==
  \/ Start(l) \/ BeginTick(l) \/ SpinSomeIdle(l) \/ SpinSomeEvent(l)
  \/ SpinForAnswer(l) \/ Decide(l) \/ TickAfterShutdown(l) \/ ResetLeaf(l)
  \/ HaltLeaf(l) \/ Cancelling(l) \/ CancelSpin(l)

ServerStep(g) == ServerGoal(g) \/ ServerCancel(g) \/ ServerFinish(g)

Next == \/ \E l \in Leaves : LeafStep(l)
        \/ \E g \in Goals : ServerStep(g)
        \/ Shutdown

Spec == Init /\ [][Next]_vars

\* The timer of bt.cpp ticks a tree that is RUNNING, every step of a tick ends,
\* an event that has reached the client is handled by some later spin_some, the
\* server ends every goal, and the tree is destroyed after a shutdown.
Fairness ==
  /\ \A l \in Leaves :
       /\ WF_vars(BeginTick(l))
       /\ WF_vars(SpinSomeIdle(l) \/ SpinSomeEvent(l))
       /\ SF_vars(SpinSomeEvent(l))
       /\ WF_vars(SpinForAnswer(l))
       /\ WF_vars(Decide(l))
       /\ WF_vars(Cancelling(l))
       /\ WF_vars(~ok /\ HaltLeaf(l))
  /\ \A g \in Goals : WF_vars(ServerGoal(g)) /\ WF_vars(ServerFinish(g))

FairSpec == Spec /\ Fairness

-----------------------------------------------------------------------------
(* Properties                                                              *)

\* A leaf reports SUCCESS only when the server ended with success the goal this
\* very activation sent: never for the late result of an earlier activation or
\* of the other leaf on the same client.
SuccessIsOwn ==
  \A l \in Leaves :
    status[l] = "SUCCESS" => server[CurrentGoal(l)] = "SUCCEEDED"

\* Two goals are at work at the server together only if a leaf gave one up: a
\* SEND_GOAL_TIMEOUT and a cancelGoal() that times out are the only ways to
\* make the detached execute() threads overlap.
OverlapNeedsAbandoned ==
  \A g, h \in Goals :
    {server[g], server[h]} \subseteq Live \cup {"requested"} /\ g # h
      => {g, h} \cap abandoned # {}

\* A running leaf whose goal was answered holds a handle the result can still
\* reach: no result is lost between the answer and goal_handle_ = future.get().
ResultNotLost ==
  \A l \in Leaves :
    status[l] = "RUNNING" /\ client[CurrentGoal(l)] = "done"
      => result[l] = server[CurrentGoal(l)]

\* As long as rclcpp runs and no leaf is halted, result_callback finds
\* goal_handle_ null only after a SEND_GOAL_TIMEOUT.
CrashNeedsTimeout == crashed /\ ok => abandoned # {}

\* When leaves are halted too, a leaf credits itself with a success that is not
\* its goal's only if it earned it with an earlier goal of its own, sent no
\* earlier than one that a cancelGoal() of this leaf timed out on: once a result
\* was taken for another goal's, the next activation may mistake its in turn.
StaleSuccessNeedsTimeout ==
  \A l \in Leaves :
    status[l] = "SUCCESS" /\ server[CurrentGoal(l)] # "SUCCEEDED"
      => \E h \in abandoned : \E g \in h .. CurrentGoal(l) - 1 :
           owner[h] = l /\ owner[g] = l /\ server[g] = "SUCCEEDED"

\* The comment above cancelGoal: "send a request to the Action server to cancel
\* the current goal".  The handle it sends is the running goal's.
CancelsCurrentGoal ==
  phase = "hsend" => goal_handle[ticking] = CurrentGoal(ticking)

\* A leaf that runs stops running, unless the program crashed on the way.
RunningEnds ==
  \A l \in Leaves : status[l] = "RUNNING" ~> status[l] # "RUNNING" \/ crashed

-----------------------------------------------------------------------------
(* Refinement                                                              *)

\* A leaf's work is asked while its goal is not ended with success, and none is
\* asked of a leaf that is idle or has failed.
Work == [l \in Leaves |->
           IF status[l] \notin {"RUNNING", "SUCCESS"} THEN "none"
           ELSE IF server[CurrentGoal(l)] = "SUCCEEDED" THEN "done" ELSE "asked"]

Promise == INSTANCE ActionLeaf WITH work <- Work

\* The leaves keep the promise of ActionLeaf to the tree: one of them works at a
\* time, and it reports SUCCESS only for work this very activation asked for.
ImplementsActionLeaf == Promise!Spec
=============================================================================
