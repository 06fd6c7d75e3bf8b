# Verification of manipulator_ws

`manipulator_ws` is a ROS 2 (Humble) workspace for a three-axis manipulator with a
yaw wrist and a gripper that sorts objects off a conveyor belt into bins.  A
behaviour tree drives three action servers; a chain of topics turns poses into
joint angles and writes them to a serial port.  This directory holds TLA+ models
of it, the TLC configurations that check them and TLAPS proofs.

Run everything from this directory:

    tlc -config MCRosActionNode.cfg MCRosActionNode     # a run
    tlapm RosActionNodeProofs.tla                       # the proofs of a module

## 1. Inventory

### Parts, state, operations

| Part | State | Operations |
|---|---|---|
| `bt_pkg/src/bt.cpp` | the tree, a wall timer | `timer_callback` ticks the tree (`tickOnce`), `main` |
| `bt_pkg/nodes/nodes.hpp` | ports on the blackboard | leaves `approach`, `conveyor`, `smooth_move` (action leaves), `move` (topic leaf), `finish` |
| `bt_pkg/config/main3.xml` | - | the sorting plan: home, then for ever approach, pick, carry to the bin of the label, or run the conveyor |
| `BehaviorTree.ROS2` `RosActionNode` | `goal_received_`, `future_goal_handle_`, `goal_handle_`, `result_`, one action client per action name | `tick`, `halt`, `cancelGoal`, callbacks of the client |
| `BehaviorTree.ROS2` `RosTopicPubNode` | a publisher | `tick` publishes once |
| `BehaviorTree.CPP` | `status()` of each node, its members (`current_child_idx_`, counters, `_children_running`, `timer_waiting_`, ...), a timer queue per waiting node, the wake-up signal, the blackboard | `executeTick`, `haltNode`, `tick` and `halt` of the control nodes, decorators and leaves; `tickRoot`; `TimerQueue` |
| `move_pkg` | one detached thread per goal | `handle_goal`, `handle_cancel`, `execute` publishes a straight line at 10 Hz |
| `conveyor_pkg` | `sensor_data`, one detached thread per goal | `execute` starts the belt, waits for the sensor, stops the belt |
| `approach_pkg` | last detection, pose, counters, `run`, `finish_event` | `execute_callback`, a 10 ms timer with a control loop, `box_data` subscription |
| `ik_pkg` | a queue of one pose | pose to joint angles, drops what is out of reach |
| `gateway_pkg` | latest angles, belt speed, the serial port | subscriptions store, a 30 ms timer writes and reads one line |
| `yolo_pkg`, `camera_pkg` | last image | image to boxes |

### How they interact

The tree is ticked by one thread.  An action leaf talks to its server through an
action client that is spun only inside the leaf's own `tick` or `halt`.  All
leaves of one action name share one client, so one leaf's tick may deliver the
answers of another one's goal.  The servers are processes of their own;
`move.cpp` and `conveyor.cpp` run every accepted goal in a thread of its own,
`approach.py` in its multi-threaded executor.  `pose_data` has three publishers
(the tree's `move` leaf, `move.cpp` and `approach.py`) and one subscriber
(`ik.cpp`); `angle_data`, `rpm_data` and the gripper go on to the gateway,
which keeps the latest value only and writes it every 30 ms.

### What is hard

* late answers: a goal given up by `SEND_GOAL_TIMEOUT` is still executed, and
  its callbacks still run, in whichever tick spins the client next;
* `goal_handle_` survives from one activation of a leaf to the next;
* several goals at work in one server share its members (`sensor_data`, `run`);
* a tree whose failing branch is retried for ever inside one tick;
* nodes that are halted, skipped or left while a child, or a timer, is at work;
* threads of a multi-threaded executor that interleave between two statements;
* values that are conflated (keep-last-1, latest-value) on their way to the arm.

### What makes each part correct

* action leaf: SUCCESS only for the activation's own goal; every activation
  ends; two goals are never at work together; cancelling cancels the running goal.
* engine: nothing runs unseen; an activation starts afresh; a result is the one
  the header promises; a wait is not over early.
* tree: an object is released only over the bin of its label; trajectories of
  one pick-and-place join up; the belt runs only when nothing was seen; a tick returns.
* approach server: one result per goal, made of data of that goal; it ends.
* conveyor: the belt is stopped when the goal ends; the goal ends when the
  sensor sees an object.
* pose pipeline: what reaches the serial port is the latest reachable pose.
* timer queue: every handler runs exactly once.

The hazards these properties are for are listed, each at its line, in
`PROJECT.json`.  Five have no property that would report them:

* a server that dies after it has accepted a goal leaves the leaf RUNNING for ever
  (`bt_action_node.hpp:501`): nothing handles it, and `RunningEnds` assumes a server that ends its goals;
* the controller of `approach.py` integrates its pose past the reach of `ik.cpp`
  (`approach.py:149`), and then goes on for ever: whether that happens is a matter of
  gains and images, numbers no model here has;
* `approach.py:167` publishes "turn" before `has_box` and `label`: with a second callback inside the
  loop a goal does end with the wrong ones, and `ResultIsOwn` excuses such goals (`disturbed`);
* `conveyor.cpp:114` stops the belt under another goal: it does happen to goals executed
  together, and `BeltRunsForGoal` excuses them (`together`);
* `finish_event.wait()` keeps its thread of the pool (`approach.py:296`): `ThreadAssumption` leaves one for the loop.

Of goals of `approach.py` that are executed together (`approach.py:281`) only the lost wake-up is
covered: nothing is claimed of their results or that they end.

## 2. The modules

| Module | Models | Uses |
|---|---|---|
| `ActionLeaf` | what an action leaf promises | |
| `RosActionNode`, `MCRosActionNode` | the action leaves of one client, and their server | `ActionLeaf` (refinement) |
| `TreeNodes`, `ControlNodes`, `DecoratorNodes`, `LeafNodes`, `BehaviorTree` | the engine: what all nodes share, the node types, the threads | each extends the first |
| `NodeResults` | what the headers promise of a node's results, with a history of what its children have returned | `BehaviorTree` |
| `MCBehaviorTree` | the engine on a forest of small trees | `NodeResults` |
| `SortingTree` | main3.xml | `BehaviorTree` (instance) |
| `SortingRobot` | what the leaves of main3.xml do to the arm | `SortingTree`, `SortingPlan` (refinement) |
| `SortingPlan` | the flat list of jobs main3.xml stands for | |
| `ApproachServer`, `MCApproachServer` | `approach.py` on its executor | |
| `ConveyorServer` | `conveyor.cpp`, two topics, the gateway, the belt | |
| `PosePipeline` | the poses of three publishers through `ik.cpp` and the gateway | |
| `TimerQueue` | `timer_queue.h` | |
| `...Proofs` | the theorems of the module they extend | |

They were planned and written with the leaves first, since every wrong action of the robot
goes through a leaf that believes a wrong result; then the tree, the servers, the
poses and the timers.  What is left of the plan is in section 11.

## 3. Action leaves: RosActionNode, ActionLeaf

One instance is the set of leaves with one `action_name` (in main3.xml the 23
`smooth_move` leaves are such a set), the action client they share and the server.

| Model | Code |
|---|---|
| `status`, `goal_received`, `future`, `goal_handle`, `result` | the members of the same name; a goal handle is the number of its goal |
| `ticking`, `phase` | which leaf the tree's thread is in, and where: the spins and the decision of `tick`, the spins of `cancelGoal` |
| `owner` | the `this` captured by the goal's callbacks |
| `client`, `server`, `cancel` | the client's and the server's view of a goal; their difference is what is in flight |
| `abandoned` | history: goals given up before their result |
| `crashed` | a null handle dereferenced or an exception nobody catches |

A spin handles at most one event of the client, any that has arrived; a tick is
`BeginTick`, `SpinSome...`, `SpinForAnswer` and one of the decisions.  A time-out is
an action that is enabled as long as the answer has not come.  The server's goal,
cancel and result handling are those of `move.cpp` and `conveyor.cpp` (one thread
per goal); in this workspace no server aborts or rejects a goal, but the runs let it.

* run `leaf`: 2 leaves, 3 goals, all outcomes, `Halting = FALSE`.  A third goal is
  needed for a stale handle, a running goal and a goal of the other leaf to meet.
  Checked: `TypeOK` (which also says that `goal_received_` tells which of the future and the handle of
  a running leaf may be used), `SuccessIsOwn`, `OverlapNeedsAbandoned`, `ResultNotLost`,
  `CrashNeedsTimeout`, and the refinement `ImplementsActionLeaf`, with
  `work` mapped to the state of the current goal at the server.
* run `leaf_live`: 2 goals, `Halting = TRUE`, no symmetry.  `StaleSuccessNeedsTimeout`
  says how `SuccessIsOwn` fails when a parent halts leaves: the result of a goal
  whose cancellation timed out arrives in the next activation before that one's
  handle has replaced the old one.  The mistake can be handed on: when the stale
  result is an abort, that activation ends without its own result, which then meets
  the one after it.  This takes three goals, 12 million states and more time than a
  run should take without fairness; the theorem covers every number of goals.
  `RunningEnds` is the liveness property.
* run `leaf_cancel` (violation): `cancelGoal` uses `goal_handle_`, which
  `tick` does not reset.  Ctrl-C between sending a leaf's second goal and its answer
  makes `halt` ask the client for a goal it has forgotten; `async_get_result` throws.

`Halting = FALSE` is the deployed tree: run `robot` shows that no node of main3.xml
ever halts a running child (`NothingHalted`), so only the shutdown halts leaves, and that is
modelled in every run.  `CHECK_DEADLOCK FALSE`: the goals are bounded, the tree may
be destroyed, and a crash is the end.  The two leaves are symmetric.

Fairness: the tick timer fires again (`WF` of `BeginTick` and the steps of a tick),
an event that has reached the process is handled by some later spin (`SF` of
`SpinSomeEvent`: it is enabled only inside ticks), the server ends every goal (its
loops are bounded by the distance, or by an object that comes).  Nothing is assumed
about the time-outs.

## 4. The engine: TreeNodes, ControlNodes, DecoratorNodes, LeafNodes, BehaviorTree

A tree is a record: kinds, children, `below` (each node with all under it, so that what a
halt reaches needs no recursion) and ports; `IsTree` and `WellFormed` say what the parser and the constructors
ask of it.  `stack` is the chain of nodes inside `executeTick`, `ret` what the last one returned, `mem` the members of `tick()`
(`idx`, `count`, `on`, ...; the comment at `Blank` says which).  A step is what happens between
two calls or returns of `executeTick`: the tick of a composite is an entry
(`...Tick`), a step per child's return, and a halt of the children inside it.

A Sleep, Delay or Timeout owns a timer: `added`, `waiting` once the handler could come,
`signalled` between the two statements of a handler.  A cancelled handler is executed
later (section 9), so it may meet the timer that is started next: those are `stale`,
and nodes that started a timer while one was pending are in `over`.  Several pending
aborted handlers of one node are one element of `stale`, as they do the same.  Not modelled is
the race of a Timeout's handler with `TimeoutNode::halt` inside one statement.

The wake-up signal makes `tickRoot` tick again at once.  `waitFor` clears it after its
test, so one emitted in between is lost (`EmitWakeUpSignal`), and the tree goes on with the next
period.

Modelled: Sequence, AsyncSequence, SequenceWithMemory, Fallback, AsyncFallback,
TryCatch, ReactiveSequence, ReactiveFallback, Parallel, ParallelAll, IfThenElse,
WhileDoElse, Switch; Inverter, ForceSuccess, ForceFailure, KeepRunningUntilFailure,
Repeat, Retry, Loop, RunOnce, Precondition, the Updated decorators, Delay, Timeout; Sleep
(at once when `msec` is 0), stateful and synchronous actions, conditions; the pre-conditions of any
node.  Two errors end the program (`Throw`): a condition that is skipped (`BranchThrow`), and a
threshold of a Parallel or a ParallelAll above the number of its children (`ParallelThrow`).

* run `engine`: `ReactiveSequence(condition, x)` with x each of those nodes in turn and
  its first child an action that may be skipped, a Sleep, a Sequence with a Sleep in it, a
  Timeout or a Precondition: 130 trees, and two more for a threshold that is too high and a Sleep of 0 ms.  The condition halts x in any tick, leaves run,
  succeed and fail as they like.  Ticks are unbounded; the trees are two or
  three levels deep because each node only sees its children's statuses and results.
  - `NoOrphan`: no leaf runs that its ancestors have forgotten; one leaf at a time, but
    for Parallel, and WhileDoElse, whose condition is ticked beside a running branch.
  - `FreshStart`: a node ticked while IDLE finds no status left below it, no timer, and its members as
    the constructor left them.  The exceptions it names are the code's: SequenceWithMemory and
    RunOnce remember on purpose, LoopNode resets its queue itself, Precondition's
    `_children_running` survives a halt, and IfThenElse without an "else" returns without
    `resetChildren` (`if_then_else_node.cpp:60`), so that its statement keeps the status it had: the header's
    "equivalent to add AlwaysFailure as 3rd child" (`if_then_else_node.h:28`) is not quite so.
  - `EarlyNeedsOldHandler`: a wait is over early only through an old handler.
  - `StartedOrGoesOn`: a node is ticked IDLE or RUNNING, never with the result of an earlier
    tick in its status.  The exception it names, `Statement`, is the condition of a WhileDoElse
    or of an IfThenElse without "else", which keeps its result (`while_do_else_node.cpp:69-72`,
    `if_then_else_node.cpp:58-61`).
  - `ResultPromised`: SUCCESS and FAILURE are what the header promises, told by `NodeResults` from
    `got`, the last result of each child of the node `Subject` in this activation, and `tries`, how
    often a child has ended in it.  Here the subject is x; the theorem is about any node.
    Excepted are pre-conditions, which return for the node, and such a condition.

What such a condition may do is worth knowing before one writes such a tree.  A stateful action is not
"executed at each tick" (`while_do_else_node.h:23`): while the branch runs it returns its old result
(`action_node.cpp:189`).  A Sequence that is ticked again while its status is FAILURE, or a Fallback while it is SUCCESS, keeps
`skipped_count_` (`sequence_node.cpp:43-46`): a Sequence(a, b) whose a was skipped and whose b
failed counts a again when it is skipped again, and returns SKIPPED although b has succeeded this
time, against `sequence_node.cpp:102`, "Skip if ALL the nodes have been skipped"; WhileDoElse then
throws.  Neither happens in main3.xml, which has no such node, and no run is spent on it.

## 5. The tree: SortingTree, SortingRobot, SortingPlan

`SortingTree` is main3.xml, 47 nodes, run by the engine; an action leaf is what
`ActionLeaf` promises, plus failing in the tick that starts it when its server is
unreachable.  `SortingRobot` adds the arm's pose, what hangs in the gripper and where it was
let go of, as effects of leaves that begin and end: `move.cpp` publishes
the start pose with the new grip, `approach.py` opens the gripper when a goal starts.

* run `robot`, with `Others = {"lemon"}` for the labels without a bin and all three
  servers unreachable now and then: `ReleasedInBin`, `BeltOnlyWhenEmpty`, `HeldIsLabel`,
  `HeldNeverJumps`, `NothingHalted`; `FollowsPlan`: the tree refines
  `SortingPlan`, a list of jobs without a tree; `KeepsLooking`: the robot looks
  for objects again and again once the approach server stays reachable; `TicksReturn`:
  every tick returns once all servers do.  All of them are needed: an
  approach that succeeds within a tick, followed by a move that fails at once, would
  go round inside one tick.
* run `tree_hang` (violation): with the approach server unreachable the Retry's wake-up makes
  `tickOnce` tick again at once, for ever; `rclcpp::spin` never gets the thread back.
  `retry_node.cpp` promises that the wake-up makes the node interruptible.

No bound: the tree is finite.  Fairness: a tick goes on, timers fire, and an action leaf that is
ticked again and again ends at last (`RunningEnds` of section 3; `SF`, because it is
enabled only inside ticks).

## 6. ApproachServer

| Model | Code |
|---|---|
| `node` | `run`, `state`, `no_box_count`, `goal_count`, `has_box`, `label`; `turned` is how far the pose has come |
| `event`, `task` | `finish_event`; where `execute_callback` of each goal is |
| `loop` | the executor's threads inside `timer_callback`: place, the local box, the value read by a `+= 1`, the goal it was born in |
| `verdicts`, `early`, `disturbed` | histories the properties speak of |

The timer is in a reentrant group on a multi-threaded executor, so callbacks overlap;
a step is one access to a shared member, a `+= 1` is two.  `box_data` is read as any
box, at any time: it is whatever the detector stored last.  Counts stop at their limits, since they
are only compared with 0 and the limit.  `has_box` and `label` begin `"unset"`, because
`__init__` does not define them; reading them then raises, and rclpy sends an
empty result.  A task keeps its thread of the pool while it waits (`FreeThread`);
`ThreadAssumption` says that one is left for the loop.  `TypeOK` says more than types: a callback that has
seen a box holds one until it has taken its label, so that `box_data.labels[min_index]` has an element.

A goal is `disturbed` when another callback was inside the loop when
`run` became False, something was still at work when it began, another goal was
executed together with it, or `run` was still True when it began.  The last case takes three goals:
one of two goals executed together sets `run` after a callback of the other has cleared it,
both are woken by one `set()`, and the third begins with the loop on.  A run with three goals and
one callback showed it; the proof needs it.

* run `approach`: 2 callbacks, 2 goals that may be executed together
  (`Overlapping`), `NoBoxLimit` 2 (so that a count may be lost), 2 labels.
  `ResultIsOwn`, `StuckNeedsEarlyFinish`.
* run `approach_live`: goals one after the other, as the tree sends them without a time-out.
  `GoalEnds` under the premise that the detector sees
  nothing any more (nothing else bounds the approach) and no wake-up was lost.

`CHECK_DEADLOCK FALSE`: the goals are bounded, and a stuck task is what the
properties are about.  Callbacks and labels are symmetric in `approach`; the liveness run uses
no symmetry.  Fairness: the timer fires and threads go on.

The model shows when the results can be wrong: only with a second callback inside the
loop, or goals together.  The 10 ms timer and logging make that rare, not impossible.

## 7. ConveyorServer

`conveyor.cpp` with its detached threads, the topics `rpm_data` and `sensor_data` as
KEEP_LAST queues, the part of `gateway.cpp` that handles them, the readings in the
serial port, and behind it a belt that brings objects.  Speeds are on/off,
readings near/far (below 18 or not), lines are whole.  `sensor_data` starts
uninitialised: any reading.  After `Shutdown`, `publish` does nothing.

* run `conveyor`: 2 goals, topics of depth 2, 1 reading waiting in the port: a
  stale reading may be in the port, in the topic and in the member, and a speed may be pushed
  out of a full topic.  `BeltStops`, `BeltRunsForGoal`, `EndsWithObject`, `GoalEnds`.
  The exceptions the properties name are real: overlapping goals stop each
  other's belt (`together`), a stale reading ends a goal at once (not `fresh`), a
  shutdown leaves the belt running (`ok`).

Fairness: threads, executors and the 30 ms timer go on; objects keep coming, and stay
long enough for a reading to get through the gateway, the topic and the busy
loop now and then (the `SF` conjuncts; the sensor's periods are milliseconds, the
belt's are seconds).

## 8. PosePipeline

`pose_data` has three publishers and a subscriber with a queue of one, which sends angles on
through a KEEP_LAST topic to the gateway, which keeps the latest and writes it
every 30 ms.  A pose is the number of the goal it serves and a place on a line; places in `Reach`
have angles, `Undefined` is a pose with NaN in it, which passes both comparisons of
`ik.cpp`.  A thread of `move.cpp` has the places still ahead of it: an iteration skips
some (the line is sampled at 10 Hz) or, when the distance is zero, publishes NaN or stops at once.

The middleware is reliable and in order per publisher; a full queue loses its oldest.
`GiveUp` is `SEND_GOAL_TIMEOUT`, for the moves; an approach given up belongs to
`ApproachServer`.  A blocking `readline` is a gateway that is slow.  What the gateway reads
for the belt is in `ConveyorServer`; that it dies when `std::stof` throws is here.

* run `poses`: 2 places, one in reach, depth 2, 2 goals, 1 callback of `approach.py`
  at a time; 1.1 million states.  Two goals are what "an earlier
  goal" takes, a queue of two may lose one and keep one, an unreachable place
  may be start or end of a line.
  - `Settled`: no queue loses the newest pose.
  - `BackNeedsCause`: the arm goes back to an earlier goal only if a goal was given up,
    a callback of `approach.py` published after its goal (`approach.py:197` publishes
    after `finish_event.set()`), or poses of two publishers crossed.
  - `MoveArrives`: the arm comes to rest where the last move ends, if that place is in
    reach, the gateway lives and nothing was out of order.

The poses of main3.xml and the lines between them, put through the formulas of
`ik.cpp` outside of this project, are in reach with angles from 0 to 180, except
that the start of `down`, 70 above the object, may be too far when the object is far out:
`approach` works at height 40, from which it reaches farther.  Then the arm stays and follows on
when the line comes into reach; that is the case the bounds contain.

Fairness: every node goes on; the gateway's timer and subscriptions take turns in one
executor (`WF` of both), and it need not die.

## 9. TimerQueue

The owner (one thread, as in SleepNode) and the worker; a step is what happens under
`m_mtx` or one access to an atomic.  `Semaphore::waitUntil` is split into the test, going
to sleep and waking, because `notify` takes no lock and its notification may fall
in between.  `MaxTime` stands for every later time, the 10 ms wait is `Idle`.  A heap
with equal deadlines may have any of them at the top.  `CancelAll` is the one of a queue that goes on, as
DelayNode and TimeoutNode call it when they are halted (`delay_node.cpp:24`, `timeout_node.cpp:77`), and the one of
the destructor.

* run `timers`: 2 timers of one delay, as a Sleep, a Delay or a Timeout adds them: `AtMostOnce`,
  `AbortedOrDue`, `NeverLate` (with two delays a lost notification would
  delay a shorter timer behind a longer one; these nodes own their queue, and its timers have one
  delay as long as the port does not change), `TimerRuns`, `DestroyReturns`.
* run `timers_destroy` (violation): the header's guarantee that a destroyed queue
  cancels, and so runs, all handlers.  The worker may test `m_finish` before
  the items are cancelled and leave.  The tree is destroyed with sleeping
  nodes at the end of `main`; what is lost is a handler that would only clear a flag.

`MaxPending` bounds the notifications that the worker has not taken: the owner calls `cancelAll` no more while
there are as many (2, so that one is left over; 1 in `timers_destroy`).

`CHECK_DEADLOCK FALSE`: a destroyed queue at `MaxTime` has nothing left to do.  Fairness: the worker goes on, time
passes, and a call the owner has begun ends; that it ever calls anything is not assumed.

## 10. What is proved

Every theorem holds for all values of the constants under the named assumptions of its module
(limits are natural numbers, labels are not "none" or "unset", a queue holds at least one
message, ...).  Each follows the same way: an invariant that is inductive together with
the types, one lemma per process or action, and the property as a consequence.  The three longest,
`BehaviorTreeProofs`, `NodeResultsProofs` and `SortingRobotProofs`, take from ten to twenty minutes each from nothing.

**RosActionNodeProofs** (any set of leaves, any number of goals).  `TypeCorrect`, from
`TypesAlways` and from `HaltInvAlways`, since it holds also when leaves are halted;
`SuccessIsOwnAlways` under `~Halting`.  `SuccessIsOwn` speaks of a leaf's status; what makes it
inductive is `LeafInv`: one leaf runs at a time (`OneRuns`); goals are owned by the leaf that
sent them (`GoalsOwned`); a leaf that runs with `goal_received_`
holds a handle and no future (`HandleTaken`); a handle kept from an earlier
activation belongs to a goal the client has forgotten, as long as rclcpp is up
(`StaleIsDone`); `result_` is the result of the goal in `goal_handle_`
(`ResultOfHandle`).  `StaleIsDone` is the heart: with it a late result can never
match a stale handle.  A halt whose cancellation times out breaks it, hence `~Halting`.

`OverlapNeedsAbandonedAlways`, `ResultNotLostAlways`,
`CrashNeedsTimeoutAlways` under `~Halting`, from `GoalInv`: client and server agree
on a goal's fate (`ClientServer`), a leaf without an answer waits for one
(`RunningWaits`), an answer that was handled is taken before any other event
(`AnswerTaken`), and what the client still expects belongs to the running leaf or was
given up (`Pending`).  `StaleSuccessNeedsTimeoutAlways` holds with halts too, from
`HaltInv`: each goal a leaf has left behind is accounted for by one it gave up
(`Accounted`), and a result it holds comes from such a goal or its own (`ResultFrom`).

`ImplementsActionLeafAlways` under `~Halting`: the
initial states map to initial states of `ActionLeaf`, and every step maps to one of its
steps or a stutter.

**ConveyorServerProofs**.  `TypeCorrect` (no run checks this one); `BeltStopsAlways` (`Stopped`: when no goal is
between its two speeds, the last one published is 0); `BeltRunsAlways` (`Alone`: goals
executed at the same time are on record; the last speed is the waiting goal's own 1000);
`EndsWithObjectAlways` (`Waiting`: a fresh goal that was brought nothing has nothing
near anywhere between the sensor and the member).  Any depth of topic and port.

**ApproachServerProofs** (any number of callbacks, goals, threads, labels).
`TypeCorrect`, of which `HoldsBox` is a part: a callback on its way to take a label has seen a box.
`StuckNeedsEarlyFinishAlways` from `WillWake`: a task past `run = True` while `run` is False has
a callback on its way to `set()`, or will find the flag set and nobody about to clear it.
`ResultIsOwnAlways` from `OwnGoal`, which says of a goal that nothing has
disturbed: it is alone, the loop is off until it switches it on (`OffBefore`), a callback turns
only when one of its callbacks has found the target and written it down, or is about to (`OnDuring`),
the one that switches the loop off is the last and has decided (`OffAfter`), and the task reads the
members with nothing at work on them (`Answers`).

**TimerQueueProofs** (any order of add, cancel, cancelAll, destruction and expiry).  `TypeCorrect`; `AtMostOnceAlways` (`OneHolder`: one item at most
holds a timer's handler; `Taken`: none does once it was taken); `AbortedOrDueAlways`; `NeverLateAlways`,
for timers of one delay (`NoneLater`, `SleepsNotPast`: who sleeps does so until no
later than the first deadline, or than the idle wait).

**PosePipelineProofs**.  `TypeCorrect`; `SettledAlways` (`Newest`: the pose that came
last is the newest one waiting, or taken); `BackNeedsCauseAlways` (`OneLine`: one thread
at most, of the goal the tree waits for; `InOrder`: from the arm back to the publishers
goal numbers only grow).

**BehaviorTreeProofs**: the engine on any forest of finite well-formed trees
(`ForestAssumption`, `PortsAssumption`), of any depth, and any labels without "unset".  `TypeCorrect`,
`NoOrphanAlways`, `FreshStartAlways`, `EarlyNeedsOldHandlerAlways`, all from `Inductive`.  `IInv` is the
types, `Path` (the stack is a path from the root, each node on it the child its parent called last), `Returned`
(what has just returned SUCCESS, FAILURE or SKIPPED has no leaf running in it), `NodeInv` and `TimerInv`.
`NodeInv` says of a node, by its kind and by whether it is inside tick(), below which
children leaves may run, which may have completed, and what its members hold.  `TimerInv` says when a
handler of an earlier timer may be left.  `OnPath`, `Push` and `Pop` give the path after a call and
a return; `LeavesFrame` what a halt leaves alone; `CallStep` and `Over` reduce a step of a node to what the
node itself keeps, so that each kind has a lemma of its own (`...Keeps`); `TimeoutTree` is the one handler that
halts children from another thread.  The induction over a tree that this would need is in `IsTree`: it says of
`below` what such an induction would give.  TLC confirms it for the forest of the run `engine` and, as
`Main3Assumption`, for main3.xml.

**NodeResultsProofs**: `StartedOrGoesOnAlways` and `ResultPromisedAlways`, for any such forest, any
node as `Subject`, and any history.  `RInv`, inductive together with `IInv` (`HistoryInductive`), has two parts.
`StartedInv` bounds the children of each node that may be left with a result (`Settled`): those before the
current one, those in `completed_list_`, the statement of an if.
`HistInv` is what the members of the subject have to do with `got` and `tries`, told by its kind and by its
`Place` (out of tick(), just entered, waiting for a child, back from one): the children before the index have
passed and no later one was ticked (`OrderedHist`, `ReactiveHist`); the counters count what they are
for (`ParallelHist`, `LoopHist`, `QueueHist`); the branch is the one the condition chose (`BranchHist`).
The members alone would not do: SequenceWithMemory keeps its index when halted and
Precondition its `_children_running`, so that the history has to say what they remember.  `NodeTold` reduces a step of a node to two
forms, it goes on (`Continues`) or it answers (`Answers`), each shown for its kind (`...Told`);
`ContinuesKeeps` and `AnswersKeeps` carry the invariant over to the parent, the child and the subject, and a result that
is answered is `Promised` because the invariant held when the last child came back.

**SortingRobotProofs**.  First main3.xml in the hands of the engine, for any labels and any unreachable
servers.  Its instance `P` of `BehaviorTreeProofs` gives the engine's invariant for this tree (`EngineAlways`; its
hypotheses are `Main3Assumption` and `OthersAssumption`).  `NothingHaltedAlways` follows from `Calm`: what
runs below a Sequence runs in the child at its index, below a precondition in its only child, below the
Retry likewise or not at all (`Shape`), and nothing is skipped or throws (`Returns`).  So no node with children ever
resets a running child, which justifies `~Halting` in the theorems on the action leaves.
`GoesDown` and `GoesUp` say what a call and a return do; `SequenceSteps`, `PreconditionSteps`, `RetrySteps`,
`LeafSteps` that every step of such a node is one of the two.

On it rest `FollowsPlanAlways` (the tree refines `SortingPlan`), `ReleasedInBinAlways`,
`BeltOnlyWhenEmptyAlways`, `HeldIsLabelAlways`, `HeldNeverJumpsAlways`, all from `RobotAlways`.  The tree is treated
like a program with an assertion before and after each node: `Before(n)`, `After(n)` and `Failed(n)`, told
by the last job and the label.  `SequenceRule` and `PreconditionRule` are the verification
conditions (the assertion before a Sequence gives the one before its first child, the one after a child
that before the next); `Jobs` says that the engine is at such a place: who is ticked has its `Before`, who has
returned its `After` or `Failed`, and a leaf that runs is the last job begun.  `RobotSteps` concludes that every step
is one of a job whose turn it is, or changes nothing of the robot.  On top of it `Robot` is the
invariant of the arm and the gripper: what is held is what was last seen, and hangs there only in the jobs from
`grasp` to `lower`, after a failure, or, without a bin, until the next look; after a move the arm is
at that move's goal.  `NextIs` shows that the leaf whose `Before` holds is the plan's `NextJob`.

**Only model-checked.**  Liveness (`RunningEnds`, both `GoalEnds`, `TimerRuns`, `DestroyReturns`,
`MoveArrives`, `KeepsLooking`, `TicksReturn`): it rests on fairness and ENABLED, which the prover does not
treat.  Every safety property that a passing run checks is a theorem.

## 11. Mutants, findings, and what is not modelled

Operators with a comment `Mutant:` stand before the definition they change.  They are
plausible bugs of that code, one for each property; replacing the definition by the mutant makes TLC
report the property violated.

The three runs that expect a violation are findings: `cancelGoal` and its comment (section 3),
the interruptible retry (section 5), the destructor of the timer queue (section 9).

Not modelled:

* `ik.cpp`'s trigonometry, the gains and image coordinates of `approach.py`, the scaling of
  angles: floating-point numbers, out of TLC's reach.  The detector's network and the camera are
  inputs without state.
* of the engine: ManualSelector, ConsumeQueue, SimpleDecorator, TestNode, threaded
  and coroutine actions, script nodes, post-conditions, injected callbacks, `haltTree` (the
  program ends after it); of `behaviortree_ros2`: the service and topic-subscriber leaves and the tree execution
  server.  Neither main3.xml nor `bt.cpp` uses them.
* XML loading, scripting, the blackboard's types, loggers and Groot2: vendored code that runs
  once at start-up, is pure, or is never started here; what it yields is written out in `SortingTree`.

The sources mapped are a small share of the repository's lines: most of those are
vendored headers (JSON, `expected`, `magic_enum`, `lexy`, flatbuffers, zmq), XML parsing,
loggers and the committed `build/` and `install/` directories.  Of the packages of
this workspace and of the engine's `src/controls`, `src/decorators`, `tree_node.cpp` and
`timer_queue.h`, the modules cover the control flow.

Left of the plan: `SortingRobot` composed with `PosePipeline`, so that a grip is closed where the arm is
rather than where the tree sent it; the pool of threads of `approach.py` with fewer threads than goals;
larger forests for the engine, with two levels of reactive nodes.
