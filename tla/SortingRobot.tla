----------------------------- MODULE SortingRobot -----------------------------
(***************************************************************************)
(* What the leaves of the sorting tree do to the arm and to the object in  *)
(* the gripper.                                                            *)
(*                                                                         *)
(* A pose is a place ("object" is where the approach server has found one) *)
(* and a height; the yaw is left out.  The four bin branches of main3.xml  *)
(* differ in their coordinates only, which the name of the bin stands for. *)
(***************************************************************************)
EXTENDS SortingTree

-----------------------------------------------------------------------------
(* The ports of the smooth_move leaves                                     *)

Pose(at, z) == [at |-> at, z |-> z]
Move(from, to, grip) == [from |-> from, to |-> to, grip |-> grip]

\* Mutants: the gripper opens on the way; the move to the bin starts too high.
CarryOpen(b)      == Move(Pose("object", 0), Pose(b, -10), "open")
CarryFromAbove(b) == Move(Pose("object", 70), Pose(b, -10), "close")

\* From the object to the bin b.
Carry(b) == Move(Pose("object", 0), Pose(b, -10), "close")

Ports ==
  [n \in Moves |->
     LET b == n[2] IN
     CASE n[1] = "down"    -> Move(Pose("object", 70), Pose("object", -105), "open")
       [] n[1] = "grasp"   -> Move(Pose("object", -105), Pose("object", -105), "close")
       [] n[1] = "lift"    -> Move(Pose("object", -105), Pose("object", 0), "close")
       [] n[1] = "carry"   -> Carry(b)
       [] n[1] = "lower"   -> Move(Pose(b, -10), Pose(b, -80), "close")
       [] n[1] = "release" -> Move(Pose(b, -80), Pose(b, -80), "open")
       [] n[1] = "raise"   -> Move(Pose(b, -80), Pose(b, -10), "open")
       [] n[1] = "home"    -> Move(Pose(b, -10), Pose("home", 40), "open")]

-----------------------------------------------------------------------------
VARIABLES
  arm,        \* the pose last sent to the arm; at "lost" after a failed move
  held,       \* the label of the object in the gripper, or "nothing"
  released,   \* history: the last object let go of, and where
  failed,     \* history: a leaf has failed since the last look began
  last        \* history: the timed leaf last begun, and its outcome

robotVars == <<arm, held, released, failed, last>>
vars == <<BT!vars, robotVars>>

Init ==
  /\ BT!Init
  /\ arm = Pose("home", 40) /\ held = "nothing"
  /\ released = [what |-> "nothing", at |-> arm, failed |-> FALSE]
  /\ failed = FALSE
  /\ last = [leaf |-> N("boot"), outcome |-> "IDLE"]

\* A leaf begins, or ends, in this step.
Begins(n)  == status[n] = "IDLE" /\ status'[n] = "RUNNING"
Ends(n, s) == status[n] = "RUNNING" /\ status'[n] = s
Fails(n)   == status[n] # "FAILURE" /\ status'[n] = "FAILURE"

\* The gripper opens, or closes on the label just seen.
Grip(g, at) ==
  /\ held' = IF g = "open" THEN "nothing"
             ELSE IF held = "nothing" /\ at = Pose("object", -105) THEN value ELSE held
  /\ released' = IF g = "open" /\ held # "nothing"
                 THEN [what |-> held, at |-> at, failed |-> failed] ELSE released

\* move.cpp publishes the start pose with the new grip, and the rest of the
\* line up to the goal pose.
MoveBegins(n) ==
  /\ Begins(n)
  /\ arm' = Ports[n].from
  /\ Grip(Ports[n].grip, Ports[n].from)

MoveEnds(n) ==
  /\ Ends(n, "SUCCESS")
  /\ arm' = Ports[n].to
  /\ UNCHANGED <<held, released>>

MoveFails(n) ==
  /\ Ends(n, "FAILURE")
  /\ arm' = Pose("lost", 0)
  /\ UNCHANGED <<held, released>>

\* Mutant: the gripper stays as it is while the object is looked for.
ApproachBeginsKeepsGrip ==
  /\ Begins(N("approach"))
  /\ UNCHANGED <<arm, held, released>>

\* approach.py opens the gripper wherever the arm is; it ends over an object.
ApproachBegins ==
  /\ Begins(N("approach"))
  /\ Grip("open", arm)
  /\ UNCHANGED arm

ApproachEnds ==
  /\ Ends(N("approach"), "SUCCESS")
  /\ arm' = Pose("object", 40)
  /\ UNCHANGED <<held, released>>

\* A step of the engine, and what it does to the robot.
RobotEffect ==
  \/ \E n \in Moves : MoveBegins(n) \/ MoveEnds(n) \/ MoveFails(n)
  \/ ApproachBegins \/ ApproachEnds
  \/ /\ \A n \in Moves : ~Begins(n) /\ ~Ends(n, "SUCCESS") /\ ~Ends(n, "FAILURE")
     /\ ~Begins(N("approach")) /\ ~Ends(N("approach"), "SUCCESS")
     /\ UNCHANGED <<arm, held, released>>

HistoryEffect ==
  /\ failed' = CASE Begins(N("approach"))       -> FALSE
                 [] \E n \in Actions : Fails(n) -> TRUE
                 [] OTHER                       -> failed
  /\ last' = IF \E n \in Timed : Begins(n) \/ Ends(n, "SUCCESS") \/ Fails(n)
             THEN LET n == CHOOSE n \in Timed :
                             Begins(n) \/ Ends(n, "SUCCESS") \/ Fails(n)
                  IN  [leaf |-> n, outcome |-> status'[n]]
             ELSE last

Effect == RobotEffect /\ HistoryEffect

Next == BT!Next /\ Effect

Spec == Init /\ [][Next]_vars /\ TreeFairness

-----------------------------------------------------------------------------
(* Properties                                                              *)

\* An object whose label has a bin is let go of at the bottom of that bin, never
\* elsewhere, unless a leaf has failed since it was found.
ReleasedInBin ==
  released.what \in Bins /\ ~released.failed => released.at = Pose(released.what, -80)

\* The belt moves only when nothing was seen and nothing hangs in the gripper.
BeltOnlyWhenEmpty ==
  status[N("conveyor")] = "RUNNING" => value = "none" /\ held = "nothing"

\* With an object in the gripper, every move begins at the pose where the one
\* before has ended: the start ports of the file match its goal ports.
HeldNeverJumps ==
  [][\A n \in Moves : MoveBegins(n) /\ held # "nothing" => arm = arm']_vars

\* The object in the gripper is the one the tree believes it carries.
HeldIsLabel == held # "nothing" /\ last.leaf \in Moves => held = value

\* From some time on these leaves find their servers whenever they begin.
Reachable(leaves) == <>[][\A n \in leaves : ~BT!ActionFailsAtOnce(n)]_vars

\* The robot comes back to look for an object again and again, whatever leaf fails on
\* the way and whatever other server is unreachable.
KeepsLooking == Reachable({N("approach")}) => []<>(status[N("approach")] = "RUNNING")

\* Every tick of the tree returns to the timer callback that made it, also after
\* servers were away.
TicksReturn == Reachable(Actions) => TickReturns

\* No leaf of this tree is ever halted (see BehaviorTree): RosActionNode's halt() runs
\* only when the whole tree is destroyed.
NothingHalted == BT!NothingHalted

\* The tree does the jobs of the plan, in the order of the plan.
Plan == INSTANCE SortingPlan
          WITH job <- last.leaf, outcome <- last.outcome, label <- value
FollowsPlan == Plan!Spec
=============================================================================
