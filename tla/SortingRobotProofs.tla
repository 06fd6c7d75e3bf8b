-------------------------- MODULE SortingRobotProofs --------------------------
(***************************************************************************)
(* What holds of the sorting robot for all labels and whatever servers are *)
(* unreachable: main3.xml, run by the engine, does the jobs of SortingPlan *)
(* in their order, and the arm and the gripper keep their invariants.      *)
(*                                                                         *)
(* The tree is proved about as a program is: Before(n) is what holds when  *)
(* the node n is ticked for the first time, After(n) when it has succeeded *)
(* and Failed(n) when it has failed, each told by the last job and by the  *)
(* label.  That they fit together is a matter of the tree alone; that the  *)
(* engine runs the nodes in this order follows from the shape of the tree: *)
(* the invariants of BehaviorTreeProofs, and that no node with children    *)
(* ever leaves a running child behind.                                     *)
(***************************************************************************)
EXTENDS SortingRobot, TLAPS

P == INSTANCE BehaviorTreeProofs WITH Forest <- Main3, Values <- Labels

-----------------------------------------------------------------------------
(* The invariant of the tree                                               *)

\* The node that is ticked next, and the one that has just returned.
Top  == IF stack = <<>> THEN N("main") ELSE P!Last(stack)
Left == IF stack = <<>> THEN N("main") ELSE P!Cur(P!Last(stack))

\* What runs below a node runs in the child called last; a node out of tick() that does
\* not run has only idle children.
SequenceShape(n) ==
  LET c == Children[n]
      i == mem[n].idx IN
  /\ ~mem[n].fresh /\ mem[n].skips = 0 /\ i \in DOMAIN c
  /\ \A j \in DOMAIN c : j < i => status[c[j]] # "RUNNING"
  /\ \A j \in DOMAIN c : j > i => status[c[j]] = "IDLE"
  /\ ~P!Locked(n) => IF status[n] = "RUNNING" THEN status[c[i]] = "RUNNING"
                     ELSE i = 1 /\ status[c[1]] = "IDLE"

PreconditionShape(n) ==
  /\ mem[n].on <=> P!Locked(n) \/ status[n] = "RUNNING"
  /\ ~P!Locked(n) => status[Children[n][1]] = IF status[n] = "RUNNING" THEN "RUNNING" ELSE "IDLE"

\* A retry that has returned RUNNING after a failure has an idle child.
RetryShape(n) ==
  ~P!Locked(n) => LET s == status[Children[n][1]] IN
                  s = "IDLE" \/ (s = "RUNNING" /\ status[n] = "RUNNING")

Shape(n) ==
  /\ n \in Sequences_    => SequenceShape(n)
  /\ n \in Preconditions => PreconditionShape(n)
  /\ n = N("retry")      => RetryShape(n)

\* No node is skipped or throws; who is ticked is idle or runs.
Returns ==
  /\ ret \in {"unset", "RUNNING", "SUCCESS", "FAILURE"}
  /\ ret = "unset" => status[Top] \in {"IDLE", "RUNNING"}
  /\ ret = "RUNNING" => status[Left] = "RUNNING"

Calm == P!IInv /\ Returns /\ \A n \in DOMAIN Children : Shape(n)

-----------------------------------------------------------------------------
(* The tree                                                                *)

\* main3.xml is a well-formed tree, and "unset" is not a label.
LEMMA Main3Facts ==
  /\ \A t \in DOMAIN Main3 : P!IsTree(Main3[t]) /\ P!WellFormed(Main3[t])
  /\ P!None \notin Labels
<1>1. DOMAIN Main3 = {"main3"} /\ Main3.main3 = Main3["main3"]
  BY DEF Main3
<1>2. P!IsTree(Main3.main3)
  BY Main3Assumption, Zenon DEF BT!IsTree, P!IsTree
<1>3. P!WellFormed(Main3.main3)
  BY Main3Assumption
  DEF BT!WellFormed, P!WellFormed, BT!Controls, P!Controls, BT!Decorators, P!Decorators,
      BT!Loops, P!Loops, BT!Parallels, P!Parallels, BT!Results, P!Results, BT!Ordered,
      P!Ordered, BT!Reactives, P!Reactives, BT!Branches, P!Branches, BT!Plain, P!Plain,
      BT!Clocked, P!Clocked, BT!Completed, P!Completed, BT!Sequences_, P!Sequences_,
      BT!Fallbacks, P!Fallbacks
<1>4. P!None \notin Labels
  BY OthersAssumption DEF Labels, Bins, P!None
<1> QED
  BY <1>1, <1>2, <1>3, <1>4

\* What the engine reads of the tree.
LEMMA Tree ==
  ASSUME tree \in DOMAIN Main3
  PROVE  /\ P!Nodes = Nodes /\ P!Root = N("main")
         /\ \A n : /\ P!Kind(n) = Kind[n] /\ P!Below(n) = Below[n]
                   /\ P!Children(n) = IF n \in DOMAIN Children THEN Children[n] ELSE <<>>
                   /\ ~P!Has("pre", n)
                   /\ P!Has("cond", n) <=> n \in Preconditions
                   /\ P!Port("cond", n) = Cond[n]
                   /\ P!Has("writes", n) <=> n = N("approach")
                   /\ P!Has("param", n) <=> n = N("retry")
         /\ P!Port("param", N("retry")) = -1
         /\ P!Port("writes", N("approach")) = Labels
         /\ \A n \in Preconditions : P!Port("else", n) = "SUCCESS"
<1>1. tree = "main3" /\ Main3[tree] = Main3.main3
  BY DEF Main3
<1>2. DOMAIN Kind = Nodes
  BY DEF Kind
<1>3. P!Nodes = Nodes /\ P!Root = N("main")
  BY <1>1, <1>2 DEF P!Nodes, P!Root, Main3
<1>4. \A p : P!Has(p, N("main")) \/ ~P!Has(p, N("main"))
  OBVIOUS
<1>5. \A n : P!Kind(n) = Kind[n] /\ P!Below(n) = Below[n]
  BY <1>1 DEF P!Kind, P!Below, P!Port, Main3
<1>6. \A n : P!Children(n) = IF n \in DOMAIN Children THEN Children[n] ELSE <<>>
  BY <1>1 DEF P!Children, P!Has, P!Port, Main3
<1>7. \A n : ~P!Has("pre", n)
  BY <1>1 DEF P!Has, Main3
<1>8. DOMAIN Cond = Preconditions
  BY DEF Cond
<1>9. \A n : (P!Has("cond", n) <=> n \in Preconditions) /\ P!Port("cond", n) = Cond[n]
  BY <1>1, <1>8 DEF P!Has, P!Port, Main3
<1>10. \A n : (P!Has("writes", n) <=> n = N("approach")) /\ (P!Has("param", n) <=> n = N("retry"))
  BY <1>1 DEF P!Has, Main3
<1>11. /\ P!Port("param", N("retry")) = -1
       /\ P!Port("writes", N("approach")) = Labels
       /\ \A n \in Preconditions : P!Port("else", n) = "SUCCESS"
  BY <1>1 DEF P!Port, Main3
<1> QED
  BY <1>3, <1>5, <1>6, <1>7, <1>9, <1>10, <1>11

\* A node is a name, with a bin or without one.
LEMMA Names ==
  /\ \A x, y :
       /\ <<x, y>> \in Sequences_ <=> \/ x \in {"main", "round", "pick"} /\ y = ""
                                      \/ x = "sort" /\ y \in Bins
       /\ <<x, y>> \in Preconditions <=> \/ x \in {"ifSeen", "ifNone"} /\ y = ""
                                         \/ x = "if" /\ y \in Bins
       /\ <<x, y>> \in Sleeps <=> x \in {"boot", "settle", "hold", "pause"} /\ y = ""
       /\ <<x, y>> \in Moves <=>
            \/ x \in {"down", "grasp", "lift"} /\ y = ""
            \/ x \in {"carry", "lower", "release", "raise", "home"} /\ y \in Bins
       /\ <<x, y>> \in Actions <=>
            \/ <<x, y>> \in Moves
            \/ x \in {"approach", "conveyor"} /\ y = ""
       /\ <<x, y>> \in Nodes <=>
            \/ <<x, y>> \in Sequences_ \cup Preconditions \cup Sleeps \cup Actions
            \/ x \in {"retry", "speed", "init", "again", "finish"} /\ y = ""
  /\ \A n \in Nodes : \E x, y : n = <<x, y>>
  /\ "" \notin Bins
<1>1. ToSet(BinMoves) = {"carry", "lower", "release", "raise", "home"}
  <2>1. DOMAIN BinMoves = 1 .. 5
    BY DEF BinMoves
  <2>2. 1 .. 5 = {1, 2, 3, 4, 5}
    OBVIOUS
  <2> QED
    BY <2>1, <2>2 DEF ToSet, BinMoves
<1>2. "" \notin Bins
  BY DEF Bins
<1>3. ASSUME NEW x, NEW y
      PROVE  /\ <<x, y>> \in Sequences_ <=> \/ x \in {"main", "round", "pick"} /\ y = ""
                                            \/ x = "sort" /\ y \in Bins
             /\ <<x, y>> \in Preconditions <=> \/ x \in {"ifSeen", "ifNone"} /\ y = ""
                                               \/ x = "if" /\ y \in Bins
             /\ <<x, y>> \in Sleeps <=> x \in {"boot", "settle", "hold", "pause"} /\ y = ""
             /\ <<x, y>> \in Moves <=>
                  \/ x \in {"down", "grasp", "lift"} /\ y = ""
                  \/ x \in {"carry", "lower", "release", "raise", "home"} /\ y \in Bins
  <2>1. <<x, y>> \in Sequences_ <=> \/ x \in {"main", "round", "pick"} /\ y = ""
                                    \/ x = "sort" /\ y \in Bins
    BY DEF Sequences_, N
  <2>2. <<x, y>> \in Preconditions <=> \/ x \in {"ifSeen", "ifNone"} /\ y = ""
                                       \/ x = "if" /\ y \in Bins
    BY DEF Preconditions, N
  <2>3. <<x, y>> \in Sleeps <=> x \in {"boot", "settle", "hold", "pause"} /\ y = ""
    BY DEF Sleeps, N
  <2>4. <<x, y>> \in Moves <=>
          \/ x \in {"down", "grasp", "lift"} /\ y = ""
          \/ x \in {"carry", "lower", "release", "raise", "home"} /\ y \in Bins
    BY <1>1 DEF Moves, N
  <2> QED
    BY <2>1, <2>2, <2>3, <2>4
<1>4. ASSUME NEW x, NEW y
      PROVE  /\ <<x, y>> \in Actions <=>
                  \/ <<x, y>> \in Moves
                  \/ x \in {"approach", "conveyor"} /\ y = ""
             /\ <<x, y>> \in Nodes <=>
                  \/ <<x, y>> \in Sequences_ \cup Preconditions \cup Sleeps \cup Actions
                  \/ x \in {"retry", "speed", "init", "again", "finish"} /\ y = ""
  BY DEF Actions, Nodes, Timed, N
<1>5. ASSUME NEW n \in Nodes
      PROVE  \E x, y : n = <<x, y>>
  <2>1. CASE n \in Sequences_ \cup Preconditions
    BY <2>1 DEF Sequences_, Preconditions, N
  <2>2. CASE n \in Moves
    <3>1. n \in ToSet(BinMoves) \X Bins => \E x \in ToSet(BinMoves), y \in Bins : n = <<x, y>>
      OBVIOUS
    <3> QED
      BY <2>2, <3>1 DEF Moves, N
  <2>3. CASE n \notin Sequences_ \cup Preconditions \cup Moves
    BY <2>3 DEF Nodes, Timed, Actions, Sleeps, N
  <2> QED
    BY <2>1, <2>2, <2>3
<1> QED
  BY <1>2, <1>3, <1>4, <1>5

\* The nodes by their kinds.
LEMMA Kinds ==
  /\ DOMAIN Children = Sequences_ \cup Preconditions \cup {N("retry")}
  /\ \A n \in Nodes :
       /\ Kind[n] = "Sequence"      <=> n \in Sequences_
       /\ Kind[n] = "Precondition"  <=> n \in Preconditions
       /\ Kind[n] = "Retry"         <=> n = N("retry")
       /\ Kind[n] = "Sleep"         <=> n \in Sleeps
       /\ Kind[n] = "Action"        <=> n \in Actions
       /\ Kind[n] = "Instant"       <=> n \in {N("speed"), N("init")}
       /\ Kind[n] = "AlwaysFailure" <=> n = N("again")
       /\ Kind[n] = "Forever"       <=> n = N("finish")
       /\ \/ n \in Sequences_ \cup Preconditions \cup Timed
          \/ n \in {N("retry"), N("speed"), N("init"), N("again"), N("finish")}
  /\ Timed \cap DOMAIN Children = {} /\ Timed = Sleeps \cup Actions
  /\ Sequences_ \cup Preconditions \cup Timed \subseteq Nodes
  /\ {N("retry"), N("speed"), N("init"), N("again"), N("finish")} \subseteq Nodes
  /\ {N("retry"), N("speed"), N("init"), N("again"), N("finish")} \cap Timed = {}
<1>1. ASSUME NEW n \in Nodes
      PROVE  /\ n \in Sequences_    <=> n[1] \in {"main", "round", "pick", "sort"}
             /\ n \in Preconditions <=> n[1] \in {"ifSeen", "ifNone", "if"}
             /\ n \in Sleeps        <=> n[1] \in {"boot", "settle", "hold", "pause"}
             /\ n \in Actions       <=> n[1] \in {"approach", "conveyor", "down", "grasp", "lift",
                                                  "carry", "lower", "release", "raise", "home"}
             /\ \A x \in {"retry", "speed", "init", "again", "finish"} : n = N(x) <=> n[1] = x
             /\ n[1] \in {"main", "round", "pick", "sort", "ifSeen", "ifNone", "if", "boot",
                          "settle", "hold", "pause", "approach", "conveyor", "down", "grasp",
                          "lift", "carry", "lower", "release", "raise", "home", "retry",
                          "speed", "init", "again", "finish"}
  <2>1. PICK x, y : n = <<x, y>>
    BY Names
  <2>2. <<x, y>> \in Nodes /\ n[1] = x
    BY <2>1
  <2>3. \A z : n = N(z) <=> x = z /\ y = ""
    BY <2>1 DEF N
  <2>4. <<x, y>> \in Sequences_ \cup Preconditions \cup Sleeps \cup Actions
        \/ (x \in {"retry", "speed", "init", "again", "finish"} /\ y = "")
    BY <2>2, Names
  <2>5. /\ <<x, y>> \in Sequences_    <=> x \in {"main", "round", "pick", "sort"}
        /\ <<x, y>> \in Preconditions <=> x \in {"ifSeen", "ifNone", "if"}
        /\ <<x, y>> \in Sleeps        <=> x \in {"boot", "settle", "hold", "pause"}
        /\ <<x, y>> \in Actions       <=> x \in {"approach", "conveyor", "down", "grasp", "lift",
                                                 "carry", "lower", "release", "raise", "home"}
        /\ x \in {"retry", "speed", "init", "again", "finish"} => y = ""
        /\ x \in {"main", "round", "pick", "sort", "ifSeen", "ifNone", "if", "boot",
                  "settle", "hold", "pause", "approach", "conveyor", "down", "grasp",
                  "lift", "carry", "lower", "release", "raise", "home", "retry",
                  "speed", "init", "again", "finish"}
    <3> HIDE <2>1
    <3> QED
      BY <2>4, Names
  <2> QED
    BY <2>1, <2>2, <2>3, <2>5
<1>3. DOMAIN Children = Nodes \ (Timed \cup {N("speed"), N("init"), N("again"), N("finish")})
  BY DEF Children
<1>4. /\ Timed = Sleeps \cup Actions
      /\ Sequences_ \cup Preconditions \cup Timed \subseteq Nodes
      /\ {N("retry"), N("speed"), N("init"), N("again"), N("finish")} \subseteq Nodes
  BY DEF Timed, Nodes
<1>5. ASSUME NEW n \in Nodes
      PROVE  Kind[n] = CASE n[1] \in {"main", "round", "pick", "sort"} -> "Sequence"
                         [] n[1] \in {"ifSeen", "ifNone", "if"}        -> "Precondition"
                         [] n[1] \in {"boot", "settle", "hold", "pause"} -> "Sleep"
                         [] n[1] = "retry"                             -> "Retry"
                         [] n[1] \in {"speed", "init"}                 -> "Instant"
                         [] n[1] = "again"                             -> "AlwaysFailure"
                         [] n[1] = "finish"                            -> "Forever"
                         [] OTHER                                      -> "Action"
  <2>1. Kind[n] = CASE n \in Sequences_ -> "Sequence"
                    [] n \in Preconditions        -> "Precondition"
                    [] n \in Sleeps               -> "Sleep"
                    [] n \in Actions              -> "Action"
                    [] n = N("retry")             -> "Retry"
                    [] n \in {N("speed"), N("init")} -> "Instant"
                    [] n = N("again")             -> "AlwaysFailure"
                    [] n = N("finish")            -> "Forever"
    BY DEF Kind
  <2> QED
    BY <2>1, <1>1
<1>6. DOMAIN Children = Sequences_ \cup Preconditions \cup {N("retry")}
  <2>1. \A n \in Nodes : n \in DOMAIN Children <=>
                           n \in Sequences_ \cup Preconditions \cup {N("retry")}
    BY <1>1, <1>3, <1>4
  <2> QED
    BY <2>1, <1>3, <1>4
<1> QED
  BY <1>1, <1>4, <1>5, <1>6

-----------------------------------------------------------------------------
(* The engine                                                              *)

\* The theorems of BehaviorTreeProofs are about P, the tree is run by BT: the same
\* definitions.
LEMMA SameSteps ==
  /\ BT!Init => P!Init
  /\ BT!TickRoot => P!TickRoot
  /\ BT!TickAgain => P!TickAgain
  /\ BT!TickEnds => P!TickEnds
  /\ \A n : /\ BT!OrderedStep(n) => P!OrderedStep(n)
            /\ BT!LoopTick(n) => P!LoopTick(n)
            /\ BT!LoopAgain(n) => P!LoopAgain(n)
            /\ BT!LoopBack(n) => P!LoopBack(n)
            /\ BT!PreconditionTick(n) => P!PreconditionTick(n)
            /\ BT!PreconditionBack(n) => P!PreconditionBack(n)
            /\ BT!LeafStep(n) => P!LeafStep(n)
            /\ BT!SleepStep(n) => P!SleepStep(n)
<1> USE DEF BT!Completed, P!Completed, BT!None, P!None, BT!Nodes, P!Nodes, BT!Root, P!Root,
          BT!Kind, P!Kind, BT!Port, P!Port, BT!Has, P!Has, BT!Children, P!Children,
          BT!ChildSet, P!ChildSet, BT!Below, P!Below, BT!Sequences_, P!Sequences_,
          BT!Fallbacks, P!Fallbacks, BT!Blank, P!Blank, BT!Running, P!Running,
          BT!Halted, P!Halted, BT!HaltedMem, P!HaltedMem, BT!Leaves, P!Leaves,
          BT!CancelsIn, P!CancelsIn, BT!Cancels, P!Cancels, BT!Starts, P!Starts,
          BT!Inside, P!Inside, BT!Entered, P!Entered, BT!Back, P!Back, BT!Calls,
          P!Calls, BT!Exits, P!Exits, BT!Call, P!Call, BT!Return, P!Return,
          BT!ReturnPlain, P!ReturnPlain, BT!EmitWakeUpSignal, P!EmitWakeUpSignal,
          BT!TickRoot, P!TickRoot, BT!TickAgain, P!TickAgain, BT!TickEnds, P!TickEnds,
          BT!Ordered, P!Ordered, BT!Stop, P!Stop, BT!Pass, P!Pass, BT!N, P!N, BT!At,
          P!At, BT!Child, P!Child, BT!IsFresh, P!IsFresh, BT!Interruptible,
          P!Interruptible, BT!LastTry, P!LastTry, BT!CallNext, P!CallNext,
          BT!OrderedTick, P!OrderedTick, BT!OrderedRunning, P!OrderedRunning,
          BT!OrderedStop, P!OrderedStop, BT!OrderedPass, P!OrderedPass, BT!OrderedSkip,
          P!OrderedSkip, BT!OrderedEnd, P!OrderedEnd, BT!OrderedCaught, P!OrderedCaught,
          BT!OrderedStep, P!OrderedStep, BT!Finished, P!Finished, BT!ChildIdle,
          P!ChildIdle, BT!Loops, P!Loops, BT!Again, P!Again, BT!Goes, P!Goes,
          BT!LoopTick, P!LoopTick, BT!LoopAgain, P!LoopAgain, BT!LoopBack, P!LoopBack,
          BT!PreconditionTick, P!PreconditionTick, BT!PreconditionBack,
          P!PreconditionBack, BT!InstantResults, P!InstantResults, BT!InstantTick,
          P!InstantTick, BT!Stateful, P!Stateful, BT!StatefulDone, P!StatefulDone,
          BT!ActionStart, P!ActionStart, BT!ActionFailsAtOnce, P!ActionFailsAtOnce,
          BT!ActionRunning, P!ActionRunning, BT!ActionSuccess, P!ActionSuccess,
          BT!ActionFailure, P!ActionFailure, BT!NoTime, P!NoTime, BT!SleepAtOnce,
          P!SleepAtOnce, BT!SleepStart, P!SleepStart, BT!SleepTick,
          P!SleepTick, BT!SleepSignals, P!SleepSignals, BT!SleepClears, P!SleepClears,
          BT!LeafStep, P!LeafStep, BT!SleepStep, P!SleepStep, BT!timerVars, P!timerVars,
          BT!Results, P!Results, BT!Last, P!Last, BT!Front, P!Front, BT!ToSet, P!ToSet
<1>1. BT!Init => P!Init
  BY DEF BT!Init, P!Init, BT!Timed, P!Timed, BT!WithMem, P!WithMem, BT!Reactives, P!Reactives,
         BT!Parallels, P!Parallels, BT!Branches, P!Branches
<1>2. BT!TickRoot => P!TickRoot
  BY Zenon
<1>3. BT!TickAgain => P!TickAgain
  BY Zenon
<1>4. BT!TickEnds => P!TickEnds
  BY Zenon
<1>5. ASSUME NEW n PROVE BT!OrderedStep(n) => P!OrderedStep(n)
  BY ZenonT(60)
<1>6. ASSUME NEW n PROVE BT!LoopTick(n) => P!LoopTick(n)
  BY ZenonT(60)
<1>7. ASSUME NEW n PROVE BT!LoopAgain(n) => P!LoopAgain(n)
  BY ZenonT(60)
<1>8. ASSUME NEW n PROVE BT!LoopBack(n) => P!LoopBack(n)
  BY ZenonT(60)
<1>9. ASSUME NEW n PROVE BT!PreconditionTick(n) => P!PreconditionTick(n)
  BY ZenonT(60)
<1>10. ASSUME NEW n PROVE BT!PreconditionBack(n) => P!PreconditionBack(n)
  BY ZenonT(60)
<1>11. ASSUME NEW n PROVE BT!LeafStep(n) => P!LeafStep(n)
  BY ZenonT(60)
<1>12. ASSUME NEW n PROVE BT!SleepStep(n) => P!SleepStep(n)
  BY ZenonT(60)
<1> HIDE DEF BT!Init, P!Init, BT!TickRoot, P!TickRoot, BT!TickAgain, P!TickAgain,
             BT!TickEnds, P!TickEnds, BT!OrderedStep, P!OrderedStep, BT!LoopTick,
             P!LoopTick, BT!LoopAgain, P!LoopAgain, BT!LoopBack, P!LoopBack,
             BT!PreconditionTick, P!PreconditionTick, BT!PreconditionBack,
             P!PreconditionBack, BT!LeafStep, P!LeafStep, BT!SleepStep, P!SleepStep
<1> QED
  BY <1>1, <1>2, <1>3, <1>4, <1>5, <1>6, <1>7, <1>8, <1>9, <1>10, <1>11, <1>12

\* The nodes main3.xml does not have do no step.
LEMMA Steps ==
  ASSUME P!TypeOK, BT!Next
  PROVE  \/ P!TickRoot \/ P!TickAgain \/ P!TickEnds
         \/ \E n \in Nodes :
              /\ P!Inside(n)
              /\ \/ P!OrderedStep(n) \/ P!LoopTick(n) \/ P!LoopAgain(n) \/ P!LoopBack(n)
                 \/ P!PreconditionTick(n) \/ P!PreconditionBack(n) \/ P!LeafStep(n)
         \/ \E n \in Sleeps : P!SleepStep(n)
<1>1. tree \in DOMAIN Main3 /\ Main3[tree] = Main3.main3
  BY DEF P!TypeOK, Main3
<1>2. \A n : BT!Kind(n) = Kind[n] /\ ~BT!Has("pre", n)
  BY <1>1 DEF BT!Kind, BT!Has, Main3
<1>3. \A n \in Nodes : Kind[n] \in {"Sequence", "Precondition", "Retry", "Sleep", "Action",
                                    "Instant", "AlwaysFailure", "Forever"}
  BY Kinds
<1>4. CASE BT!TickRoot \/ BT!TickAgain \/ BT!TickEnds
  BY <1>4, SameSteps
<1>5. CASE stack # <<>> /\ BT!NodeStep(BT!Last(stack))
  <2> DEFINE n == BT!Last(stack)
  <2>1. n = P!Last(stack)
    BY DEF BT!Last, P!Last
  <2>2. n \in Nodes /\ P!Inside(n)
    <3>1. stack \in Seq(Nodes)
      BY <1>1, Tree DEF P!TypeOK
    <3> QED
      BY <1>5, <2>1, <3>1 DEF P!Last, P!Inside
  <2>3. Kind[n] \in {"Sequence", "Precondition", "Retry", "Sleep", "Action",
                     "Instant", "AlwaysFailure", "Forever"}
    BY <1>3, <2>2
  <2>4. ~BT!Preempt(n)
    BY <1>2 DEF BT!Preempt
  <2>5. ~BT!ReactiveStep(n) /\ ~BT!ParallelStep(n) /\ ~BT!BranchStep(n)
    BY <1>2, <2>3
    DEF BT!ReactiveStep, BT!ReactiveTick, BT!ReactiveRunning, BT!ReactiveStop, BT!ReactiveNext,
        BT!ParallelStep, BT!ParallelThrow, BT!ParallelTick, BT!ParallelBack, BT!ParallelAllBack,
        BT!BranchStep, BT!BranchTick, BT!BranchChoose, BT!BranchNoElse, BT!BranchThrow,
        BT!BranchRunning, BT!BranchDone, BT!SwitchTick, BT!SwitchBack,
        BT!Entered, BT!Back, BT!Reactives, BT!Parallels
  <2>6. BT!DecoratorStep(n) => \/ BT!LoopTick(n) \/ BT!LoopAgain(n) \/ BT!LoopBack(n)
                               \/ BT!PreconditionTick(n) \/ BT!PreconditionBack(n)
    BY <1>2, <2>3
    DEF BT!DecoratorStep, BT!PlainTick, BT!PlainBack, BT!UpdatedTick, BT!UpdatedBack,
        BT!RunOnceTick, BT!RunOnceBack, BT!QueueTick, BT!QueueBack, BT!ClockStart,
        BT!DelayTick, BT!TimeoutTick, BT!ClockBack,
        BT!Entered, BT!Back, BT!Plain, BT!Clocked
  <2>7. \/ BT!OrderedStep(n) \/ BT!LoopTick(n) \/ BT!LoopAgain(n) \/ BT!LoopBack(n)
        \/ BT!PreconditionTick(n) \/ BT!PreconditionBack(n) \/ BT!LeafStep(n)
    BY <1>5, <2>4, <2>5, <2>6 DEF BT!NodeStep, BT!ControlStep
  <2> QED
    BY <2>2, <2>7, SameSteps
<1>6. CASE BT!TimerStep
  <2>1. PICK n \in DOMAIN timer : BT!SleepStep(n) \/ BT!ClockStep(n)
    BY <1>6 DEF BT!TimerStep
  <2>2. n \in Nodes /\ Kind[n] \in {"Sleep", "Delay", "Timeout"}
    BY <1>1, Tree DEF P!TypeOK, P!Timed
  <2>3. Kind[n] = "Sleep" /\ n \in Sleeps
    BY <1>3, <2>2, Kinds
  <2>4. ~BT!ClockStep(n)
    BY <1>2, <2>3 DEF BT!ClockStep, BT!DelayExpires, BT!DelayAborted, BT!TimeoutExpires
  <2> QED
    BY <2>1, <2>3, <2>4, SameSteps
<1> QED
  BY <1>4, <1>5, <1>6 DEF BT!Next, BT!TickStep

\* Nothing in the robot stops the engine's invariant from holding.
LEMMA EngineStep ==
  ASSUME P!IInv, [Next]_vars
  PROVE  P!IInv'
<1>1. CASE BT!Next
  <2>1. P!TypeOK
    BY DEF P!IInv
  <2>2. P!Next
    <3>1. ASSUME NEW n \in Nodes, P!Inside(n), P!NodeStep(n)
          PROVE  P!Next
      BY <3>1 DEF P!Inside, P!Next, P!TickStep
    <3>2. ASSUME NEW n \in Sleeps, P!SleepStep(n)
          PROVE  P!Next
      <4>1. tree \in DOMAIN Main3
        BY <2>1 DEF P!TypeOK
      <4>2. n \in Nodes /\ Kind[n] = "Sleep"
        BY Kinds
      <4>3. n \in DOMAIN timer
        BY <2>1, <4>1, <4>2, Tree DEF P!TypeOK, P!Timed
      <4> QED
        BY <3>2, <4>3 DEF P!Next, P!TimerStep
    <3> QED
      BY <1>1, <2>1, <3>1, <3>2, Steps
      DEF P!Next, P!TickStep, P!NodeStep, P!ControlStep, P!DecoratorStep
  <2> QED
    BY <2>2, P!NextKeeps, Main3Facts
<1>2. CASE UNCHANGED vars
  <2>1. UNCHANGED P!vars
    BY <1>2 DEF vars, BT!vars, P!vars, BT!timerVars, P!timerVars
  <2> QED
    BY <2>1, P!NextKeeps, Main3Facts
<1> QED
  BY <1>1, <1>2 DEF Next

\* The engine keeps its invariants on this tree as on every well-formed one: the stack is
\* a path of nodes in tick(), and what runs below a node has been called by it.
THEOREM EngineAlways ==
  Spec => []P!IInv
<1>1. Init => P!IInv
  BY SameSteps, P!InitOK, Main3Facts DEF Init
<1> QED
  BY <1>1, EngineStep, PTL DEF Spec

-----------------------------------------------------------------------------
(* No leaf is halted                                                       *)

\* A node has one parent, and is one of its children.
LEMMA Parents ==
  ASSUME tree \in DOMAIN Main3
  PROVE  /\ \A x, n \in DOMAIN Children :
              \A i \in DOMAIN Children[x], j \in DOMAIN Children[n] :
                Children[x][i] = Children[n][j] => x = n /\ i = j
         /\ \A n \in DOMAIN Children :
              /\ n \in Nodes /\ Children[n] \in Seq(Nodes) /\ Len(Children[n]) >= 1
              /\ \A i \in DOMAIN Children[n] : /\ Children[n][i] \in Nodes
                                               /\ Children[n][i] \notin {n, N("main")}
                                               /\ Children[n][i] \in Below[n]
              /\ n \notin Sequences_ => Len(Children[n]) = 1
              /\ P!Children(n) = Children[n]
              /\ P!ChildSet(n) = {Children[n][i] : i \in DOMAIN Children[n]}
         /\ \A n \in Nodes \ DOMAIN Children : P!ChildSet(n) = {}
<1>1. P!Nodes = Nodes /\ P!Root = N("main") /\ \A n : P!Below(n) = Below[n]
  BY Tree
<1>2. DOMAIN Children \subseteq Nodes
  BY DEF Children
<1>3. \A n \in DOMAIN Children : P!Children(n) = Children[n]
  BY Tree
<1>4. \A n \in Nodes : P!Children(n) \in Seq(Nodes) /\ Below[n] \subseteq Nodes
                       /\ n \in Below[n] /\ n \in Below[N("main")]
  BY <1>1, P!TreeFacts, Main3Facts
<1>5. \A n : P!ChildSet(n) = {P!Children(n)[i] : i \in DOMAIN P!Children(n)}
  BY DEF P!ChildSet, P!ToSet
<1>6. \A n \in Nodes \ DOMAIN Children : P!ChildSet(n) = {}
  BY <1>5, Tree
<1>7. \A n \in DOMAIN Children : \A i \in DOMAIN Children[n] :
        Children[n][i] \in P!ChildSet(n) /\ Children[n][i] \in Nodes
  BY <1>2, <1>3, <1>4, <1>5
<1>8. /\ \A n \in Nodes : \A c \in P!ChildSet(n) :
           /\ c \in Below[n] /\ n \notin Below[c]
           /\ \A y \in Nodes : c \in Below[y] => y = c \/ n \in Below[y]
      /\ \A x, y \in Nodes : x \in Below[y] /\ y \in Below[x] => x = y
      /\ \A n \in Nodes : \A i, j \in DOMAIN P!Children(n) : \A x \in Nodes :
           x \in Below[P!Child(n, i)] /\ x \in Below[P!Child(n, j)] => i = j
  BY <1>1, P!BelowFacts, Main3Facts
<1>9. ASSUME NEW x \in DOMAIN Children, NEW n \in DOMAIN Children,
             NEW i \in DOMAIN Children[x], NEW j \in DOMAIN Children[n],
             Children[x][i] = Children[n][j]
      PROVE  x = n /\ i = j
  <2> DEFINE c == Children[x][i]
  <2>1. c \in Nodes /\ c \in P!ChildSet(x) /\ c \in P!ChildSet(n) /\ x \in Nodes /\ n \in Nodes
    BY <1>2, <1>7, <1>9
  <2>2. c # x /\ c # n /\ n \in Below[x] /\ x \in Below[n]
    BY <1>4, <1>8, <2>1
  <2>3. x = n
    BY <1>8, <2>1, <2>2
  <2>4. P!Child(n, i) = c /\ P!Child(n, j) = c /\ i \in DOMAIN P!Children(n)
        /\ j \in DOMAIN P!Children(n)
    BY <1>3, <1>9, <2>3 DEF P!Child
  <2>5. c \in Below[P!Child(n, i)] /\ c \in Below[P!Child(n, j)]
    BY <1>4, <2>1, <2>4
  <2>6. \A y, z \in DOMAIN P!Children(n) : \A w \in Nodes :
          w \in Below[P!Child(n, y)] /\ w \in Below[P!Child(n, z)] => y = z
    BY <1>8, <2>1
  <2>7. i = j
    BY <2>1, <2>4, <2>5, <2>6
  <2> QED
    BY <2>3, <2>7
<1>10. ASSUME NEW n \in DOMAIN Children
       PROVE  Len(Children[n]) >= 1 /\ (n \notin Sequences_ => Len(Children[n]) = 1)
  <2>1. P!WellFormed(Main3[tree]) /\ Main3[tree] = Main3.main3
    BY Main3Facts DEF Main3
  <2>6. DOMAIN Kind = Nodes
    BY DEF Kind
  <2>5. Main3[tree].kind = Kind /\ Main3[tree].children = Children /\ DOMAIN Kind = Nodes
    BY <2>1, <2>6 DEF Main3
  <2>2. Kind[n] \in {"Sequence", "Precondition", "Retry"} /\ (n \in Sequences_ <=> Kind[n] = "Sequence")
    BY <1>2, Kinds
  <2>3. Kind[n] \in P!Controls => Len(Children[n]) >= 1
    BY <1>2, <2>1, <2>5 DEF P!WellFormed
  <2>4. Kind[n] \in P!Decorators => Len(Children[n]) = 1
    BY <1>2, <2>1, <2>5 DEF P!WellFormed
  <2> QED
    BY <2>2, <2>3, <2>4
    DEF P!Controls, P!Decorators, P!Ordered, P!Sequences_, P!Plain, P!Loops, P!Clocked
<1>11. ASSUME NEW n \in DOMAIN Children, NEW i \in DOMAIN Children[n]
       PROVE  Children[n][i] \notin {n, N("main")} /\ Children[n][i] \in Below[n]
  BY <1>2, <1>4, <1>7, <1>8
<1> QED
  BY <1>2, <1>3, <1>4, <1>5, <1>6, <1>7, <1>9, <1>10, <1>11

\* tick() of n leaves s and m behind, and resets the children H.
Sets(n, s, m, H) ==
  /\ status' = [x \in Nodes |-> IF x = n THEN s ELSE IF x \in H THEN "IDLE" ELSE status[x]]
  /\ mem' = [x \in DOMAIN mem |-> IF x = n THEN m ELSE mem[x]]

\* How a node leaves its state when it halts no running child.
LEMMA LeavesIs ==
  ASSUME tree \in DOMAIN Main3, NEW n, NEW s, NEW m, NEW H, P!Leaves(n, s, m, H),
         \A h \in H : status[h] # "RUNNING", n \notin H, s # "SKIPPED"
  PROVE  Sets(n, s, m, H)
<1>1. P!Halted(H) = {}
  BY DEF P!Halted, P!Running
<1>2. H \cup UNION {P!ChildSet(x) : x \in {}} = H
  OBVIOUS
<1>6. P!Nodes = Nodes
  BY Tree
<1>3. status' = [x \in Nodes |-> IF x = n THEN s ELSE IF x \in H THEN "IDLE" ELSE status[x]]
  <2> DEFINE reset == H \cup UNION {P!ChildSet(x) : x \in P!Halted(H)}
  <2>2. status' = [x \in P!Nodes |-> CASE x = n /\ s # "SKIPPED" -> s
                                       [] x \in reset            -> "IDLE"
                                       [] OTHER                  -> status[x]]
    BY Zenon DEF P!Leaves
  <2>1. reset = H
    BY <1>1, <1>2
  <2> HIDE DEF reset
  <2>3. \A x \in Nodes : status'[x] = CASE x = n /\ s # "SKIPPED" -> s
                                          [] x \in reset            -> "IDLE"
                                          [] OTHER                  -> status[x]
    BY <1>6, <2>2
  <2>4. \A x \in Nodes : x # n /\ x \in reset => status'[x] = "IDLE"
    BY <2>3
  <2>5. \A x \in Nodes : x # n /\ x \notin reset => status'[x] = status[x]
    BY <2>3
  <2>6. \A x \in Nodes : x = n => status'[x] = s
    BY <2>1, <2>3
  <2> QED
    BY <1>6, <2>1, <2>2, <2>4, <2>5, <2>6
<1>4. \A x \in DOMAIN mem : mem'[x] = IF x = n THEN m ELSE mem[x]
  BY <1>1 DEF P!Leaves
<1>5. mem' = [x \in DOMAIN mem |-> IF x = n THEN m ELSE mem[x]]
  BY <1>1, <1>4 DEF P!Leaves
<1> QED
  BY <1>3, <1>5 DEF Sets

\* What the invariant of the engine says of the node that is ticked and of the nodes
\* with children.
LEMMA Inside ==
  ASSUME Calm, NEW n, P!Inside(n)
  PROVE  /\ tree \in DOMAIN Main3 /\ n \in Nodes /\ P!TypeOK /\ P!TreeInv
         /\ Top = n /\ n \in Below[n]
         /\ \A x \in Nodes : P!Locked(x) <=> n \in Below[x] /\ (x = n => ret # "unset")
         /\ \A x \in DOMAIN Children :
              \A i \in DOMAIN Children[x] :
                n = Children[x][i] => P!Locked(x) /\ P!CurIdx(x, P!Mem(x)) = i
<1>1. P!TypeOK /\ P!TreeInv /\ tree \in DOMAIN Main3
  BY DEF Calm, Returns, P!IInv, P!TypeOK
<1>2. /\ P!Nodes = Nodes /\ \A x : P!Below(x) = Below[x]
  BY <1>1, Tree
<1>3. Top = n
  BY DEF Top, P!Inside
<1>4. /\ n \in Nodes
      /\ \A x \in Nodes : P!Locked(x) <=> n \in Below[x] /\ (x = n => ret # "unset")
      /\ \A x \in Nodes : P!Locked(x) => /\ P!CurIdx(x, P!Mem(x)) \in DOMAIN P!Children(x)
                                         /\ x # n => n \in Below[P!Cur(x)]
  BY <1>1, <1>2, P!OnPath, Main3Facts DEF P!None
<1>5. n \in Below[n]
  BY <1>1, <1>2, <1>4, P!TreeFacts, Main3Facts
<1>6. ASSUME NEW x \in DOMAIN Children, NEW i \in DOMAIN Children[x], n = Children[x][i]
      PROVE  P!Locked(x) /\ P!CurIdx(x, P!Mem(x)) = i
  <2> DEFINE j == P!CurIdx(x, P!Mem(x))
  <2>1. x \in Nodes /\ n # x /\ n \in Below[x] /\ P!Children(x) = Children[x]
    BY <1>1, <1>6, Parents
  <2>2. P!Locked(x) /\ j \in DOMAIN Children[x] /\ n \in Below[P!Cur(x)]
    BY <1>4, <2>1
  <2>3. P!Cur(x) = P!Child(x, j)
    BY DEF P!Cur
  <2>4. n = P!Child(x, i)
    BY <1>6, <2>1 DEF P!Child
  <2>5. \A y, z \in DOMAIN P!Children(x) :
          n \in Below[P!Child(x, y)] /\ n \in Below[P!Child(x, z)] => y = z
    BY <1>1, <1>2, <1>4, <2>1, P!BelowFacts, Main3Facts
  <2> QED
    BY <1>5, <2>1, <2>2, <2>3, <2>4, <2>5
<1> QED
  BY <1>1, <1>3, <1>4, <1>5, <1>6

\* The members of the nodes with children.
LEMMA Members ==
  ASSUME P!TypeOK, NEW n \in Sequences_ \cup Preconditions \cup {N("retry")}
  PROVE  /\ n \in Nodes /\ n \in DOMAIN mem /\ P!Mem(n) = mem[n]
         /\ mem[n] \in [idx : Nat, skips : Nat, count : Nat, done : SUBSET Nat,
                        on : BOOLEAN, hit : BOOLEAN, fresh : BOOLEAN]
         /\ \A m : P!CurIdx(n, m) = IF n \in Sequences_ THEN m.idx ELSE 1
<1>1. tree \in DOMAIN Main3
  BY DEF P!TypeOK
<1>2. n \in Nodes /\ P!Kind(n) = Kind[n] /\ Kind[n] \in {"Sequence", "Precondition", "Retry"}
      /\ (n \in Sequences_ <=> Kind[n] = "Sequence") /\ n \in DOMAIN Children
  BY <1>1, Kinds, Tree
<1>3. n \in DOMAIN mem
  BY <1>1, <1>2, Tree DEF P!TypeOK, P!WithMem, P!Sequences_
<1>4. mem[n] \in P!MemType(n)
  BY <1>3 DEF P!TypeOK
<1>5. P!Children(n) \in Seq(Nodes)
  BY <1>1, <1>2, Parents
<1>6. DOMAIN P!Children(n) \subseteq Nat /\ 1 .. Len(P!Children(n)) \subseteq Nat
  BY <1>5
<1>7. mem[n] \in [idx : Nat, skips : Nat, count : Nat, done : SUBSET Nat,
                  on : BOOLEAN, hit : BOOLEAN, fresh : BOOLEAN]
  BY <1>4, <1>6 DEF P!MemType
<1>8. \A m : P!CurIdx(n, m) = IF n \in Sequences_ THEN m.idx ELSE 1
  BY <1>2 DEF P!CurIdx, P!Controls, P!Ordered, P!Sequences_, P!Fallbacks, P!Reactives,
              P!Parallels, P!Branches
<1> QED
  BY <1>2, <1>3, <1>7, <1>8 DEF P!Mem

\* The other nodes keep their shape.
LEMMA ShapeFrame ==
  ASSUME Calm, NEW n, P!Inside(n), NEW s, NEW m, NEW H, Sets(n, s, m, H),
         H \subseteq P!ChildSet(n), \A h \in H : status[h] # "RUNNING",
         NEW x \in DOMAIN Children, x # n, P!Locked(x)' <=> P!Locked(x)
  PROVE  Shape(x)'
<1> DEFINE c == Children[x]
<1>1. /\ tree \in DOMAIN Main3 /\ P!TypeOK /\ Shape(x) /\ n \in Nodes
      /\ x \in Sequences_ \cup Preconditions \cup {N("retry")}
  BY Inside, Kinds DEF Calm
<1>2. x \in Nodes /\ x \in DOMAIN mem /\ P!Mem(x) = mem[x] /\ mem'[x] = mem[x]
      /\ P!CurIdx(x, mem[x]) = IF x \in Sequences_ THEN mem[x].idx ELSE 1
  BY <1>1, Members DEF Sets
<1>3. status'[x] = "RUNNING" <=> status[x] = "RUNNING"
  BY <1>2 DEF Sets
<1>4. \A j \in DOMAIN c :
        \/ c[j] # n /\ status'[c[j]] = status[c[j]]
        \/ c[j] = n /\ P!Locked(x) /\ j = P!CurIdx(x, mem[x])
  <2> TAKE j \in DOMAIN c
  <2>1. c[j] \in Nodes
    BY <1>1, Parents
  <2>2. CASE c[j] = n
    BY <1>2, <2>2, Inside
  <2>3. CASE c[j] # n
    <3>1. c[j] \notin H
      <4>1. SUFFICES ASSUME c[j] \in P!ChildSet(n) PROVE FALSE
        OBVIOUS
      <4>2. n \in DOMAIN Children
        BY <1>1, <4>1, Parents
      <4>3. PICK i \in DOMAIN Children[n] : c[j] = Children[n][i]
        BY <1>1, <4>1, <4>2, Parents
      <4> QED
        BY <1>1, <4>2, <4>3, Parents
    <3> QED
      BY <2>1, <2>3, <3>1 DEF Sets
  <2> QED
    BY <2>2, <2>3
<1>5. 1 \in DOMAIN c
  BY <1>1, Parents
<1>6. CASE x \in Sequences_
  <2>1. x \notin Preconditions /\ x # N("retry")
    BY <1>2, <1>6, Kinds
  <2>2. SequenceShape(x)
    BY <1>1, <1>6 DEF Shape
  <2> DEFINE i == mem[x].idx
  <2>3. /\ i \in DOMAIN c /\ DOMAIN c \subseteq Nat /\ mem'[x] = mem[x]
        /\ \A j \in DOMAIN c : j # i => c[j] # n /\ status'[c[j]] = status[c[j]]
        /\ ~P!Locked(x) => \A j \in DOMAIN c : status'[c[j]] = status[c[j]]
    BY <1>1, <1>2, <1>4, <1>6, <2>2, Parents DEF SequenceShape
  <2>4. ~P!Locked(x) => IF status'[x] = "RUNNING" THEN status'[c[i]] = "RUNNING"
                        ELSE i = 1 /\ status'[c[1]] = "IDLE"
    BY <1>3, <1>5, <2>2, <2>3 DEF SequenceShape
  <2>5. /\ \A j \in DOMAIN c : j < i => status'[c[j]] # "RUNNING"
        /\ \A j \in DOMAIN c : j > i => status'[c[j]] = "IDLE"
    BY <2>2, <2>3 DEF SequenceShape
  <2>6. SequenceShape(x)'
    BY <2>2, <2>3, <2>4, <2>5 DEF SequenceShape
  <2> QED
    BY <2>1, <2>6 DEF Shape
<1>7. CASE x \in Preconditions
  <2>1. x \notin Sequences_ /\ x # N("retry")
    BY <1>2, <1>7, Kinds
  <2>2. PreconditionShape(x)'
    BY <1>1, <1>2, <1>3, <1>4, <1>5, <1>7 DEF Shape, PreconditionShape
  <2> QED
    BY <2>1, <2>2 DEF Shape
<1>8. CASE x = N("retry")
  <2>1. x \notin Sequences_ /\ x \notin Preconditions
    BY <1>2, <1>8, Kinds
  <2>2. RetryShape(x)'
    BY <1>1, <1>2, <1>3, <1>4, <1>5, <1>8 DEF Shape, RetryShape
  <2> QED
    BY <2>1, <2>2 DEF Shape
<1> QED
  BY <1>1, <1>6, <1>7, <1>8

\* tick() of n goes on to its i-th child, or is over, with the status s: the children H
\* are reset, nothing else changes but the members of n.
Now(n, s, H) ==
  status' = [x \in Nodes |-> IF x = n THEN s ELSE IF x \in H THEN "IDLE" ELSE status[x]]

GoesDown(n, s, H, i) == Now(n, s, H) /\ ret' = "unset" /\ Top' = Children[n][i] /\ Calm'
GoesUp(n, s, H)      == Now(n, s, H) /\ ret' = s /\ Left' = n /\ Calm'

\* H may be reset by n: children of n, and none of them runs.
Resets(n, H) == H \subseteq P!ChildSet(n) /\ \A h \in H : status[h] # "RUNNING"

\* A node is not one of its own children.
LEMMA NotBelowItself ==
  ASSUME tree \in DOMAIN Main3, NEW n \in Nodes, NEW H, Resets(n, H)
  PROVE  n \notin H
<1>1. CASE n \in DOMAIN Children
  BY <1>1, Parents DEF Resets
<1>2. CASE n \notin DOMAIN Children
  BY <1>2, Parents DEF Resets
<1> QED
  BY <1>1, <1>2

\* executeTick() of a child keeps the shape of the tree.
LEMMA Down ==
  ASSUME Calm, P!IInv', tree' = tree, NEW n \in DOMAIN Children, P!Inside(n), NEW s, NEW m,
         NEW H, NEW i \in DOMAIN Children[n], P!Call(n, s, m, H, i),
         s # "SKIPPED", Resets(n, H), P!CurIdx(n, m) = i,
         Children[n][i] \in H \/ status[Children[n][i]] \in {"IDLE", "RUNNING"},
         Sets(n, s, m, H) /\ P!Locked(n)' => Shape(n)'
  PROVE  GoesDown(n, s, H, i)
<1>1. /\ tree \in DOMAIN Main3 /\ n \in Nodes /\ P!TypeOK /\ P!TreeInv /\ n \in Below[n]
      /\ \A x \in Nodes : P!Locked(x) <=> n \in Below[x] /\ (x = n => ret # "unset")
  BY Inside
<1>2. P!Nodes = Nodes /\ (\A x : P!Below(x) = Below[x]) /\ P!Children(n) = Children[n]
  BY <1>1, Tree
<1>3. Sets(n, s, m, H)
  BY <1>1, LeavesIs, NotBelowItself DEF P!Call, Resets
<1>4. \A x \in Nodes : x # n => P!Mem(x)' = P!Mem(x)
  BY <1>3 DEF Sets, P!Mem
<1>5. P!CurIdx(n, P!Mem(n)') = i
  <2>1. n \in Sequences_ \cup Preconditions \cup {N("retry")}
    BY Kinds
  <2>2. n \in DOMAIN mem
    BY <1>1, <2>1, Members
  <2>3. P!Mem(n)' = m
    BY <1>3, <2>2 DEF Sets, P!Mem
  <2> QED
    BY <2>3
<1>6. P!Calls(n, i)
  BY DEF P!Call
<1>7. ret' = "unset" /\ \A x \in Nodes : P!Locked(x)' <=> n \in Below[x]
  BY <1>1, <1>2, <1>4, <1>5, <1>6, P!Push, Main3Facts DEF P!None
<1>8. Top' = Children[n][i]
  <2>1. stack \in Seq(Nodes)
    BY <1>1, <1>2 DEF P!TypeOK
  <2>2. stack' = Append(stack, Children[n][i])
    BY <1>2, <1>6 DEF P!Calls
  <2> QED
    BY <2>1, <2>2 DEF Top, P!Last
<1>9. \A x \in DOMAIN Children : Shape(x)'
  <2> TAKE x \in DOMAIN Children
  <2>1. x \in Nodes
    BY <1>1, Parents
  <2>2. CASE x = n
    BY <1>1, <1>3, <1>7, <2>2
  <2>3. CASE x # n
    <3>1. P!Locked(x)' <=> P!Locked(x)
      BY <1>1, <1>7, <2>1, <2>3
    <3> QED
      BY <1>3, <2>3, <3>1, ShapeFrame DEF Resets
  <2> QED
    BY <2>2, <2>3
<1>10. Now(n, s, H)
  BY <1>3 DEF Sets, Now
<1>11. status'[Children[n][i]] \in {"IDLE", "RUNNING"}
  <2>1. Children[n][i] \in Nodes /\ Children[n][i] # n
    BY <1>1, Parents
  <2> QED
    BY <1>10, <2>1 DEF Now
<1>12. Returns'
  BY <1>7, <1>8, <1>11 DEF Returns
<1> QED
  BY <1>7, <1>8, <1>9, <1>10, <1>12 DEF GoesDown, Calm

\* A tick() that returns keeps the shape of the tree.
LEMMA Up ==
  ASSUME Calm, P!IInv', tree' = tree, NEW n, P!Inside(n), NEW s, NEW m, NEW H,
         P!Leaves(n, s, m, H), P!Exits(s), s \in {"RUNNING", "SUCCESS", "FAILURE"},
         Resets(n, H),
         n \in DOMAIN Children /\ Sets(n, s, m, H) /\ ~P!Locked(n)' => Shape(n)'
  PROVE  GoesUp(n, s, H)
<1>1. /\ tree \in DOMAIN Main3 /\ n \in Nodes /\ P!TypeOK /\ P!TreeInv
      /\ \A x \in Nodes : P!Locked(x) <=> n \in Below[x] /\ (x = n => ret # "unset")
  BY Inside
<1>2. P!Nodes = Nodes /\ P!Root = N("main") /\ (\A x : P!Below(x) = Below[x])
  BY <1>1, Tree
<1>3. Sets(n, s, m, H)
  BY <1>1, LeavesIs, NotBelowItself DEF Resets
<1>4. \A x \in Nodes : x # n => P!Mem(x)' = P!Mem(x)
  BY <1>3 DEF Sets, P!Mem
<1>5. stack' = P!Front(stack) /\ ret' = s
  BY DEF P!Exits
<1>6. /\ \A x \in Nodes : P!Locked(x)' <=> n \in Below[x] /\ x # n
      /\ (IF stack = <<>> THEN P!Root ELSE P!Cur(P!Last(stack)))' = n
  BY <1>1, <1>2, <1>4, <1>5, P!Pop, Main3Facts DEF P!None
<1>7. Left' = n
  BY <1>1, <1>2, <1>6, Tree DEF Left, P!Root
<1>8. \A x \in DOMAIN Children : Shape(x)'
  <2> TAKE x \in DOMAIN Children
  <2>1. x \in Nodes
    BY <1>1, Parents
  <2>2. CASE x = n
    BY <1>1, <1>3, <1>6, <2>2
  <2>3. CASE x # n
    <3>1. P!Locked(x)' <=> P!Locked(x)
      BY <1>1, <1>6, <2>1, <2>3
    <3> QED
      BY <1>3, <2>3, <3>1, ShapeFrame DEF Resets
  <2> QED
    BY <2>2, <2>3
<1>9. Now(n, s, H)
  BY <1>3 DEF Sets, Now
<1>10. Returns'
  BY <1>1, <1>5, <1>7, <1>9 DEF Returns, Now
<1> QED
  BY <1>5, <1>7, <1>8, <1>9, <1>10 DEF GoesUp, Calm

\* A child of n has returned: nothing below n runs any more, unless it does.
LEMMA Back ==
  ASSUME Calm, NEW n \in DOMAIN Children, P!Inside(n)
  PROVE  LET i == IF n \in Sequences_ THEN mem[n].idx ELSE 1 IN
         /\ i \in DOMAIN Children[n] /\ Left = Children[n][i]
         /\ ret \in {"SUCCESS", "FAILURE"} => status[Left] = ret /\ Resets(n, P!ChildSet(n))
         /\ ret = "RUNNING" => status[Left] = "RUNNING"
         /\ P!Locked(n) <=> ret # "unset"
         /\ 1 \in DOMAIN Children[n]
         /\ n \in DOMAIN mem /\ P!NodeInv(n) /\ P!Mem(n) = mem[n] /\ P!Kind(n) = Kind[n]
<1> DEFINE i == IF n \in Sequences_ THEN mem[n].idx ELSE 1
<1>1. /\ tree \in DOMAIN Main3 /\ n \in Nodes /\ P!TypeOK /\ P!TreeInv
      /\ (P!Locked(n) <=> ret # "unset")
  BY Inside
<1>2. n \in Sequences_ \cup Preconditions \cup {N("retry")} /\ Shape(n)
  BY Kinds DEF Calm
<1>3. P!Nodes = Nodes /\ P!Children(n) = Children[n] /\ P!Kind(n) = Kind[n]
  BY <1>1, Tree
<1>4. n \in DOMAIN mem /\ P!Mem(n) = mem[n] /\ P!CurIdx(n, mem[n]) = i
  BY <1>1, <1>2, Members
<1>5. 1 \in DOMAIN Children[n] /\ i \in DOMAIN Children[n]
  BY <1>2, Parents, <1>1 DEF Shape, SequenceShape
<1>6. Left = Children[n][i]
  BY <1>3, <1>4 DEF Left, P!Inside, P!Cur, P!Child
<1>7. /\ ret \in {"SUCCESS", "FAILURE"} => status[Left] = ret
      /\ ret = "RUNNING" => status[Left] = "RUNNING"
  BY <1>1 DEF P!TreeInv, P!Returned, Left, P!Completed, P!Inside, Calm, Returns
<1>8. ASSUME ret \in {"SUCCESS", "FAILURE"} PROVE Resets(n, P!ChildSet(n))
  <2>1. ASSUME NEW j \in DOMAIN Children[n] PROVE status[Children[n][j]] # "RUNNING"
    <3>1. CASE j = i
      BY <1>6, <1>7, <1>8, <3>1
    <3>2. CASE j # i
      <4>1. n \in Sequences_
        BY <1>1, <3>2, Parents
      <4>2. DOMAIN Children[n] \subseteq Nat /\ i \in Nat /\ j \in Nat
        BY <1>1, <1>5, Parents
      <4> QED
        BY <1>2, <3>2, <4>1, <4>2 DEF Shape, SequenceShape
    <3> QED
      BY <3>1, <3>2
  <2> QED
    BY <1>1, <2>1, Parents DEF Resets
<1>9. P!NodeInv(n)
  BY <1>1, <1>3 DEF P!TreeInv
<1> QED
  BY <1>1, <1>3, <1>4, <1>5, <1>6, <1>7, <1>8, <1>9

\* The steps of a Sequence.
LEMMA SequenceSteps ==
  ASSUME Calm, P!IInv', NEW n \in Sequences_, P!Inside(n), P!OrderedStep(n)
  PROVE  LET i == mem[n].idx
             k == Len(Children[n]) IN
         /\ \/ ret = "unset" /\ GoesDown(n, "RUNNING", {}, i)
            \/ ret = "RUNNING" /\ GoesUp(n, "RUNNING", {})
            \/ ret = "FAILURE" /\ GoesUp(n, "FAILURE", P!ChildSet(n))
            \/ ret = "SUCCESS" /\ i < k /\ GoesDown(n, "RUNNING", {}, i + 1)
            \/ ret = "SUCCESS" /\ i = k /\ GoesUp(n, "SUCCESS", P!ChildSet(n))
         /\ value' = value /\ i \in 1 .. k
<1> DEFINE c == Children[n]
           i == mem[n].idx
           k == Len(c)
<1>1. /\ n \in DOMAIN Children /\ n \in Nodes /\ Kind[n] = "Sequence" /\ tree \in DOMAIN Main3
      /\ n \notin Preconditions /\ n # N("retry") /\ P!TypeOK
  BY Kinds, Inside
<1>2. /\ i \in DOMAIN c /\ Left = c[i] /\ 1 \in DOMAIN c
      /\ (ret \in {"SUCCESS", "FAILURE"} => status[c[i]] = ret /\ Resets(n, P!ChildSet(n)))
      /\ (ret = "RUNNING" => status[c[i]] = "RUNNING")
      /\ (P!Locked(n) <=> ret # "unset")
      /\ n \in DOMAIN mem /\ P!NodeInv(n) /\ P!Mem(n) = mem[n] /\ P!Kind(n) = "Sequence"
  BY <1>1, Back
<1>3. /\ c \in Seq(Nodes) /\ k \in Nat /\ DOMAIN c = 1 .. k /\ P!Children(n) = c
      /\ P!ChildSet(n) = {c[j] : j \in DOMAIN c}
      /\ \A j \in DOMAIN c : c[j] \in Nodes /\ c[j] # n
      /\ \A x, y \in DOMAIN c : c[x] = c[y] => x = y
  BY <1>1, Parents
<1>4. mem[n] \in [idx : Nat, skips : Nat, count : Nat, done : SUBSET Nat,
                  on : BOOLEAN, hit : BOOLEAN, fresh : BOOLEAN]
      /\ \A m : P!CurIdx(n, m) = m.idx
  BY <1>1, Members
<1>5. SequenceShape(n)
  BY <1>1 DEF Calm, Shape
<1>6. ~mem[n].on /\ (ret # "unset" => status[n] = "RUNNING")
  BY <1>2 DEF P!NodeInv, P!NodeOK, P!OrderedOK, P!Ordered, P!Sequences_
<1>7. /\ P!Stop(n) = "FAILURE" /\ P!Pass(n) = "SUCCESS" /\ P!LastTry(n) = k
      /\ ~P!Interruptible(n) /\ P!N(n) = k
  BY <1>2, <1>3 DEF P!Stop, P!Pass, P!LastTry, P!N, P!Interruptible, P!Fallbacks
<1>8. value' = value /\ tree' = tree
  BY DEF P!OrderedStep, P!OrderedTick, P!OrderedRunning, P!OrderedStop, P!OrderedPass,
         P!OrderedSkip, P!OrderedEnd, P!OrderedCaught
<1>9. Resets(n, {}) /\ ret \in {"unset", "RUNNING", "SUCCESS", "FAILURE"}
      /\ (ret = "unset" => status[n] \in {"IDLE", "RUNNING"})
  <2>1. Top = n
    BY Inside
  <2> QED
    BY <2>1 DEF Resets, Calm, Returns
\* The members that n goes on with.
<1>10. ASSUME NEW m, NEW j \in DOMAIN c,
              m = [mem[n] EXCEPT !.idx = j, !.fresh = FALSE, !.skips = 0, !.on = FALSE],
              P!Call(n, "RUNNING", m, {}, j),
              status[c[j]] \in {"IDLE", "RUNNING"},
              \A x \in DOMAIN c : x < j => status[c[x]] # "RUNNING",
              \A x \in DOMAIN c : x > j => status[c[x]] = "IDLE"
       PROVE  GoesDown(n, "RUNNING", {}, j)
  <2>1. m.idx = j /\ ~m.fresh /\ m.skips = 0
    BY <1>4, <1>10
  <2>2. ASSUME Sets(n, "RUNNING", m, {}), P!Locked(n)' PROVE Shape(n)'
    <3>1. mem'[n] = m /\ \A x \in DOMAIN c : status'[c[x]] = status[c[x]]
      BY <1>2, <1>3, <2>2 DEF Sets
    <3>2. SequenceShape(n)'
      BY <1>10, <2>1, <2>2, <3>1 DEF SequenceShape
    <3> QED
      BY <1>1, <3>2 DEF Shape
  <2>3. P!CurIdx(n, m) = j /\ j \in DOMAIN Children[n] /\ Resets(n, {})
    BY <1>4, <1>9, <1>10, <2>1
  <2> QED
    BY <1>1, <1>8, <1>10, <2>2, <2>3, Down
<1>11. CASE P!OrderedTick(n)
  <2>1. ret = "unset"
    BY <1>11 DEF P!OrderedTick, P!Entered, P!None
  <2>2. /\ status[c[i]] \in {"IDLE", "RUNNING"}
        /\ \A x \in DOMAIN c : x < i => status[c[x]] # "RUNNING"
        /\ \A x \in DOMAIN c : x > i => status[c[x]] = "IDLE"
    BY <1>2, <1>5, <2>1 DEF SequenceShape
  <2> DEFINE m == [mem[n] EXCEPT !.idx = i, !.fresh = FALSE, !.skips = 0, !.on = FALSE]
  <2>3. P!Call(n, "RUNNING", m, {}, i)
    <3> DEFINE e == IF status[n] # "IDLE" THEN mem[n]
                    ELSE [mem[n] EXCEPT !.skips = 0, !.on = FALSE]
    <3>1. e = [mem[n] EXCEPT !.skips = 0, !.on = FALSE] /\ ~e.on /\ e.idx = i
      BY <1>4, <1>5, <1>6 DEF SequenceShape
    <3>2. P!CallNext(n, e, IF e.on THEN P!N(n) ELSE e.idx)
      BY <1>11 DEF P!OrderedTick
    <3>3. [P!At(e, i) EXCEPT !.fresh = FALSE] = m
      BY <1>4, <3>1 DEF P!At
    <3> HIDE DEF e, m
    <3>4. P!CallNext(n, e, i)
      BY <3>1, <3>2
    <3> QED
      BY <1>7, <3>3, <3>4 DEF P!CallNext
  <2> HIDE DEF m
  <2>4. GoesDown(n, "RUNNING", {}, i)
    BY <1>2, <1>10, <2>2, <2>3 DEF m
  <2> QED
    BY <1>2, <1>3, <1>8, <2>1, <2>4
\* The node is over, its children are reset.
<1>12. ASSUME NEW s \in {"SUCCESS", "FAILURE"}, NEW m, m.idx = 1, ~m.fresh, m.skips = 0,
              P!Leaves(n, s, m, P!ChildSet(n)), P!Exits(s), Resets(n, P!ChildSet(n))
       PROVE  GoesUp(n, s, P!ChildSet(n))
  <2>1. ASSUME Sets(n, s, m, P!ChildSet(n)), ~P!Locked(n)' PROVE Shape(n)'
    <3>1. mem'[n] = m /\ status'[n] = s /\ \A x \in DOMAIN c : status'[c[x]] = "IDLE"
      BY <1>1, <1>2, <1>3, <2>1 DEF Sets
    <3>2. DOMAIN c \subseteq Nat /\ \A x \in DOMAIN c : ~(x < 1)
      BY <1>3
    <3>3. SequenceShape(n)'
      BY <1>2, <1>12, <3>1, <3>2 DEF SequenceShape
    <3> QED
      BY <1>1, <3>3 DEF Shape
  <2> QED
    BY <1>8, <1>12, <2>1, Up
<1>13. CASE P!OrderedRunning(n)
  <2> DEFINE m == [mem[n] EXCEPT !.fresh = FALSE]
  <2>1. /\ ret = "RUNNING" /\ P!Leaves(n, "RUNNING", m, {}) /\ P!Exits("RUNNING")
    BY <1>13 DEF P!OrderedRunning, P!Return
  <2>2. m.idx = i /\ ~m.fresh /\ m.skips = 0
    BY <1>4, <1>5 DEF SequenceShape
  <2> HIDE DEF m
  <2>3. ASSUME Sets(n, "RUNNING", m, {}), ~P!Locked(n)' PROVE Shape(n)'
    <3>1. mem'[n] = m /\ status'[n] = "RUNNING"
          /\ \A x \in DOMAIN c : status'[c[x]] = status[c[x]]
      BY <1>1, <1>2, <1>3, <2>3 DEF Sets
    <3>2. SequenceShape(n)'
      BY <1>2, <1>5, <2>1, <2>2, <3>1 DEF SequenceShape
    <3> QED
      BY <1>1, <3>2 DEF Shape
  <2>4. GoesUp(n, "RUNNING", {})
    BY <1>8, <1>9, <2>1, <2>3, Up
  <2> QED
    BY <1>2, <1>3, <1>8, <2>1, <2>4
<1>14. CASE P!OrderedStop(n)
  <2> DEFINE m == [P!At(mem[n], 1) EXCEPT !.fresh = FALSE]
  <2>1. /\ ret = "FAILURE" /\ P!Leaves(n, "FAILURE", m, P!ChildSet(n)) /\ P!Exits("FAILURE")
    BY <1>2, <1>7, <1>14 DEF P!OrderedStop, P!Return
  <2>2. m.idx = 1 /\ ~m.fresh /\ m.skips = 0
    BY <1>4, <1>5 DEF SequenceShape, P!At
  <2> HIDE DEF m
  <2>3. GoesUp(n, "FAILURE", P!ChildSet(n))
    BY <1>2, <1>12, <2>1, <2>2
  <2> QED
    BY <1>2, <1>3, <1>8, <2>1, <2>3
<1>15. CASE P!OrderedPass(n)
  <2>1. ret = "SUCCESS" /\ i < k /\ ~mem[n].fresh
    BY <1>5, <1>7, <1>15 DEF P!OrderedPass, SequenceShape
  <2>2. P!CallNext(n, mem[n], i + 1)
    BY <2>1, <1>15 DEF P!OrderedPass
  <2>3. i + 1 \in DOMAIN c /\ i \in Nat
    BY <1>2, <1>3, <2>1
  <2> DEFINE m == [mem[n] EXCEPT !.idx = i + 1, !.fresh = FALSE, !.skips = 0, !.on = FALSE]
  <2>4. [P!At(mem[n], i + 1) EXCEPT !.fresh = FALSE] = m
    BY <1>4, <1>5, <1>6 DEF P!At, SequenceShape
  <2> HIDE DEF m
  <2>5. P!Call(n, "RUNNING", m, {}, i + 1)
    BY <1>7, <2>2, <2>4 DEF P!CallNext
  <2>6. status[c[i + 1]] = "IDLE"
    BY <1>5, <2>3 DEF SequenceShape
  <2>7. /\ \A x \in DOMAIN c : x < i + 1 => status[c[x]] # "RUNNING"
        /\ \A x \in DOMAIN c : x > i + 1 => status[c[x]] = "IDLE"
    <3>1. \A x \in DOMAIN c : /\ x < i + 1 => x < i \/ x = i
                              /\ x > i + 1 => x > i
      BY <1>3, <2>3
    <3> QED
      BY <1>2, <1>5, <2>1, <3>1 DEF SequenceShape
  <2>8. GoesDown(n, "RUNNING", {}, i + 1)
    BY <1>10, <2>3, <2>5, <2>6, <2>7 DEF m
  <2> QED
    BY <1>2, <1>3, <1>8, <2>1, <2>8
<1>16. CASE P!OrderedEnd(n)
  <2>1. ret = "SUCCESS" /\ i = k
    BY <1>7, <1>9, <1>16 DEF P!OrderedEnd
  <2> DEFINE m == [P!Blank EXCEPT !.fresh = FALSE]
  <2>2. P!Return(n, IF mem[n].skips + (IF ret = "SKIPPED" THEN 1 ELSE 0) = k THEN "SKIPPED"
                    ELSE "SUCCESS", P!Blank, P!ChildSet(n))
    BY <1>7, <1>16 DEF P!OrderedEnd
  <2>3. mem[n].skips + (IF ret = "SKIPPED" THEN 1 ELSE 0) # k
    BY <1>2, <1>3, <1>5, <2>1 DEF SequenceShape
  <2>4. P!Leaves(n, "SUCCESS", m, P!ChildSet(n)) /\ P!Exits("SUCCESS")
    BY <2>2, <2>3 DEF P!Return
  <2>5. m.idx = 1 /\ ~m.fresh /\ m.skips = 0
    BY DEF P!Blank
  <2> HIDE DEF m
  <2>6. GoesUp(n, "SUCCESS", P!ChildSet(n))
    BY <1>2, <1>12, <2>1, <2>4, <2>5
  <2> QED
    BY <1>2, <1>3, <1>8, <2>1, <2>6
<1>17. ~P!OrderedSkip(n) /\ ~P!OrderedCaught(n)
  BY <1>6, <1>9 DEF P!OrderedSkip, P!OrderedCaught
<1> QED
  BY <1>11, <1>13, <1>14, <1>15, <1>16, <1>17 DEF P!OrderedStep

\* The steps of a Precondition.
LEMMA PreconditionSteps ==
  ASSUME Calm, P!IInv', NEW n \in Preconditions, P!Inside(n),
         P!PreconditionTick(n) \/ P!PreconditionBack(n)
  PROVE  /\ \/ /\ ret = "unset" /\ (status[n] = "RUNNING" \/ value \in Cond[n])
               /\ GoesDown(n, status[n], {}, 1)
            \/ ret = "unset" /\ status[n] = "IDLE" /\ value \notin Cond[n] /\ GoesUp(n, "SUCCESS", {})
            \/ ret = "RUNNING" /\ GoesUp(n, "RUNNING", {})
            \/ ret \in {"SUCCESS", "FAILURE"} /\ GoesUp(n, ret, P!ChildSet(n))
         /\ value' = value
<1> DEFINE c == Children[n][1]
<1>1. /\ n \in DOMAIN Children /\ n \in Nodes /\ Kind[n] = "Precondition"
      /\ n \notin Sequences_ /\ n # N("retry") /\ tree \in DOMAIN Main3 /\ P!TypeOK
  BY Kinds, Inside
<1>2. /\ Left = c /\ 1 \in DOMAIN Children[n]
      /\ (ret \in {"SUCCESS", "FAILURE"} => status[c] = ret /\ Resets(n, P!ChildSet(n)))
      /\ (ret = "RUNNING" => status[c] = "RUNNING")
      /\ (P!Locked(n) <=> ret # "unset")
      /\ n \in DOMAIN mem /\ P!Mem(n) = mem[n] /\ P!Kind(n) = "Precondition"
  BY <1>1, Back
<1>3. c \in Nodes /\ c # n /\ c \in P!ChildSet(n)
  BY <1>1, <1>2, Parents
<1>4. mem[n] \in [idx : Nat, skips : Nat, count : Nat, done : SUBSET Nat,
                  on : BOOLEAN, hit : BOOLEAN, fresh : BOOLEAN]
      /\ \A m : P!CurIdx(n, m) = 1
  BY <1>1, Members
<1>5. PreconditionShape(n)
  BY <1>1 DEF Calm, Shape
<1>6. value' = value /\ tree' = tree
  BY DEF P!PreconditionTick, P!PreconditionBack
<1>7. Resets(n, {}) /\ ret \in {"unset", "RUNNING", "SUCCESS", "FAILURE"}
      /\ (ret = "unset" => status[n] \in {"IDLE", "RUNNING"})
  <2>1. Top = n
    BY Inside
  <2> QED
    BY <2>1 DEF Resets, Calm, Returns
<1>8. CASE P!PreconditionTick(n)
  <2>1. ret = "unset" /\ ~P!Locked(n)
    BY <1>2, <1>8 DEF P!PreconditionTick, P!Entered, P!None
  <2>2. /\ mem[n].on <=> status[n] = "RUNNING"
        /\ status[c] = IF status[n] = "RUNNING" THEN "RUNNING" ELSE "IDLE"
    BY <1>5, <2>1 DEF PreconditionShape
  <2>3. P!Has("cond", n) /\ P!Port("cond", n) = Cond[n] /\ P!Port("else", n) = "SUCCESS"
    BY <1>1, Tree
  <2>4. PICK holds \in CASE mem[n].on                      -> {TRUE}
                         [] ~mem[n].on /\ P!Has("cond", n) -> {value \in P!Port("cond", n)}
                         [] OTHER                          -> BOOLEAN :
          IF holds THEN P!Call(n, status[n], [mem[n] EXCEPT !.on = TRUE], {}, 1)
          ELSE P!Return(n, P!Port("else", n), mem[n], {})
    BY <1>8 DEF P!PreconditionTick
  <2>5. mem[n].on \in BOOLEAN
    BY <1>4
  <2>6. CASE status[n] = "RUNNING" \/ value \in Cond[n]
    <3> DEFINE m == [mem[n] EXCEPT !.on = TRUE]
    <3>1. P!Call(n, status[n], m, {}, 1)
      BY <2>2, <2>3, <2>4, <2>5, <2>6
    <3>2. m.on
      BY <1>4
    <3> HIDE DEF m
    <3>3. ASSUME Sets(n, status[n], m, {}), P!Locked(n)' PROVE Shape(n)'
      <4>1. mem'[n] = m
        BY <1>2, <3>3 DEF Sets
      <4> QED
        BY <1>1, <3>2, <3>3, <4>1 DEF Shape, PreconditionShape
    <3>4. GoesDown(n, status[n], {}, 1)
      BY <1>1, <1>2, <1>4, <1>6, <1>7, <2>1, <2>2, <3>1, <3>3, Down
    <3> QED
      BY <1>6, <2>1, <2>6, <3>4
  <2>7. CASE ~(status[n] = "RUNNING" \/ value \in Cond[n])
    <3> DEFINE m == [mem[n] EXCEPT !.fresh = FALSE]
    <3>1. P!Leaves(n, "SUCCESS", m, {}) /\ P!Exits("SUCCESS")
      BY <2>2, <2>3, <2>4, <2>5, <2>7 DEF P!Return
    <3>2. ~m.on
      BY <1>4, <2>2, <2>7
    <3> HIDE DEF m
    <3>3. ASSUME Sets(n, "SUCCESS", m, {}), ~P!Locked(n)' PROVE Shape(n)'
      <4>1. mem'[n] = m /\ status'[n] = "SUCCESS" /\ status'[c] = "IDLE"
        BY <1>1, <1>2, <1>3, <2>2, <2>7, <3>3 DEF Sets
      <4> QED
        BY <1>1, <3>2, <3>3, <4>1 DEF Shape, PreconditionShape
    <3>4. GoesUp(n, "SUCCESS", {})
      BY <1>6, <1>7, <3>1, <3>3, Up
    <3> QED
      BY <1>6, <1>7, <2>1, <2>7, <3>4
  <2> QED
    BY <2>6, <2>7
<1>9. CASE P!PreconditionBack(n)
  <2>1. ret \in {"RUNNING", "SUCCESS", "FAILURE"} /\ P!Locked(n)
    BY <1>2, <1>7, <1>9 DEF P!PreconditionBack, P!Back, P!None
  <2>2. mem[n].on
    BY <1>5, <2>1 DEF PreconditionShape
  <2>3. CASE ret = "RUNNING"
    <3> DEFINE m == [mem[n] EXCEPT !.fresh = FALSE]
    <3>1. P!Leaves(n, "RUNNING", m, {}) /\ P!Exits("RUNNING")
      BY <1>9, <2>3 DEF P!PreconditionBack, P!Return, P!Completed, P!Finished
    <3>2. m.on
      BY <1>4, <2>2
    <3> HIDE DEF m
    <3>3. ASSUME Sets(n, "RUNNING", m, {}), ~P!Locked(n)' PROVE Shape(n)'
      <4>1. mem'[n] = m /\ status'[n] = "RUNNING" /\ status'[c] = "RUNNING"
        BY <1>1, <1>2, <1>3, <2>3, <3>3 DEF Sets
      <4> QED
        BY <1>1, <3>2, <3>3, <4>1 DEF Shape, PreconditionShape
    <3>4. GoesUp(n, "RUNNING", {})
      BY <1>6, <1>7, <3>1, <3>3, Up
    <3> QED
      BY <1>6, <2>3, <3>4
  <2>4. CASE ret \in {"SUCCESS", "FAILURE"}
    <3> DEFINE m == [P!Blank EXCEPT !.fresh = FALSE]
    <3>1. P!Leaves(n, ret, m, P!ChildSet(n)) /\ P!Exits(ret)
      BY <1>9, <2>4 DEF P!PreconditionBack, P!Return, P!Completed, P!Finished
    <3>2. ~m.on
      BY DEF P!Blank
    <3> HIDE DEF m
    <3>3. ASSUME Sets(n, ret, m, P!ChildSet(n)), ~P!Locked(n)' PROVE Shape(n)'
      <4>1. mem'[n] = m /\ status'[n] = ret /\ status'[c] = "IDLE"
        BY <1>1, <1>2, <1>3, <2>4, <3>3 DEF Sets
      <4> QED
        BY <1>1, <2>4, <3>2, <3>3, <4>1 DEF Shape, PreconditionShape
    <3>4. GoesUp(n, ret, P!ChildSet(n))
      BY <1>2, <1>6, <2>4, <3>1, <3>3, Up
    <3> QED
      BY <1>6, <2>4, <3>4
  <2> QED
    BY <2>1, <2>3, <2>4
<1> QED
  BY <1>8, <1>9

\* The steps of the Retry.
LEMMA RetrySteps ==
  ASSUME Calm, P!IInv', P!Inside(N("retry")),
         P!LoopTick(N("retry")) \/ P!LoopAgain(N("retry")) \/ P!LoopBack(N("retry"))
  PROVE  LET n == N("retry") IN
         /\ \/ ret = "unset" /\ GoesDown(n, "RUNNING", {}, 1)
            \/ ret = "FAILURE" /\ GoesDown(n, "RUNNING", P!ChildSet(n), 1)
            \/ ret = "FAILURE" /\ GoesUp(n, "RUNNING", P!ChildSet(n))
            \/ ret = "RUNNING" /\ GoesUp(n, "RUNNING", {})
            \/ ret = "SUCCESS" /\ GoesUp(n, "SUCCESS", P!ChildSet(n))
         /\ value' = value
<1> DEFINE n == N("retry")
           c == Children[n][1]
<1>1. /\ n \in DOMAIN Children /\ n \in Nodes /\ Kind[n] = "Retry"
      /\ n \notin Sequences_ /\ n \notin Preconditions /\ tree \in DOMAIN Main3 /\ P!TypeOK
  BY Kinds, Inside
<1> HIDE DEF n
<1>0. n = N("retry") /\ P!Inside(n) /\ (P!LoopTick(n) \/ P!LoopAgain(n) \/ P!LoopBack(n))
  BY DEF n
<1>2. /\ Left = c /\ 1 \in DOMAIN Children[n]
      /\ (ret \in {"SUCCESS", "FAILURE"} => status[c] = ret /\ Resets(n, P!ChildSet(n)))
      /\ (ret = "RUNNING" => status[c] = "RUNNING")
      /\ (P!Locked(n) <=> ret # "unset")
      /\ n \in DOMAIN mem /\ P!Mem(n) = mem[n] /\ P!Kind(n) = "Retry"
  BY <1>0, <1>1, Back
<1>3. c \in Nodes /\ c # n /\ c \in P!ChildSet(n)
  BY <1>1, <1>2, Parents
<1>4. \A m : P!CurIdx(n, m) = 1
  BY <1>0, <1>1, Members
<1>5. RetryShape(n)
  BY <1>0, <1>1 DEF Calm, Shape
<1>6. value' = value /\ tree' = tree
  BY <1>0 DEF P!LoopTick, P!LoopAgain, P!LoopBack
<1>7. Resets(n, {}) /\ ret \in {"unset", "RUNNING", "SUCCESS", "FAILURE"}
  BY DEF Resets, Calm, Returns
<1>8. P!Port("param", n) = -1 /\ P!Again(n) = "FAILURE" /\ \A k : P!Goes(n, k)
  BY <1>0, <1>1, <1>2, Tree DEF P!Goes, P!Again
<1>9. ASSUME NEW m, NEW H, P!Call(n, "RUNNING", m, H, 1), Resets(n, H),
             c \in H \/ status[c] \in {"IDLE", "RUNNING"}
      PROVE  GoesDown(n, "RUNNING", H, 1)
  <2>1. ASSUME Sets(n, "RUNNING", m, H), P!Locked(n)' PROVE Shape(n)'
    BY <1>0, <1>1, <2>1 DEF Shape, RetryShape
  <2>2. P!CurIdx(n, m) = 1
    BY <1>4
  <2> QED
    BY <1>0, <1>1, <1>2, <1>6, <1>9, <2>1, <2>2, Down
<1>10. ASSUME NEW s \in {"RUNNING", "SUCCESS"}, NEW m, NEW H,
              P!Leaves(n, s, m, H), P!Exits(s), Resets(n, H),
              c \in H \/ (s = "RUNNING" /\ status[c] = "RUNNING")
       PROVE  GoesUp(n, s, H)
  <2>1. ASSUME Sets(n, s, m, H) PROVE Shape(n)'
    <3>1. status'[n] = s /\ (status'[c] = "IDLE" \/ (s = "RUNNING" /\ status'[c] = "RUNNING"))
      BY <1>1, <1>3, <1>10, <2>1 DEF Sets
    <3> QED
      BY <1>0, <1>1, <3>1 DEF Shape, RetryShape
  <2> QED
    BY <1>0, <1>6, <1>10, <2>1, Up
<1>11. CASE P!LoopTick(n)
  <2>1. ret = "unset" /\ ~P!Locked(n)
    BY <1>2, <1>11 DEF P!LoopTick, P!Entered, P!None
  <2>2. status[c] \in {"IDLE", "RUNNING"}
    BY <1>5, <2>1 DEF RetryShape
  <2>3. P!Call(n, "RUNNING", [mem[n] EXCEPT !.fresh = P!ChildIdle(n)], {}, 1)
    BY <1>8, <1>11 DEF P!LoopTick
  <2>4. GoesDown(n, "RUNNING", {}, 1)
    BY <1>7, <1>9, <2>2, <2>3
  <2> QED
    BY <1>6, <2>1, <2>4 DEF n
<1>12. CASE P!LoopAgain(n)
  <2> DEFINE m == [P!Blank EXCEPT !.count = 0, !.fresh = TRUE]
             k == IF P!Port("param", n) = -1 THEN 0 ELSE mem[n].count + 1
  <2>1. ret = "FAILURE" /\ Resets(n, P!ChildSet(n))
    BY <1>2, <1>8, <1>12 DEF P!LoopAgain
  <2>2. k = 0
    BY <1>8
  <2>3. \/ P!Return(n, "RUNNING", [P!Blank EXCEPT !.count = k, !.fresh = TRUE], P!ChildSet(n))
        \/ P!Call(n, "RUNNING", [P!Blank EXCEPT !.count = k, !.fresh = TRUE], P!ChildSet(n), 1)
    BY <1>8, <1>12 DEF P!LoopAgain
  <2>4. CASE P!Return(n, "RUNNING", m, P!ChildSet(n))
    <3>1. P!Leaves(n, "RUNNING", [m EXCEPT !.fresh = FALSE], P!ChildSet(n)) /\ P!Exits("RUNNING")
      BY <2>4 DEF P!Return
    <3>2. GoesUp(n, "RUNNING", P!ChildSet(n))
      BY <1>3, <1>10, <2>1, <3>1
    <3> QED
      BY <1>6, <2>1, <3>2 DEF n
  <2>5. CASE P!Call(n, "RUNNING", m, P!ChildSet(n), 1)
    <3>1. GoesDown(n, "RUNNING", P!ChildSet(n), 1)
      BY <1>3, <1>9, <2>1, <2>5
    <3> QED
      BY <1>6, <2>1, <3>1 DEF n
  <2> QED
    BY <2>2, <2>3, <2>4, <2>5
<1>13. CASE P!LoopBack(n)
  <2>1. ret \in {"RUNNING", "SUCCESS"}
    BY <1>7, <1>8, <1>13 DEF P!LoopBack, P!Back, P!None
  <2> DEFINE m == IF ret \in P!Completed THEN P!Blank ELSE mem[n]
             H == IF ret = "RUNNING" THEN {} ELSE P!ChildSet(n)
  <2>2. P!Leaves(n, ret, [m EXCEPT !.fresh = FALSE], H) /\ P!Exits(ret)
    BY <1>13 DEF P!LoopBack, P!Return
  <2> HIDE DEF m
  <2>3. GoesUp(n, ret, H)
    BY <1>2, <1>3, <1>7, <1>10, <2>1, <2>2
  <2> QED
    BY <1>6, <2>1, <2>3 DEF n
<1> QED
  BY <1>0, <1>11, <1>12, <1>13

\* The steps of a leaf.
LEMMA LeafSteps ==
  ASSUME Calm, P!IInv', NEW n \in Nodes, P!Inside(n), P!LeafStep(n)
  PROVE  \E s \in {"RUNNING", "SUCCESS", "FAILURE"} :
           /\ n \notin DOMAIN Children /\ ret = "unset" /\ GoesUp(n, s, {})
           /\ n \in {N("speed"), N("init")} => s = "SUCCESS"
           /\ n = N("again") => s = "FAILURE"
           /\ n = N("finish") => s = "RUNNING"
           /\ n \in Timed /\ status[n] = "IDLE" =>
                s = "RUNNING" \/ (s = "FAILURE" /\ n \in MayFailAtOnce)
           /\ n \in Sleeps => s # "FAILURE"
           /\ IF n = N("approach") /\ status[n] = "RUNNING" /\ s = "SUCCESS"
              THEN value' \in Labels ELSE value' = value
<1>1. tree \in DOMAIN Main3 /\ Main3[tree] = Main3.main3 /\ Top = n
  BY Inside DEF Main3
<1>2. /\ P!Kind(n) = Kind[n] /\ (P!Has("writes", n) <=> n = N("approach"))
      /\ P!Port("writes", N("approach")) = Labels
  BY <1>1, Tree
<1>13. N("approach") \in Actions /\ N("approach") \in Timed /\ N("approach") \notin Sleeps
  <2>1. N("approach") \in Actions
    BY DEF Actions
  <2>2. N("approach") \notin Sleeps
    BY DEF Sleeps, N
  <2> QED
    BY <2>1, <2>2, Kinds
<1>3. ret = "unset" /\ status[n] \in {"IDLE", "RUNNING"}
  <2>1. ret = "unset"
    BY DEF P!LeafStep, P!InstantTick, P!StatefulDone, P!SleepAtOnce, P!SleepStart, P!SleepTick,
           P!ActionStart,
           P!ActionFailsAtOnce, P!ActionRunning, P!ActionSuccess, P!ActionFailure, P!Entered,
           P!None
  <2> QED
    BY <1>1, <2>1 DEF Calm, Returns
<1>4. n \notin DOMAIN Children /\ n \notin Sequences_ \cup Preconditions \cup {N("retry")}
  <2>1. Kind[n] \in {"Instant", "AlwaysFailure", "Condition", "Forever", "Action", "Sleep"}
    BY <1>2 DEF P!LeafStep, P!InstantTick, P!StatefulDone, P!SleepAtOnce, P!SleepStart, P!SleepTick,
                P!ActionStart, P!ActionFailsAtOnce, P!ActionRunning, P!ActionSuccess,
                P!ActionFailure, P!Entered, P!Stateful, P!InstantResults
  <2> QED
    BY <2>1, Kinds
<1>5. ASSUME NEW s \in {"RUNNING", "SUCCESS", "FAILURE"}, NEW m,
             P!Leaves(n, s, m, {}), P!Exits(s), tree' = tree
      PROVE  GoesUp(n, s, {})
  <2>1. Resets(n, {})
    BY DEF Resets
  <2> QED
    BY <1>4, <1>5, <2>1, Up
<1>6. CASE P!InstantTick(n)
  <2>1. PICK s \in P!InstantResults(Kind[n]) : P!ReturnPlain(n, s, {})
    BY <1>2, <1>6 DEF P!InstantTick
  <2>2. tree' = tree /\ value' = value
    BY <1>6 DEF P!InstantTick
  <2>3. CASE n \in {N("speed"), N("init")}
    <3>1. s = "SUCCESS" /\ n \notin Timed /\ n \notin {N("again"), N("finish")}
      BY <2>1, <2>3, Kinds DEF P!InstantResults, N
    <3> QED
      BY <1>3, <1>4, <1>5, <2>1, <2>2, <2>3, <3>1, <1>13, Kinds DEF P!ReturnPlain
  <2>4. CASE n = N("again")
    <3>1. s = "FAILURE" /\ n \notin Timed /\ n \notin {N("speed"), N("init"), N("finish")}
      BY <2>1, <2>4, Kinds DEF P!InstantResults
    <3> QED
      BY <1>3, <1>4, <1>5, <2>1, <2>2, <2>4, <3>1, <1>13, Kinds DEF P!ReturnPlain
  <2>5. CASE n = N("finish")
    <3>1. s = "RUNNING" /\ n \notin Timed /\ n \notin {N("speed"), N("init"), N("again")}
      BY <2>1, <2>5, Kinds DEF P!InstantResults
    <3> QED
      BY <1>3, <1>4, <1>5, <2>1, <2>2, <2>5, <3>1, <1>13, Kinds DEF P!ReturnPlain
  <2>6. CASE n \in Timed
    <3>1. P!InstantResults(Kind[n]) = {}
      BY <2>6, Kinds DEF P!InstantResults
    <3> QED
      BY <2>1, <3>1
  <2> QED
    BY <1>4, <2>3, <2>4, <2>5, <2>6, Kinds
<1>7. n \in Timed => n \notin {N("speed"), N("init"), N("again"), N("finish")}
  BY Kinds
<1>8. ~P!StatefulDone(n)
  BY <1>3 DEF P!StatefulDone, P!Completed
<1>14. ~P!SleepAtOnce(n)
  <2>1. P!Kind(n) = "Sleep" => ~P!Has("param", n)
    BY <1>1, <1>2, <1>4, Tree
  <2> QED
    BY <2>1 DEF P!SleepAtOnce, P!NoTime, P!Entered
<1>9. CASE P!SleepStart(n) \/ P!SleepTick(n)
  <2>1. n \in Sleeps /\ n \in Timed /\ n # N("approach") /\ tree' = tree /\ value' = value
    BY <1>2, <1>9, <1>13, Kinds DEF P!SleepStart, P!SleepTick, P!Entered
  <2>2. CASE P!SleepStart(n)
    <3>1. GoesUp(n, "RUNNING", {})
      BY <1>5, <2>1, <2>2 DEF P!SleepStart
    <3> QED
      BY <1>3, <1>4, <1>7, <2>1, <3>1
  <2>3. CASE P!SleepTick(n)
    <3>1. PICK s \in {"RUNNING", "SUCCESS"} : P!Return(n, s, mem[n], {})
      BY <2>3 DEF P!SleepTick
    <3>2. GoesUp(n, s, {}) /\ status[n] # "IDLE"
      BY <1>5, <2>1, <2>3, <3>1 DEF P!SleepTick, P!Return
    <3> QED
      BY <1>3, <1>4, <1>7, <2>1, <3>1, <3>2
  <2> QED
    BY <1>9, <2>2, <2>3
<1>10. CASE P!ActionStart(n) \/ P!ActionFailsAtOnce(n) \/ P!ActionRunning(n)
            \/ P!ActionSuccess(n) \/ P!ActionFailure(n)
  <2>1. n \in Actions /\ n \in Timed /\ n \notin Sleeps /\ tree' = tree
    BY <1>2, <1>10, Kinds
    DEF P!ActionStart, P!ActionFailsAtOnce, P!ActionRunning, P!ActionSuccess, P!ActionFailure,
        P!Entered
  <2>2. CASE P!ActionStart(n) \/ P!ActionRunning(n)
    <3>1. GoesUp(n, "RUNNING", {}) /\ value' = value
      BY <1>5, <2>1, <2>2 DEF P!ActionStart, P!ActionRunning, P!ReturnPlain
    <3> QED
      BY <1>3, <1>4, <1>7, <2>1, <3>1
  <2>3. CASE P!ActionFailsAtOnce(n)
    <3>1. GoesUp(n, "FAILURE", {}) /\ value' = value
      BY <1>5, <2>1, <2>3 DEF P!ActionFailsAtOnce, P!ReturnPlain
    <3>2. n \in MayFailAtOnce
      BY <1>1, <2>3 DEF P!ActionFailsAtOnce, Main3
    <3> QED
      BY <1>3, <1>4, <1>7, <2>1, <3>1, <3>2
  <2>4. CASE P!ActionSuccess(n)
    <3>1. GoesUp(n, "SUCCESS", {}) /\ status[n] = "RUNNING"
      BY <1>5, <2>1, <2>4 DEF P!ActionSuccess, P!ReturnPlain
    <3>2. IF n = N("approach") THEN value' \in Labels ELSE value' = value
      BY <1>2, <2>4 DEF P!ActionSuccess
    <3> QED
      BY <1>3, <1>4, <1>7, <2>1, <3>1, <3>2
  <2>5. CASE P!ActionFailure(n)
    <3>1. GoesUp(n, "FAILURE", {}) /\ value' = value /\ status[n] = "RUNNING"
      BY <1>5, <2>1, <2>5 DEF P!ActionFailure, P!ReturnPlain
    <3> QED
      BY <1>3, <1>4, <1>7, <2>1, <3>1
  <2> QED
    BY <1>10, <2>2, <2>3, <2>4, <2>5
<1> QED
  BY <1>6, <1>8, <1>9, <1>10, <1>14 DEF P!LeafStep

\* Steps that change no status but that of the root.
LEMMA ShapesKept ==
  ASSUME Calm, tree' = tree,
         \A x \in DOMAIN Children : mem'[x] = mem[x] /\ (P!Locked(x)' <=> P!Locked(x)),
         \A x \in Nodes : x # N("main") => status'[x] = status[x],
         status'[N("main")] = "RUNNING" <=> status[N("main")] = "RUNNING"
  PROVE  \A x \in DOMAIN Children : Shape(x)'
<1> TAKE x \in DOMAIN Children
<1>1. tree \in DOMAIN Main3 /\ Shape(x) /\ x \in Sequences_ \cup Preconditions \cup {N("retry")}
  BY Kinds DEF Calm, P!IInv, P!TypeOK
<1>2. /\ \A j \in DOMAIN Children[x] : status'[Children[x][j]] = status[Children[x][j]]
      /\ 1 \in DOMAIN Children[x] /\ x \in Nodes
  BY <1>1, Parents
<1>3. status'[x] = "RUNNING" <=> status[x] = "RUNNING"
  BY <1>2
<1>4. mem'[x] = mem[x] /\ (P!Locked(x)' <=> P!Locked(x))
  OBVIOUS
<1>5. SequenceShape(x) => SequenceShape(x)'
  BY <1>2, <1>3, <1>4 DEF SequenceShape
<1>6. PreconditionShape(x) => PreconditionShape(x)'
  BY <1>2, <1>3, <1>4 DEF PreconditionShape
<1>7. RetryShape(x) => RetryShape(x)'
  BY <1>2, <1>3, <1>4 DEF RetryShape
<1> QED
  BY <1>1, <1>5, <1>6, <1>7 DEF Shape

\* tickRoot() begins, begins again, or is over.
LEMMA RootSteps ==
  ASSUME Calm, P!IInv', P!TickRoot \/ P!TickAgain \/ P!TickEnds
  PROVE  /\ stack = <<>> /\ Left = N("main") /\ ret' = "unset" /\ Top' = N("main") /\ Calm'
         /\ value' = value
         /\ status' = IF ret \in {"SUCCESS", "FAILURE"} THEN [status EXCEPT ![N("main")] = "IDLE"]
                      ELSE status
<1>1. /\ tree \in DOMAIN Main3 /\ P!TypeOK /\ tree' = tree /\ mem' = mem /\ value' = value
      /\ stack = <<>> /\ ret' = "unset"
  BY DEF Calm, P!IInv, P!TypeOK, P!TickRoot, P!TickAgain, P!TickEnds, P!None
<1>2. P!Root = N("main") /\ P!Nodes = Nodes /\ N("main") \in Nodes
  BY <1>1, Tree, Kinds, Names DEF N
<1>3. stack' = <<>> \/ stack' = <<N("main")>>
  BY <1>1, <1>2 DEF P!TickRoot, P!TickAgain, P!TickEnds
<1>4. Top' = N("main") /\ Left = N("main") /\ Top = N("main")
  BY <1>1, <1>3 DEF Top, Left, P!Last
<1>5. ret \in {"unset", "RUNNING", "SUCCESS", "FAILURE"}
      /\ (ret = "unset" => status[N("main")] \in {"IDLE", "RUNNING"})
      /\ (ret = "RUNNING" => status[N("main")] = "RUNNING")
  BY <1>4 DEF Calm, Returns
<1>6. status' = IF ret \in {"SUCCESS", "FAILURE"} THEN [status EXCEPT ![N("main")] = "IDLE"]
                ELSE status
  BY <1>1, <1>2, <1>5 DEF P!TickRoot, P!TickAgain, P!TickEnds, P!Completed, P!None
<1>7. status \in [Nodes -> {"IDLE", "RUNNING", "SUCCESS", "FAILURE"}]
  BY <1>1, <1>2 DEF P!TypeOK, P!Statuses, P!Completed
<1>8. /\ \A x \in Nodes : x # N("main") => status'[x] = status[x]
      /\ status'[N("main")] \in {"IDLE", "RUNNING"}
      /\ ret # "SUCCESS" /\ ret # "FAILURE" => status'[N("main")] = status[N("main")]
      /\ ret = "SUCCESS" \/ ret = "FAILURE" => status'[N("main")] = "IDLE"
  BY <1>2, <1>5, <1>6, <1>7
<1>9. ret = "SUCCESS" \/ ret = "FAILURE" => status[N("main")] # "RUNNING"
  BY <1>1, <1>2 DEF Calm, P!IInv, P!TreeInv, P!Returned, P!Completed
<1>10. \A x : ~P!Locked(x) /\ ~P!Locked(x)'
  <2>1. \A x : ~P!Locked(x)
    BY <1>1 DEF P!Locked, P!ToSet
  <2>2. \A x : ~P!Locked(x)'
    <3> TAKE x
    <3>1. CASE stack' = <<>>
      BY <3>1 DEF P!Locked, P!ToSet
    <3>2. CASE stack' = <<N("main")>>
      <4>1. P!ToSet(stack') = {N("main")} /\ P!Last(stack') = N("main") /\ stack' # <<>>
        BY <3>2 DEF P!ToSet, P!Last
      <4> QED
        BY <1>1, <4>1 DEF P!Locked, P!Entered, P!Inside, P!None
    <3> QED
      BY <1>3, <3>1, <3>2
  <2> QED
    BY <2>1, <2>2
<1>11. \A x \in DOMAIN Children : Shape(x)'
  BY <1>1, <1>5, <1>8, <1>9, <1>10, ShapesKept
<1>12. Returns'
  BY <1>1, <1>4, <1>8 DEF Returns
<1> QED
  BY <1>1, <1>4, <1>6, <1>11, <1>12 DEF Calm

\* Steps that leave the nodes with children alone, and the stack.
LEMMA Still ==
  ASSUME Calm, P!IInv', UNCHANGED <<tree, status, stack, ret>>,
         \A x \in DOMAIN Children : mem'[x] = mem[x], DOMAIN mem' = DOMAIN mem
  PROVE  Calm' /\ Top' = Top /\ Left' = Left
<1>1. /\ tree \in DOMAIN Main3 /\ P!TypeOK
      /\ UNCHANGED <<tree, status, stack, ret>> /\ DOMAIN mem' = DOMAIN mem
  BY DEF Calm, P!IInv, P!TypeOK
<1>3. \A x \in DOMAIN Children : mem'[x] = mem[x]
  OBVIOUS
<1>4. \A x : P!Locked(x)' <=> P!Locked(x)
  BY <1>1 DEF P!Locked, P!Entered, P!Inside, P!Kind
<1>5. \A x \in DOMAIN Children : Shape(x)'
  BY <1>1, <1>3, <1>4, ShapesKept
<1>6. Top' = Top
  BY <1>1 DEF Top
<1>7. Left' = Left
  <2>1. CASE stack = <<>>
    BY <1>1, <2>1 DEF Left
  <2>2. CASE stack # <<>>
    <3> DEFINE t == P!Last(stack)
    <3>1. P!Inside(t)
      BY <2>2 DEF P!Inside
    <3>2. P!Mem(t)' = P!Mem(t) \/ t \notin DOMAIN Children
      BY <1>1, <1>3 DEF P!Mem
    <3>3. P!Cur(t)' = P!Cur(t)
      <4>1. CASE t \in DOMAIN Children
        BY <1>1, <3>2, <4>1, P!SameTree, Main3Facts DEF P!Cur, P!Child
      <4>2. CASE t \notin DOMAIN Children
        <5>1. P!Kind(t) = Kind[t] /\ t \in Nodes /\ Kind[t] \notin {"Sequence", "Precondition", "Retry"}
          BY <1>1, <3>1, <4>2, Tree, Kinds, Inside
        <5>2. Kind[t] \in {"Sleep", "Action", "Instant", "AlwaysFailure", "Forever"}
          BY <5>1, Kinds
        <5>3. \A m : P!CurIdx(t, m) = 1 /\ P!CurIdx(t, m)' = 1
          BY <1>1, <5>1, <5>2 DEF P!CurIdx, P!Controls, P!Ordered, P!Sequences_, P!Fallbacks,
             P!Reactives, P!Parallels, P!Branches, P!Kind
        <5> QED
          BY <1>1, <5>3 DEF P!Cur, P!Child, P!Children, P!Has, P!Port
      <4> QED
        BY <4>1, <4>2
    <3> QED
      BY <1>1, <2>2, <3>3 DEF Left
  <2> QED
    BY <2>1, <2>2
<1>8. Returns'
  BY <1>1, <1>6, <1>7 DEF Calm, Returns
<1> QED
  BY <1>1, <1>5, <1>6, <1>7, <1>8 DEF Calm

\* A handler of a timer.
LEMMA HandlerSteps ==
  ASSUME Calm, P!IInv', NEW n \in Sleeps, P!SleepStep(n)
  PROVE  Calm' /\ UNCHANGED <<status, stack, ret, value>> /\ Top' = Top /\ Left' = Left
<1>1. /\ tree \in DOMAIN Main3 /\ P!TypeOK
      /\ UNCHANGED <<tree, status, stack, ret, value>>
      /\ mem' = mem \/ mem' = [mem EXCEPT ![n].on = FALSE]
  BY DEF Calm, P!IInv, P!TypeOK, P!SleepStep, P!SleepSignals, P!SleepClears
<1>2. \A x \in Sequences_ \cup Preconditions \cup {N("retry")} : x # n /\ x \in DOMAIN mem
  BY <1>1, Members, Kinds
<1>3. \A x \in DOMAIN Children : mem'[x] = mem[x]
  BY <1>1, <1>2, Kinds
<1>4. DOMAIN mem' = DOMAIN mem
  BY <1>1
<1> QED
  BY <1>1, <1>3, <1>4, Still

\* Every step of the tree keeps its shape.
LEMMA CalmStep ==
  ASSUME Calm, [Next]_vars
  PROVE  Calm'
<1>1. P!IInv' /\ P!TypeOK
  BY EngineStep DEF Calm, P!IInv
<1>2. CASE BT!Next
  <2>1. CASE P!TickRoot \/ P!TickAgain \/ P!TickEnds
    BY <1>1, <2>1, RootSteps
  <2>2. ASSUME NEW n \in Nodes, P!Inside(n),
               \/ P!OrderedStep(n) \/ P!LoopTick(n) \/ P!LoopAgain(n) \/ P!LoopBack(n)
               \/ P!PreconditionTick(n) \/ P!PreconditionBack(n) \/ P!LeafStep(n)
        PROVE  Calm'
    <3>1. tree \in DOMAIN Main3 /\ P!Kind(n) = Kind[n]
      BY <1>1, Tree DEF P!TypeOK
    <3>2. CASE P!OrderedStep(n)
      <4>1. Kind[n] \in P!Ordered
        BY <3>1, <3>2
        DEF P!OrderedStep, P!OrderedTick, P!OrderedRunning, P!OrderedStop, P!OrderedPass,
            P!OrderedSkip, P!OrderedEnd, P!OrderedCaught, P!Entered, P!Back
      <4>2. n \in Sequences_
        BY <4>1, Kinds DEF P!Ordered, P!Sequences_, P!Fallbacks
      <4> QED
        BY <1>1, <2>2, <3>2, <4>2, SequenceSteps DEF GoesDown, GoesUp
    <3>3. CASE P!LoopTick(n) \/ P!LoopAgain(n) \/ P!LoopBack(n)
      <4>1. Kind[n] \in P!Loops
        BY <3>1, <3>3 DEF P!LoopTick, P!LoopAgain, P!LoopBack, P!Entered, P!Back
      <4>2. n = N("retry")
        BY <4>1, Kinds DEF P!Loops
      <4> QED
        BY <1>1, <2>2, <3>3, <4>2, RetrySteps DEF GoesDown, GoesUp
    <3>4. CASE P!PreconditionTick(n) \/ P!PreconditionBack(n)
      <4>1. n \in Preconditions
        BY <3>1, <3>4, Kinds DEF P!PreconditionTick, P!PreconditionBack, P!Entered, P!Back
      <4> QED
        BY <1>1, <2>2, <3>4, <4>1, PreconditionSteps DEF GoesDown, GoesUp
    <3>5. CASE P!LeafStep(n)
      BY <1>1, <2>2, <3>5, LeafSteps DEF GoesUp
    <3> QED
      BY <2>2, <3>2, <3>3, <3>4, <3>5
  <2>3. ASSUME NEW n \in Sleeps, P!SleepStep(n)
        PROVE  Calm'
    BY <1>1, <2>3, HandlerSteps
  <2> QED
    BY <1>1, <1>2, <2>1, <2>2, <2>3, Steps
<1>3. CASE UNCHANGED vars
  <2>1. UNCHANGED <<tree, status, stack, ret, mem>>
    BY <1>3 DEF vars, BT!vars
  <2> QED
    BY <1>1, <2>1, Still
<1> QED
  BY <1>2, <1>3 DEF Next

\* A tree that has not been ticked has this shape.
LEMMA CalmInit ==
  Init => Calm
<1> SUFFICES ASSUME Init PROVE Calm
  OBVIOUS
<1>1. P!Init /\ P!IInv
  BY SameSteps, P!InitOK, Main3Facts DEF Init
<1>2. /\ tree \in DOMAIN Main3 /\ P!TypeOK /\ stack = <<>> /\ ret = "unset"
      /\ \A x \in Nodes : status[x] = "IDLE"
      /\ \A x \in DOMAIN mem : mem[x] = P!Blank
  BY <1>1, Tree DEF P!Init, P!IInv, P!TypeOK, P!None
<1>3. \A x : ~P!Locked(x)
  BY <1>2 DEF P!Locked, P!ToSet
<1>4. Returns
  BY <1>2, Kinds, Names DEF Returns, Top, Left, N
<1>5. ASSUME NEW x \in DOMAIN Children PROVE Shape(x)
  <2>1. /\ x \in Sequences_ \cup Preconditions \cup {N("retry")}
        /\ x \in DOMAIN mem /\ x \in Nodes
    BY <1>2, Members, Kinds
  <2>2. /\ 1 \in DOMAIN Children[x] /\ DOMAIN Children[x] \subseteq Nat
        /\ \A j \in DOMAIN Children[x] : Children[x][j] \in Nodes /\ ~(j < 1)
    BY <1>2, Parents
  <2>3. mem[x].idx = 1 /\ ~mem[x].fresh /\ mem[x].skips = 0 /\ ~mem[x].on
    BY <1>2, <2>1 DEF P!Blank
  <2>4. status[x] = "IDLE" /\ \A j \in DOMAIN Children[x] : status[Children[x][j]] = "IDLE"
    BY <1>2, <2>1, <2>2
  <2> QED
    BY <1>3, <2>2, <2>3, <2>4 DEF Shape, SequenceShape, PreconditionShape, RetryShape
<1> QED
  BY <1>1, <1>4, <1>5 DEF Calm

\* The shape of the tree is an invariant: what runs below a node runs in the child that
\* the node has called last.
LEMMA CalmAlways ==
  Spec => []Calm
<1>1. Calm /\ [Next]_vars => Calm'
  BY CalmStep
<1> QED
  BY <1>1, CalmInit, PTL DEF Spec

\* No leaf of main3.xml is ever halted by a parent that completes, whatever the labels
\* and whatever servers are unreachable: RosActionNode's halt() runs only when the tree
\* is destroyed.
THEOREM NothingHaltedAlways ==
  Spec => []NothingHalted
<1>1. Calm => NothingHalted
  <2> SUFFICES ASSUME Calm, stack # <<>>, ret \in BT!Completed,
                      NEW c \in BT!ChildSet(BT!Last(stack))
               PROVE  status[c] # "RUNNING"
    BY DEF NothingHalted, BT!NothingHalted
  <2> DEFINE n == P!Last(stack)
  <2>1. P!Inside(n) /\ ret \in {"SUCCESS", "FAILURE"} /\ c \in P!ChildSet(n)
    BY DEF P!Inside, BT!Completed, BT!Last, P!Last, BT!ChildSet, P!ChildSet, BT!Children,
           P!Children, BT!Has, P!Has, BT!Port, P!Port, BT!ToSet, P!ToSet
  <2> HIDE DEF n
  <2>2. n \in DOMAIN Children
    BY <2>1, Inside, Parents
  <2>3. Resets(n, P!ChildSet(n))
    BY <2>1, <2>2, Back
  <2> QED
    BY <2>1, <2>3 DEF Resets
<1> QED
  BY <1>1, CalmAlways, PTL

-----------------------------------------------------------------------------
(* Before and after each node                                              *)

Ended(n) == last = [leaf |-> n, outcome |-> "SUCCESS"]
Seen     == value \in Labels \ {"none"}

\* The time for a new look.
Look == last.outcome = "FAILURE" \/ Ended(N("settle")) \/ Ended(N("pause"))

\* The object is picked, and sorted if its bin is one of B.
Sorted(B) == Seen /\ Ended(IF value \in B THEN <<"home", value>> ELSE N("lift"))

\* The bins whose branches come before that of b.
Earlier(b) ==
  CASE b = "strawberry" -> {}
    [] b = "cola"       -> {"strawberry"}
    [] b = "orange"     -> {"strawberry", "cola"}
    [] b = "grape"      -> {"strawberry", "cola", "orange"}

\* What the label is while the leaf or the branch n is at work.
For(n) ==
  /\ n[2] \in Bins => value = n[2]
  /\ n \in {N("down"), N("grasp"), N("hold"), N("lift")} => Seen
  /\ n = N("conveyor") => value = "none"

\* The object is sorted, or the belt is to run.
Done(n) == IF value = "none" THEN Ended(n) ELSE Sorted(Bins)

Before(n) ==
  CASE n \in {N("main"), N("boot")} -> last = [leaf |-> N("boot"), outcome |-> "IDLE"]
    [] n \in {N("speed"), N("init"), N("settle")} -> Ended(N("boot"))
    [] n = N("retry")                             -> Ended(N("settle"))
    [] n \in {N("round"), N("approach")}          -> Look
    [] n = N("ifSeen")                            -> value \in Labels /\ Ended(N("approach"))
    [] n \in {N("pick"), N("down")}               -> Seen /\ Ended(N("approach"))
    [] n = N("grasp")                             -> Seen /\ Ended(N("down"))
    [] n = N("hold")                              -> Seen /\ Ended(N("grasp"))
    [] n = N("lift")                              -> Seen /\ Ended(N("hold"))
    [] n[1] = "if"                                -> Sorted(Earlier(n[2]))
    [] n[1] \in {"sort", "carry"}                 -> For(n) /\ Ended(N("lift"))
    [] n[1] = "lower"                             -> For(n) /\ Ended(<<"carry", n[2]>>)
    [] n[1] = "release"                           -> For(n) /\ Ended(<<"lower", n[2]>>)
    [] n[1] = "raise"                             -> For(n) /\ Ended(<<"release", n[2]>>)
    [] n[1] = "home"                              -> For(n) /\ Ended(<<"raise", n[2]>>)
    [] n = N("ifNone")                            -> Done(N("approach"))
    [] n = N("conveyor")                          -> For(n) /\ Ended(N("approach"))
    [] n = N("pause")                             -> Done(N("conveyor"))
    [] n = N("again")                             -> Ended(N("pause"))
    [] n = N("finish")                            -> FALSE

After(n) ==
  CASE n \in {N("boot"), N("speed"), N("init")} -> Ended(N("boot"))
    [] n = N("approach")                        -> value \in Labels /\ Ended(n)
    [] n = N("ifSeen")                          -> Done(N("approach"))
    [] n = N("pick")                            -> Sorted(Bins)
    [] n[1] = "if"                              -> Sorted(Earlier(n[2]) \cup {n[2]})
    [] n[1] = "sort"                            -> For(n) /\ Ended(<<"home", n[2]>>)
    [] n = N("ifNone")                          -> Done(N("conveyor"))
    [] n \in {N("main"), N("retry"), N("round"), N("again"), N("finish")} -> FALSE
    [] OTHER                                    -> For(n) /\ Ended(n)

Failed(n) == n \in Below[N("round")] /\ Look

Busy(n) == For(n) /\ last = [leaf |-> n, outcome |-> "RUNNING"]

-----------------------------------------------------------------------------
(* The invariant of the jobs                                               *)

\* The node that is ticked, or that has just returned, is where the jobs are.
Place ==
  /\ ret = "unset" /\ status[Top] = "IDLE" => Before(Top)
  /\ ret = "SUCCESS" => After(Left)
  /\ ret = "FAILURE" => Failed(Left)

Jobs ==
  /\ \A n \in {N("speed"), N("init"), N("again"), N("finish")} : status[n] # "RUNNING"
  /\ \A n \in Timed : status[n] = "RUNNING" => Busy(n)
  /\ status[N("retry")] = "RUNNING" /\ status[N("round")] = "IDLE" => Look
  /\ Place

-----------------------------------------------------------------------------
(* The jobs that a node begins with and ends with                          *)

\* The children of each node, in the order of the file.
LEMMA ChildrenIs ==
  /\ Children[N("main")] = <<N("boot"), N("speed"), N("init"), N("settle"), N("retry"),
                             N("finish")>>
  /\ Children[N("retry")] = <<N("round")>>
  /\ Children[N("round")] = <<N("approach"), N("ifSeen"), N("ifNone"), N("pause"), N("again")>>
  /\ Children[N("ifSeen")] = <<N("pick")>>
  /\ Children[N("pick")] = <<N("down"), N("grasp"), N("hold"), N("lift"), <<"if", "strawberry">>,
                             <<"if", "cola">>, <<"if", "orange">>, <<"if", "grape">>>>
  /\ Children[N("ifNone")] = <<N("conveyor")>>
  /\ \A b \in Bins :
       /\ Children[<<"if", b>>] = <<<<"sort", b>>>>
       /\ Children[<<"sort", b>>] = <<<<"carry", b>>, <<"lower", b>>, <<"release", b>>,
                                      <<"raise", b>>, <<"home", b>>>>
<1>1. /\ {N("main"), N("retry"), N("round"), N("ifSeen"), N("pick"), N("ifNone")} \subseteq
           DOMAIN Children
      /\ \A b \in Bins : <<"if", b>> \in DOMAIN Children /\ <<"sort", b>> \in DOMAIN Children
  BY Kinds, Names DEF N, Sequences_, Preconditions
<1>2. \A b : [i \in DOMAIN BinMoves |-> <<BinMoves[i], b>>] =
        <<<<"carry", b>>, <<"lower", b>>, <<"release", b>>, <<"raise", b>>, <<"home", b>>>>
  BY DEF BinMoves
<1>3. Children[N("main")] = <<N("boot"), N("speed"), N("init"), N("settle"), N("retry"),
                              N("finish")>>
  BY <1>1 DEF Children, N
<1>4. Children[N("retry")] = <<N("round")>>
  BY <1>1 DEF Children, N
<1>5. Children[N("round")] = <<N("approach"), N("ifSeen"), N("ifNone"), N("pause"), N("again")>>
  BY <1>1 DEF Children, N
<1>6. Children[N("ifSeen")] = <<N("pick")>>
  BY <1>1 DEF Children, N
<1>7. Children[N("pick")] = <<N("down"), N("grasp"), N("hold"), N("lift"), <<"if", "strawberry">>,
                              <<"if", "cola">>, <<"if", "orange">>, <<"if", "grape">>>>
  BY <1>1 DEF Children, N
<1>8. Children[N("ifNone")] = <<N("conveyor")>>
  BY <1>1 DEF Children, N
<1>9. ASSUME NEW b \in Bins PROVE Children[<<"if", b>>] = <<<<"sort", b>>>>
  BY <1>1 DEF Children, N
<1>10. ASSUME NEW b \in Bins
       PROVE  Children[<<"sort", b>>] = [i \in DOMAIN BinMoves |-> <<BinMoves[i], b>>]
  BY <1>1 DEF Children, N
<1> QED
  BY <1>2, <1>3, <1>4, <1>5, <1>6, <1>7, <1>8, <1>9, <1>10

\* What the label is, leaf by leaf.
LEMMA ForIs ==
  /\ \A x : \A b \in Bins : For(<<x, b>>) <=> value = b
  /\ \A x \in {"down", "grasp", "hold", "lift"} : For(N(x)) <=> Seen
  /\ For(N("conveyor")) <=> value = "none"
  /\ \A x \in {"boot", "settle", "approach", "pause"} : For(N(x))
<1>1. "" \notin Bins
  BY Names
<1>2. ASSUME NEW x, NEW b \in Bins PROVE For(<<x, b>>) <=> value = b
  <2>1. \A y : <<x, b>> # N(y)
    BY <1>1 DEF N
  <2>2. <<x, b>>[2] = b
    OBVIOUS
  <2> QED
    BY <2>1, <2>2 DEF For
<1>3. \A x : N(x)[2] \notin Bins
  BY <1>1 DEF N
<1>4. \A x, y : N(x) = N(y) <=> x = y
  BY DEF N
<1> QED
  BY <1>2, <1>3, <1>4 DEF For

\* What holds before each node that is not in the branch of a bin.
LEMMA BeforeIs ==
  /\ Before(N("main")) <=> last = [leaf |-> N("boot"), outcome |-> "IDLE"]
  /\ Before(N("boot")) <=> last = [leaf |-> N("boot"), outcome |-> "IDLE"]
  /\ Before(N("speed")) <=> Ended(N("boot"))
  /\ Before(N("init")) <=> Ended(N("boot"))
  /\ Before(N("settle")) <=> Ended(N("boot"))
  /\ Before(N("retry")) <=> Ended(N("settle"))
  /\ Before(N("round")) <=> Look
  /\ Before(N("approach")) <=> Look
  /\ Before(N("ifSeen")) <=> value \in Labels /\ Ended(N("approach"))
  /\ Before(N("pick")) <=> Seen /\ Ended(N("approach"))
  /\ Before(N("down")) <=> Seen /\ Ended(N("approach"))
  /\ Before(N("grasp")) <=> Seen /\ Ended(N("down"))
  /\ Before(N("hold")) <=> Seen /\ Ended(N("grasp"))
  /\ Before(N("lift")) <=> Seen /\ Ended(N("hold"))
  /\ Before(N("ifNone")) <=> Done(N("approach"))
  /\ Before(N("conveyor")) <=> value = "none" /\ Ended(N("approach"))
  /\ Before(N("pause")) <=> Done(N("conveyor"))
  /\ Before(N("again")) <=> Ended(N("pause"))
  /\ ~Before(N("finish"))
BY ForIs DEF Before, N

\* The same for the branch of a bin.
LEMMA BranchIs ==
  ASSUME NEW b \in Bins
  PROVE  /\ Before(<<"if", b>>) <=> Sorted(Earlier(b))
         /\ Before(<<"sort", b>>) <=> value = b /\ Ended(N("lift"))
         /\ Before(<<"carry", b>>) <=> value = b /\ Ended(N("lift"))
         /\ Before(<<"lower", b>>) <=> value = b /\ Ended(<<"carry", b>>)
         /\ Before(<<"release", b>>) <=> value = b /\ Ended(<<"lower", b>>)
         /\ Before(<<"raise", b>>) <=> value = b /\ Ended(<<"release", b>>)
         /\ Before(<<"home", b>>) <=> value = b /\ Ended(<<"raise", b>>)
         /\ After(<<"if", b>>) <=> Sorted(Earlier(b) \cup {b})
         /\ After(<<"sort", b>>) <=> value = b /\ Ended(<<"home", b>>)
         /\ After(<<"carry", b>>) <=> value = b /\ Ended(<<"carry", b>>)
         /\ After(<<"lower", b>>) <=> value = b /\ Ended(<<"lower", b>>)
         /\ After(<<"release", b>>) <=> value = b /\ Ended(<<"release", b>>)
         /\ After(<<"raise", b>>) <=> value = b /\ Ended(<<"raise", b>>)
         /\ After(<<"home", b>>) <=> value = b /\ Ended(<<"home", b>>)
<1>1. \A x : For(<<x, b>>) <=> value = b
  BY ForIs
<1>2. For(<<"sort", b>>) <=> value = b
  BY <1>1
<1>3. For(<<"carry", b>>) <=> value = b
  BY <1>1
<1>4. For(<<"lower", b>>) <=> value = b
  BY <1>1
<1>5. For(<<"release", b>>) <=> value = b
  BY <1>1
<1>6. For(<<"raise", b>>) <=> value = b
  BY <1>1
<1>7. For(<<"home", b>>) <=> value = b
  BY <1>1
<1>8. Before(<<"if", b>>) <=> Sorted(Earlier(b))
  BY DEF Before, N
<1>9. Before(<<"sort", b>>) <=> value = b /\ Ended(N("lift"))
  BY <1>2 DEF Before, N
<1>10. Before(<<"carry", b>>) <=> value = b /\ Ended(N("lift"))
  BY <1>3 DEF Before, N
<1>11. Before(<<"lower", b>>) <=> value = b /\ Ended(<<"carry", b>>)
  BY <1>4 DEF Before, N
<1>12. Before(<<"release", b>>) <=> value = b /\ Ended(<<"lower", b>>)
  BY <1>5 DEF Before, N
<1>13. Before(<<"raise", b>>) <=> value = b /\ Ended(<<"release", b>>)
  BY <1>6 DEF Before, N
<1>14. Before(<<"home", b>>) <=> value = b /\ Ended(<<"raise", b>>)
  BY <1>7 DEF Before, N
<1>15. After(<<"if", b>>) <=> Sorted(Earlier(b) \cup {b})
  BY DEF After, N
<1>16. After(<<"sort", b>>) <=> value = b /\ Ended(<<"home", b>>)
  BY <1>2 DEF After, N
<1>17. After(<<"carry", b>>) <=> value = b /\ Ended(<<"carry", b>>)
  BY <1>3 DEF After, N
<1>18. After(<<"lower", b>>) <=> value = b /\ Ended(<<"lower", b>>)
  BY <1>4 DEF After, N
<1>19. After(<<"release", b>>) <=> value = b /\ Ended(<<"release", b>>)
  BY <1>5 DEF After, N
<1>20. After(<<"raise", b>>) <=> value = b /\ Ended(<<"raise", b>>)
  BY <1>6 DEF After, N
<1>21. After(<<"home", b>>) <=> value = b /\ Ended(<<"home", b>>)
  BY <1>7 DEF After, N
<1> QED
  BY <1>8, <1>9, <1>10, <1>11, <1>12, <1>13, <1>14, <1>15, <1>16, <1>17, <1>18, <1>19, <1>20, <1>21

\* What holds after it.
LEMMA AfterIs ==
  /\ After(N("boot")) <=> Ended(N("boot"))
  /\ After(N("speed")) <=> Ended(N("boot"))
  /\ After(N("init")) <=> Ended(N("boot"))
  /\ After(N("settle")) <=> Ended(N("settle"))
  /\ After(N("approach")) <=> value \in Labels /\ Ended(N("approach"))
  /\ After(N("ifSeen")) <=> Done(N("approach"))
  /\ After(N("pick")) <=> Sorted(Bins)
  /\ After(N("down")) <=> Seen /\ Ended(N("down"))
  /\ After(N("grasp")) <=> Seen /\ Ended(N("grasp"))
  /\ After(N("hold")) <=> Seen /\ Ended(N("hold"))
  /\ After(N("lift")) <=> Seen /\ Ended(N("lift"))
  /\ After(N("ifNone")) <=> Done(N("conveyor"))
  /\ After(N("conveyor")) <=> value = "none" /\ Ended(N("conveyor"))
  /\ After(N("pause")) <=> Ended(N("pause"))
  /\ ~After(N("main")) /\ ~After(N("retry")) /\ ~After(N("round")) /\ ~After(N("again"))
  /\ ~After(N("finish"))
BY ForIs DEF After, N

\* What the round does not reach does not fail.
LEMMA FailedIs ==
  /\ ~Failed(N("main")) /\ ~Failed(N("retry"))
  /\ \A x \in {"boot", "speed", "init", "settle", "retry", "finish"} : ~Failed(N(x))
  /\ \A x \in {"round", "approach", "ifSeen", "ifNone", "pause", "again", "pick", "down", "grasp",
               "hold", "lift", "conveyor"} : Failed(N(x)) <=> Look
  /\ \A b \in Bins : \A x \in {"if", "sort", "carry", "lower", "release", "raise", "home"} :
       Failed(<<x, b>>) <=> Look
<1>1. Below[N("round")] = Nodes \ {N("main"), N("boot"), N("speed"), N("init"),
                                   N("settle"), N("finish"), N("retry")}
  <2>1. N("round") \in Nodes
    BY Kinds DEF Sequences_
  <2> QED
    BY <2>1 DEF Below, N
<1>2. /\ \A x \in {"round", "approach", "ifSeen", "ifNone", "pause", "again", "pick", "down", "grasp",
                   "hold", "lift", "conveyor"} : N(x) \in Nodes
      /\ \A b \in Bins : \A x \in {"if", "sort", "carry", "lower", "release", "raise", "home"} :
           <<x, b>> \in Nodes
  BY Names DEF N
<1>3. "" \notin Bins
  BY Names
<1> QED
  BY <1>1, <1>2, <1>3 DEF Failed, N

\* The names of the nodes with children.
LEMMA SequenceNames ==
  /\ \A n \in Sequences_ : n \in {N("main"), N("round"), N("pick")} \/ \E b \in Bins : n = <<"sort", b>>
  /\ \A n \in Preconditions : n \in {N("ifSeen"), N("ifNone")} \/ \E b \in Bins : n = <<"if", b>>
  /\ \A b : b \in Bins <=> b = "strawberry" \/ b = "cola" \/ b = "orange" \/ b = "grape"
BY DEF Sequences_, Preconditions, Bins

\* A Sequence begins with its first child, goes on with the next, ends with the last.
LEMMA SequenceRule ==
  ASSUME NEW n \in Sequences_
  PROVE  LET c == Children[n]
             k == Len(c) IN
         /\ Before(n) => Before(c[1])
         /\ \A i \in 1 .. k : /\ After(c[i]) => IF i < k THEN Before(c[i + 1]) ELSE After(n)
                              /\ Failed(c[i]) => Failed(n)
<1>1. CASE n = N("main")
  <2> DEFINE c == Children[n]
  <2>1. c = <<N("boot"), N("speed"), N("init"), N("settle"), N("retry"), N("finish")>>
    BY <1>1, ChildrenIs
  <2>2. Len(c) = 6 /\ 1 .. 6 = {1, 2, 3, 4, 5, 6}
    BY <2>1
  <2>3. Before(n) => Before(c[1])
    BY <1>1, <2>1, BeforeIs
  <2>4. ASSUME NEW i \in 1 .. 6, After(c[i]) PROVE i < 6 /\ Before(c[i + 1])
    <3> HIDE DEF c
    <3>1. CASE i = 1
      BY <2>1, <2>4, <3>1, BeforeIs, AfterIs
    <3>2. CASE i = 2
      BY <2>1, <2>4, <3>2, BeforeIs, AfterIs
    <3>3. CASE i = 3
      BY <2>1, <2>4, <3>3, BeforeIs, AfterIs
    <3>4. CASE i = 4
      BY <2>1, <2>4, <3>4, BeforeIs, AfterIs
    <3>5. CASE i \in {5, 6}
      BY <2>1, <2>4, <3>5, BeforeIs, AfterIs
    <3> QED
      BY <2>2, <3>1, <3>2, <3>3, <3>4, <3>5
  <2>5. ASSUME NEW i \in 1 .. 6 PROVE ~Failed(c[i])
    BY <2>1, <2>2, FailedIs
  <2> QED
    BY <2>2, <2>3, <2>4, <2>5
<1>2. CASE n = N("round")
  <2> DEFINE c == Children[n]
  <2>1. c = <<N("approach"), N("ifSeen"), N("ifNone"), N("pause"), N("again")>>
    BY <1>2, ChildrenIs
  <2>2. Len(c) = 5 /\ 1 .. 5 = {1, 2, 3, 4, 5}
    BY <2>1
  <2>3. Before(n) => Before(c[1])
    BY <1>2, <2>1, BeforeIs
  <2>4. ASSUME NEW i \in 1 .. 5, After(c[i]) PROVE i < 5 /\ Before(c[i + 1])
    <3> HIDE DEF c
    <3>1. CASE i = 1
      BY <2>1, <2>4, <3>1, BeforeIs, AfterIs
    <3>2. CASE i = 2
      BY <2>1, <2>4, <3>2, BeforeIs, AfterIs
    <3>3. CASE i = 3
      BY <2>1, <2>4, <3>3, BeforeIs, AfterIs
    <3>4. CASE i = 4
      BY <2>1, <2>4, <3>4, BeforeIs, AfterIs
    <3>5. CASE i = 5
      BY <2>1, <2>4, <3>5, BeforeIs, AfterIs
    <3> QED
      BY <2>2, <3>1, <3>2, <3>3, <3>4, <3>5
  <2>5. ASSUME NEW i \in 1 .. 5, Failed(c[i]) PROVE Failed(n)
    BY <1>2, <2>1, <2>2, <2>5, FailedIs
  <2> QED
    BY <2>2, <2>3, <2>4, <2>5
<1>3. CASE n = N("pick")
  <2> DEFINE c == Children[n]
  <2>1. c = <<N("down"), N("grasp"), N("hold"), N("lift"), <<"if", "strawberry">>, <<"if", "cola">>,
              <<"if", "orange">>, <<"if", "grape">>>>
    BY <1>3, ChildrenIs
  <2>2. Len(c) = 8 /\ 1 .. 8 = {1, 2, 3, 4, 5, 6, 7, 8}
    BY <2>1
  <2>6. /\ "strawberry" \in Bins /\ "cola" \in Bins /\ "orange" \in Bins /\ "grape" \in Bins
        /\ Earlier("strawberry") = {}
    BY DEF Bins, Earlier
  <2>7. Before(<<"if", "strawberry">>) <=> Seen /\ Ended(N("lift"))
    BY <2>6, BranchIs DEF Sorted
  <2>8. After(<<"if", "strawberry">>) <=> Before(<<"if", "cola">>)
    <3>1. Earlier("strawberry") \cup {"strawberry"} = Earlier("cola")
      BY DEF Earlier
    <3> QED
      BY <2>6, <3>1, BranchIs
  <2>9. After(<<"if", "cola">>) <=> Before(<<"if", "orange">>)
    <3>1. Earlier("cola") \cup {"cola"} = Earlier("orange")
      BY DEF Earlier
    <3> QED
      BY <2>6, <3>1, BranchIs
  <2>10. After(<<"if", "orange">>) <=> Before(<<"if", "grape">>)
    <3>1. Earlier("orange") \cup {"orange"} = Earlier("grape")
      BY DEF Earlier
    <3> QED
      BY <2>6, <3>1, BranchIs
  <2>11. After(<<"if", "grape">>) <=> Sorted(Bins)
    <3>1. Earlier("grape") \cup {"grape"} = Bins
      BY DEF Earlier, Bins
    <3> QED
      BY <2>6, <3>1, BranchIs
  <2>3. Before(n) => Before(c[1])
    BY <1>3, <2>1, BeforeIs
  <2>4. ASSUME NEW i \in 1 .. 8, After(c[i]) PROVE IF i < 8 THEN Before(c[i + 1]) ELSE After(n)
    <3> HIDE DEF c
    <3>1. CASE i = 1
      BY <2>1, <2>4, <3>1, BeforeIs, AfterIs
    <3>2. CASE i = 2
      BY <2>1, <2>4, <3>2, BeforeIs, AfterIs
    <3>3. CASE i = 3
      BY <2>1, <2>4, <3>3, BeforeIs, AfterIs
    <3>4. CASE i = 4
      BY <2>1, <2>4, <2>7, <3>4, AfterIs
    <3>5. CASE i = 5
      BY <2>1, <2>4, <2>8, <3>5
    <3>6. CASE i = 6
      BY <2>1, <2>4, <2>9, <3>6
    <3>7. CASE i = 7
      BY <2>1, <2>4, <2>10, <3>7
    <3>8. CASE i = 8
      BY <1>3, <2>1, <2>4, <2>11, <3>8, AfterIs
    <3> QED
      BY <2>2, <3>1, <3>2, <3>3, <3>4, <3>5, <3>6, <3>7, <3>8
  <2>5. ASSUME NEW i \in 1 .. 8, Failed(c[i]) PROVE Failed(n)
    <3>1. /\ Failed(<<"if", "strawberry">>) => Look
          /\ Failed(<<"if", "cola">>) => Look
          /\ Failed(<<"if", "orange">>) => Look
          /\ Failed(<<"if", "grape">>) => Look
      BY <2>6, FailedIs
    <3>3. /\ Failed(N("down")) => Look
          /\ Failed(N("grasp")) => Look
          /\ Failed(N("hold")) => Look
          /\ Failed(N("lift")) => Look
      BY FailedIs
    <3>2. Look
      BY <2>1, <2>2, <2>5, <3>1, <3>3
    <3> QED
      BY <1>3, <3>2, FailedIs
  <2> QED
    BY <2>2, <2>3, <2>4, <2>5
<1>4. ASSUME NEW b \in Bins, n = <<"sort", b>>
      PROVE  LET c == Children[n]
                 k == Len(c) IN
             /\ Before(n) => Before(c[1])
             /\ \A i \in 1 .. k : /\ After(c[i]) => IF i < k THEN Before(c[i + 1]) ELSE After(n)
                                  /\ Failed(c[i]) => Failed(n)
  <2> DEFINE c == Children[n]
  <2>1. c = <<<<"carry", b>>, <<"lower", b>>, <<"release", b>>, <<"raise", b>>, <<"home", b>>>>
    BY <1>4, ChildrenIs
  <2>2. Len(c) = 5 /\ 1 .. 5 = {1, 2, 3, 4, 5}
    BY <2>1
  <2>3. /\ Before(<<"sort", b>>) <=> value = b /\ Ended(N("lift"))
        /\ Before(<<"carry", b>>) <=> value = b /\ Ended(N("lift"))
        /\ Before(<<"lower", b>>) <=> value = b /\ Ended(<<"carry", b>>)
        /\ Before(<<"release", b>>) <=> value = b /\ Ended(<<"lower", b>>)
        /\ Before(<<"raise", b>>) <=> value = b /\ Ended(<<"release", b>>)
        /\ Before(<<"home", b>>) <=> value = b /\ Ended(<<"raise", b>>)
        /\ After(<<"sort", b>>) <=> value = b /\ Ended(<<"home", b>>)
        /\ After(<<"carry", b>>) <=> value = b /\ Ended(<<"carry", b>>)
        /\ After(<<"lower", b>>) <=> value = b /\ Ended(<<"lower", b>>)
        /\ After(<<"release", b>>) <=> value = b /\ Ended(<<"release", b>>)
        /\ After(<<"raise", b>>) <=> value = b /\ Ended(<<"raise", b>>)
        /\ After(<<"home", b>>) <=> value = b /\ Ended(<<"home", b>>)
    BY BranchIs
  <2>4. Before(n) => Before(c[1])
    BY <1>4, <2>1, <2>3
  <2>5. ASSUME NEW i \in 1 .. 5, After(c[i]) PROVE IF i < 5 THEN Before(c[i + 1]) ELSE After(n)
    <3> HIDE DEF c
    <3>1. CASE i = 1
      BY <2>1, <2>5, <3>1, <2>3
    <3>2. CASE i = 2
      BY <2>1, <2>5, <3>2, <2>3
    <3>3. CASE i = 3
      BY <2>1, <2>5, <3>3, <2>3
    <3>4. CASE i = 4
      BY <2>1, <2>5, <3>4, <2>3
    <3>5. CASE i = 5
      BY <1>4, <2>1, <2>5, <3>5, <2>3
    <3> QED
      BY <2>2, <3>1, <3>2, <3>3, <3>4, <3>5
  <2>6. ASSUME NEW i \in 1 .. 5, Failed(c[i]) PROVE Failed(n)
    <3>1. /\ Failed(<<"carry", b>>) => Look
          /\ Failed(<<"lower", b>>) => Look
          /\ Failed(<<"release", b>>) => Look
          /\ Failed(<<"raise", b>>) => Look
          /\ Failed(<<"home", b>>) => Look
          /\ Failed(<<"sort", b>>) <=> Look
      BY FailedIs
    <3> QED
      BY <1>4, <2>1, <2>2, <2>6, <3>1
  <2> QED
    BY <2>2, <2>4, <2>5, <2>6
<1> QED
  BY <1>1, <1>2, <1>3, <1>4, SequenceNames

\* A Precondition has nothing to do, or what its child does.
LEMMA PreconditionRule ==
  ASSUME NEW n \in Preconditions
  PROVE  LET c == Children[n][1] IN
         /\ Before(n) => IF value \in Cond[n] THEN Before(c) ELSE After(n)
         /\ After(c) => After(n)
         /\ Failed(c) => Failed(n)
<1>1. CASE n = N("ifSeen")
  <2>1. Children[n][1] = N("pick")
    BY <1>1, ChildrenIs
  <2>4. Cond[n] = Labels \ {"none"}
    BY <1>1 DEF Cond, N
  <2>2. Sorted(Bins) => Done(N("approach"))
    BY DEF Sorted, Done, Seen
  <2>3. value \in Labels /\ Ended(N("approach")) /\ value \notin Labels \ {"none"} => Done(N("approach"))
    BY DEF Done
  <2> QED
    BY <1>1, <2>1, <2>2, <2>3, <2>4, BeforeIs, AfterIs, FailedIs DEF Seen
<1>2. CASE n = N("ifNone")
  <2>1. Children[n][1] = N("conveyor")
    BY <1>2, ChildrenIs
  <2>2. Cond[n] = {"none"}
    BY <1>2 DEF Cond, N
  <2> QED
    BY <1>2, <2>1, <2>2, BeforeIs, AfterIs, FailedIs DEF Done
<1>3. ASSUME NEW b \in Bins, n = <<"if", b>>
      PROVE  LET c == Children[n][1] IN
             /\ Before(n) => IF value \in Cond[n] THEN Before(c) ELSE After(n)
             /\ After(c) => After(n)
             /\ Failed(c) => Failed(n)
  <2>1. Children[n][1] = <<"sort", b>>
    <3>1. Children[<<"if", b>>] = <<<<"sort", b>>>>
      BY ChildrenIs
    <3> QED
      BY <1>3, <3>1
  <2>2. Cond[n] = {b}
    BY <1>3 DEF Cond, N
  <2>7. (Failed(<<"sort", b>>) <=> Look) /\ (Failed(<<"if", b>>) <=> Look)
    BY FailedIs
  <2>3. b \notin Earlier(b) /\ b \in Labels \ {"none"}
    BY SequenceNames DEF Earlier, Labels, Bins
  <2>4. value = b /\ Sorted(Earlier(b)) => Ended(N("lift"))
    BY <2>3 DEF Sorted
  <2>5. value # b /\ Sorted(Earlier(b)) => Sorted(Earlier(b) \cup {b})
    BY DEF Sorted
  <2>6. value = b /\ Ended(<<"home", b>>) => Sorted(Earlier(b) \cup {b})
    BY <2>3 DEF Sorted, Seen
  <2> QED
    BY <1>3, <2>1, <2>2, <2>4, <2>5, <2>6, <2>7, BranchIs
<1> QED
  BY <1>1, <1>2, <1>3, SequenceNames

-----------------------------------------------------------------------------
(* What a step does to the jobs and to the robot                           *)

\* The names of the leaves that take time, and of those that move the arm or sleep.
LEMMA TimedNames ==
  ASSUME NEW n \in Timed
  PROVE  /\ \/ n \in {N("boot"), N("settle"), N("hold"), N("pause"), N("approach"), N("conveyor"),
                      N("down"), N("grasp"), N("lift")}
            \/ \E b \in Bins : n \in {<<"carry", b>>, <<"lower", b>>, <<"release", b>>,
                                      <<"raise", b>>, <<"home", b>>}
         /\ n \in Moves => \/ n \in {N("down"), N("grasp"), N("lift")}
                           \/ \E b \in Bins : n \in {<<"carry", b>>, <<"lower", b>>,
                                                     <<"release", b>>, <<"raise", b>>, <<"home", b>>}
         /\ n \in Sleeps => n \in {N("boot"), N("settle"), N("hold"), N("pause")}
<1>1. n \in Nodes /\ n \in Sleeps \cup Actions
  BY Kinds
<1>2. PICK x, y : n = <<x, y>>
  BY <1>1, Names
<1>3. n \in Sleeps => x \in {"boot", "settle", "hold", "pause"} /\ y = ""
  BY <1>2, Names
<1>4. n \in Moves => \/ x \in {"down", "grasp", "lift"} /\ y = ""
                     \/ x \in {"carry", "lower", "release", "raise", "home"} /\ y \in Bins
  BY <1>2, Names
<1>5. n \in Actions => n \in Moves \/ (x \in {"approach", "conveyor"} /\ y = "")
  BY <1>2, Names
<1>6. n \in Moves => \/ n \in {N("down"), N("grasp"), N("lift")}
                     \/ \E b \in Bins : n \in {<<"carry", b>>, <<"lower", b>>, <<"release", b>>,
                                               <<"raise", b>>, <<"home", b>>}
  BY <1>2, <1>4 DEF N
<1> QED
  BY <1>1, <1>2, <1>3, <1>5, <1>6 DEF N

\* A step that changes neither the last job nor the label.
LEMMA SameJobs ==
  ASSUME last' = last, value' = value
  PROVE  /\ Look' <=> Look
         /\ \A n : /\ Before(n)' <=> Before(n)
                   /\ After(n)' <=> After(n)
                   /\ Failed(n)' <=> Failed(n)
                   /\ Busy(n)' <=> Busy(n)
<1>1. Look' <=> Look
  BY DEF Look, Ended
<1>2. ASSUME NEW n PROVE Failed(n)' <=> Failed(n)
  BY <1>1 DEF Failed
<1>3. ASSUME NEW n PROVE For(n)' <=> For(n)
  BY DEF For, Seen
<1>4. ASSUME NEW n PROVE Busy(n)' <=> Busy(n)
  BY <1>3 DEF Busy
<1>5. ASSUME NEW n PROVE Ended(n)' <=> Ended(n)
  BY DEF Ended
<1>6. ASSUME NEW B PROVE Sorted(B)' <=> Sorted(B)
  BY DEF Sorted, Seen, Ended
<1>7. ASSUME NEW n PROVE Done(n)' <=> Done(n)
  BY DEF Done, Sorted, Seen, Ended
<1>8. ASSUME NEW n PROVE Before(n)' <=> Before(n)
  BY <1>1, <1>3, <1>5, <1>6, <1>7 DEF Before, Seen, Ended, For, Sorted, Done
<1>9. ASSUME NEW n PROVE After(n)' <=> After(n)
  BY DEF After, Ended, For, Sorted, Done, Seen
<1> QED
  BY <1>1, <1>2, <1>4, <1>8, <1>9

\* tick() of a node that is no job changes nothing of the robot.
LEMMA NoJob ==
  ASSUME tree \in DOMAIN Main3, Effect, \A x \in Timed : \/ status'[x] = status[x]
                                  \/ status'[x] = "IDLE"
  PROVE  UNCHANGED robotVars
<1>1. \A x \in Timed : ~Begins(x) /\ ~Ends(x, "SUCCESS") /\ ~Ends(x, "FAILURE") /\ ~Fails(x)
  BY DEF Begins, Ends, Fails
<1>2. Moves \subseteq Timed /\ Actions \subseteq Timed /\ N("approach") \in Timed
  BY DEF Timed, Actions
<1>3. UNCHANGED <<arm, held, released>>
  BY <1>1, <1>2 DEF Effect, RobotEffect, MoveBegins, MoveEnds, MoveFails, ApproachBegins, ApproachEnds
<1>4. last' = last /\ failed' = failed
  BY <1>1, <1>2 DEF Effect, HistoryEffect
<1> QED
  BY <1>3, <1>4 DEF robotVars

\* tick() of a job.
LEMMA OneJob ==
  ASSUME Effect, NEW n \in Timed, NEW s \in {"RUNNING", "SUCCESS", "FAILURE"},
         status[n] \in {"IDLE", "RUNNING"}, Now(n, s, {}), status[n] = "IDLE" => s # "SUCCESS",
         ~(status[n] = "RUNNING" /\ s = "RUNNING")
  PROVE  /\ last' = [leaf |-> n, outcome |-> s]
         /\ failed' = IF n = N("approach") /\ s = "RUNNING" THEN FALSE
                      ELSE IF n \in Actions /\ s = "FAILURE" THEN TRUE ELSE failed
         /\ CASE n \in Moves /\ s = "RUNNING" -> MoveBegins(n)
              [] n \in Moves /\ s = "SUCCESS" -> MoveEnds(n)
              [] n \in Moves /\ s = "FAILURE" /\ status[n] = "RUNNING" -> MoveFails(n)
              [] n = N("approach") /\ s = "RUNNING" -> ApproachBegins
              [] n = N("approach") /\ s = "SUCCESS" -> ApproachEnds
              [] OTHER -> UNCHANGED <<arm, held, released>>
<1> DEFINE Acts(x) == Begins(x) \/ Ends(x, "SUCCESS") \/ Fails(x)
<1>1. Moves \subseteq Timed /\ Actions \subseteq Timed /\ N("approach") \in Actions /\ Timed \subseteq Nodes
  BY Kinds DEF Timed, Actions
<1>2. status'[n] = s /\ \A x \in Timed : x # n => status'[x] = status[x]
  BY <1>1 DEF Now
<1>3. \A x \in Timed : x # n => ~Begins(x) /\ ~Ends(x, "SUCCESS") /\ ~Ends(x, "FAILURE") /\ ~Fails(x)
  BY <1>2 DEF Begins, Ends, Fails
<1>4. /\ Begins(n) <=> s = "RUNNING"
      /\ Ends(n, "SUCCESS") <=> s = "SUCCESS"
      /\ Ends(n, "FAILURE") <=> s = "FAILURE" /\ status[n] = "RUNNING"
      /\ Fails(n) <=> s = "FAILURE"
  BY <1>2 DEF Begins, Ends, Fails
<1>5. last' = [leaf |-> n, outcome |-> s]
  <2>1. Acts(n)
    BY <1>4
  <2>2. \A x \in Timed : Acts(x) => x = n
    BY <1>3
  <2> DEFINE c == CHOOSE x \in Timed : Acts(x)
  <2>3. c = n
    BY <2>1, <2>2
  <2>4. last' = [leaf |-> c, outcome |-> status'[c]]
    BY <2>1 DEF Effect, HistoryEffect
  <2> QED
    BY <1>2, <2>3, <2>4
<1>6. failed' = IF n = N("approach") /\ s = "RUNNING" THEN FALSE
                ELSE IF n \in Actions /\ s = "FAILURE" THEN TRUE ELSE failed
  <2>1. Begins(N("approach")) <=> n = N("approach") /\ s = "RUNNING"
    BY <1>1, <1>3, <1>4
  <2>2. (\E x \in Actions : Fails(x)) <=> n \in Actions /\ s = "FAILURE"
    BY <1>1, <1>3, <1>4
  <2> QED
    BY <2>1, <2>2 DEF Effect, HistoryEffect
<1>7. N("approach") \notin Moves
  BY Names DEF N, Moves
<1>8. RobotEffect
  BY DEF Effect
<1>9. \A x \in Moves : x # n => ~MoveBegins(x) /\ ~MoveEnds(x) /\ ~MoveFails(x)
  BY <1>1, <1>3 DEF MoveBegins, MoveEnds, MoveFails
<1>10. n # N("approach") => ~ApproachBegins /\ ~ApproachEnds
  BY <1>1, <1>3 DEF ApproachBegins, ApproachEnds
<1>11. CASE n \in Moves
  <2>1. MoveBegins(n) \/ MoveEnds(n) \/ MoveFails(n)
        \/ (~Begins(n) /\ ~Ends(n, "SUCCESS") /\ ~Ends(n, "FAILURE") /\ UNCHANGED <<arm, held, released>>)
    BY <1>7, <1>8, <1>9, <1>10, <1>11 DEF RobotEffect
  <2>2. (MoveBegins(n) => s = "RUNNING") /\ (MoveEnds(n) => s = "SUCCESS")
        /\ (MoveFails(n) => s = "FAILURE" /\ status[n] = "RUNNING")
    BY <1>4 DEF MoveBegins, MoveEnds, MoveFails
  <2> QED
    BY <1>4, <1>5, <1>6, <1>7, <1>11, <2>1, <2>2
<1>12. CASE n = N("approach")
  <2>1. ApproachBegins \/ ApproachEnds
        \/ (~Begins(n) /\ ~Ends(n, "SUCCESS") /\ UNCHANGED <<arm, held, released>>)
    BY <1>7, <1>8, <1>9, <1>12 DEF RobotEffect
  <2>2. (ApproachBegins => s = "RUNNING") /\ (ApproachEnds => s = "SUCCESS")
    BY <1>4, <1>12 DEF ApproachBegins, ApproachEnds
  <2> QED
    BY <1>4, <1>5, <1>6, <1>7, <1>12, <2>1, <2>2
<1>13. CASE n \notin Moves /\ n # N("approach")
  <2>1. UNCHANGED <<arm, held, released>>
    BY <1>8, <1>9, <1>10, <1>13 DEF RobotEffect
  <2> QED
    BY <1>5, <1>6, <1>13, <2>1
<1> QED
  BY <1>11, <1>12, <1>13

\* What holds before a job is what holds while it is at work, and the job before is over.
LEMMA BeforeJob ==
  ASSUME NEW n \in Timed, Before(n)
  PROVE  /\ For(n)
         /\ IF n = N("boot") THEN last.outcome = "IDLE" ELSE last.outcome \in {"SUCCESS", "FAILURE"}
<1>1. \A x : Ended(x) => last.outcome = "SUCCESS"
  BY DEF Ended
<1>2. \A x \in {"settle", "hold", "pause", "approach", "conveyor", "down", "grasp", "lift"} :
        N(x) # N("boot")
  BY DEF N
<1>3. CASE n \in {N("boot"), N("settle"), N("hold"), N("pause"), N("approach"), N("conveyor"),
                  N("down"), N("grasp"), N("lift")}
  <2>1. Look => last.outcome \in {"SUCCESS", "FAILURE"}
    BY <1>1 DEF Look
  <2>2. Done(N("conveyor")) => last.outcome = "SUCCESS"
    BY <1>1 DEF Done, Sorted
  <2> QED
    BY <1>1, <1>2, <1>3, <2>1, <2>2, BeforeIs, ForIs
<1>4. ASSUME NEW b \in Bins,
             n \in {<<"carry", b>>, <<"lower", b>>, <<"release", b>>, <<"raise", b>>, <<"home", b>>}
      PROVE  For(n) /\ n # N("boot") /\ last.outcome = "SUCCESS"
  <2>1. value = b /\ last.outcome = "SUCCESS"
    <3>1. /\ Before(<<"carry", b>>) => value = b /\ Ended(N("lift"))
          /\ Before(<<"lower", b>>) => value = b /\ Ended(<<"carry", b>>)
          /\ Before(<<"release", b>>) => value = b /\ Ended(<<"lower", b>>)
          /\ Before(<<"raise", b>>) => value = b /\ Ended(<<"release", b>>)
          /\ Before(<<"home", b>>) => value = b /\ Ended(<<"raise", b>>)
      BY BranchIs
    <3> QED
      BY <1>1, <1>4, <3>1
  <2>2. PICK x : n = <<x, b>>
    BY <1>4
  <2>3. For(<<x, b>>) <=> value = b
    BY ForIs
  <2>4. "" \notin Bins
    BY Names
  <2> QED
    BY <2>1, <2>2, <2>3, <2>4 DEF N
<1> QED
  BY <1>3, <1>4, TimedNames

\* A job begins, ends or fails.
LEMMA JobRule ==
  ASSUME NEW n \in Timed, NEW s \in {"RUNNING", "SUCCESS", "FAILURE"},
         last' = [leaf |-> n, outcome |-> s],
         IF n = N("approach") /\ s = "SUCCESS" THEN value' \in Labels ELSE value' = value
  PROVE  /\ s = "RUNNING" /\ Before(n) => Busy(n)'
         /\ s = "SUCCESS" /\ For(n) => After(n)'
         /\ s = "FAILURE" /\ n \notin Sleeps => Failed(n)'
<1>1. value' = value => (For(n)' <=> For(n))
  BY DEF For, Seen
<1>2. s = "RUNNING" /\ Before(n) => Busy(n)'
  BY <1>1, BeforeJob DEF Busy
<1>3. s = "SUCCESS" /\ For(n) => After(n)'
  <2> SUFFICES ASSUME s = "SUCCESS", For(n) PROVE After(n)'
    OBVIOUS
  <2>1. Ended(n)'
    BY DEF Ended
  <2>2. CASE n = N("approach")
    BY <2>1, <2>2 DEF After, N
  <2>3. CASE n # N("approach")
    <3>1. For(n)' /\ Ended(n)'
      BY <1>1, <2>1, <2>3
    <3>2. After(N("boot"))' <=> Ended(N("boot"))'
      BY DEF After, N
    <3>3. \A x \in {"settle", "hold", "pause", "conveyor", "down", "grasp", "lift"} :
            For(N(x))' /\ Ended(N(x))' => After(N(x))'
      BY DEF After, N
    <3>4. ASSUME NEW b \in Bins,
                 NEW x \in {"carry", "lower", "release", "raise", "home"}
          PROVE  For(<<x, b>>)' /\ Ended(<<x, b>>)' => After(<<x, b>>)'
      BY DEF After, N
    <3>5. n \in {N("settle"), N("hold"), N("pause"), N("conveyor"), N("down"), N("grasp"), N("lift")}
            => After(n)'
      BY <3>1, <3>3
    <3>6. \A b \in Bins : n \in {<<"carry", b>>, <<"lower", b>>, <<"release", b>>, <<"raise", b>>,
                                  <<"home", b>>} => After(n)'
      BY <3>1, <3>4
    <3>7. n = N("boot") => After(n)'
      BY <3>1, <3>2
    <3> QED
      BY <2>3, <3>5, <3>6, <3>7, TimedNames
  <2> QED
    BY <2>2, <2>3
<1>4. s = "FAILURE" /\ n \notin Sleeps => Failed(n)'
  <2> SUFFICES ASSUME s = "FAILURE", n \notin Sleeps PROVE Failed(n)'
    OBVIOUS
  <2>1. Look'
    BY DEF Look
  <2>2. n \in Actions /\ n \in Nodes
    BY Kinds
  <2>3. N("round") \in Nodes /\ N("boot") \in Sleeps /\ N("settle") \in Sleeps
        /\ n # N("main") /\ n # N("finish") /\ n # N("retry")
    <3>1. N("round") \in Sequences_ /\ N("main") \in Sequences_
      BY DEF Sequences_
    <3>2. N("main") \notin Timed /\ N("finish") \notin Timed /\ N("retry") \notin Timed
      BY <3>1, Kinds
    <3>3. N("boot") \in Sleeps /\ N("settle") \in Sleeps
      BY DEF Sleeps
    <3> QED
      BY <3>1, <3>2, <3>3, Kinds
  <2>4. n \in Below[N("round")]
    <3>1. Below[N("round")] = Nodes \ {N("main"), N("boot"), N("speed"), N("init"),
                                       N("settle"), N("finish"), N("retry")}
      BY <2>3 DEF Below, N
    <3>2. N("speed") \notin Timed /\ N("init") \notin Timed
      BY Kinds
    <3> QED
      BY <2>2, <2>3, <3>1, <3>2
  <2> QED
    BY <2>1, <2>4 DEF Failed
<1> QED
  BY <1>2, <1>3, <1>4

\* tick() of a node with children changes no job.
LEMMA JobsKept ==
  ASSUME Calm, Jobs, Effect, value' = value, NEW n \in DOMAIN Children,
         NEW s \in {status[n], "RUNNING", "SUCCESS", "FAILURE"}, NEW H, Now(n, s, H),
         H \subseteq P!ChildSet(n),
         n = N("retry") /\ s = "RUNNING" /\ status'[N("round")] = "IDLE" => Look
  PROVE  /\ UNCHANGED robotVars /\ last' = last
         /\ \A x : (Before(x)' <=> Before(x)) /\ (After(x)' <=> After(x)) /\ (Failed(x)' <=> Failed(x))
         /\ Place' => Jobs'
<1>1. tree \in DOMAIN Main3
  BY DEF Calm, P!IInv, P!TypeOK
<1>2. /\ \A x \in Timed : x \in Nodes /\ x \notin DOMAIN Children
      /\ \A x \in {N("speed"), N("init"), N("again"), N("finish")} :
           x \in Nodes /\ x \notin DOMAIN Children
      /\ N("retry") \in Nodes /\ N("round") \in Nodes
      /\ N("retry") \in DOMAIN Children /\ N("round") \in DOMAIN Children
  BY Kinds DEF Sequences_
<1>3. \A x \in Nodes : x # n => status'[x] = status[x] \/ (x \in H /\ status'[x] = "IDLE")
  BY DEF Now
<1>4. UNCHANGED robotVars /\ last' = last
  BY <1>1, <1>2, <1>3, NoJob DEF robotVars
<1>5. /\ Look' <=> Look
      /\ \A x : /\ Before(x)' <=> Before(x)
                /\ After(x)' <=> After(x)
                /\ Failed(x)' <=> Failed(x)
                /\ Busy(x)' <=> Busy(x)
  BY <1>4, SameJobs
<1>6. \A x \in {N("speed"), N("init"), N("again"), N("finish")} : status'[x] # "RUNNING"
  BY <1>2, <1>3 DEF Jobs
<1>7. \A x \in Timed : status'[x] = "RUNNING" => Busy(x)'
  BY <1>2, <1>3, <1>5 DEF Jobs
<1>8. ASSUME status'[N("retry")] = "RUNNING", status'[N("round")] = "IDLE" PROVE Look
  <2>1. N("retry") # N("round")
    BY DEF N
  <2>2. CASE n = N("retry")
    <3>1. s = "RUNNING"
      BY <1>2, <1>8, <2>2 DEF Now
    <3> QED
      BY <1>8, <2>2, <3>1
  <2>3. CASE n # N("retry")
    <3>1. status[N("retry")] = "RUNNING"
      BY <1>2, <1>3, <1>8, <2>3
    <3>2. status[N("round")] = "IDLE"
      <4>1. CASE n = N("round")
        <5>1. s = "IDLE"
          BY <1>2, <1>8, <4>1 DEF Now
        <5> QED
          BY <4>1, <5>1
      <4>2. CASE n # N("round")
        <5>1. N("round") \notin H
          <6>1. SUFFICES ASSUME N("round") \in P!ChildSet(n) PROVE FALSE
            OBVIOUS
          <6>2. PICK i \in DOMAIN Children[n] : N("round") = Children[n][i]
            BY <1>1, <6>1, Parents
          <6>3. Children[N("retry")][1] = N("round") /\ 1 \in DOMAIN Children[N("retry")]
            BY ChildrenIs
          <6> QED
            BY <1>1, <1>2, <2>3, <6>2, <6>3, Parents
        <5> QED
          BY <1>2, <1>3, <1>8, <4>2, <5>1
      <4> QED
        BY <4>1, <4>2
    <3> QED
      BY <3>1, <3>2 DEF Jobs
  <2> QED
    BY <2>2, <2>3
<1> QED
  BY <1>4, <1>5, <1>6, <1>7, <1>8 DEF Jobs

\* tick() of a node with children goes on where the jobs are.
LEMMA PlaceDown ==
  ASSUME Calm, Jobs, Effect, value' = value, NEW n \in DOMAIN Children, NEW H,
         NEW s \in {status[n], "RUNNING"}, NEW i \in DOMAIN Children[n], GoesDown(n, s, H, i),
         H \subseteq P!ChildSet(n), i = 1 \/ n # N("retry"),
         status'[Children[n][i]] = "IDLE" => Before(Children[n][i])
  PROVE  Jobs'
<1>1. n = N("retry") /\ status'[N("round")] = "IDLE" => Look
  BY ChildrenIs, BeforeIs
<1>2. Place' /\ Now(n, s, H)
  <2>1. Before(Children[n][i])' <=> Before(Children[n][i])
    BY <1>1, JobsKept DEF GoesDown
  <2>2. Top' = Children[n][i] /\ ret' = "unset"
    BY DEF GoesDown
  <2>3. Before(Top)' <=> Before(Children[n][i])'
    <3>1. last' = last
      BY <1>1, JobsKept DEF GoesDown
    <3> QED
      BY <2>2, <3>1, SameJobs
  <2> QED
    BY <2>1, <2>2, <2>3 DEF Place, GoesDown
<1> QED
  BY <1>1, <1>2, JobsKept

\* A tick() that returns leaves the jobs in order.
LEMMA PlaceUp ==
  ASSUME Calm, Jobs, Effect, value' = value, NEW n \in DOMAIN Children, NEW H,
         NEW s \in {"RUNNING", "SUCCESS", "FAILURE"}, GoesUp(n, s, H), H \subseteq P!ChildSet(n),
         n = N("retry") /\ s = "RUNNING" /\ status'[N("round")] = "IDLE" => Look,
         s = "SUCCESS" => After(n), s = "FAILURE" => Failed(n)
  PROVE  Jobs'
<1>1. Left' = n /\ ret' = s
  BY DEF GoesUp
<1>2. (After(n)' <=> After(n)) /\ (Failed(n)' <=> Failed(n)) /\ (Place' => Jobs')
  BY JobsKept DEF GoesUp
<1> QED
  BY <1>1, <1>2 DEF Place

\* The nodes with children go on in the order of the jobs.
LEMMA SequenceJobs ==
  ASSUME Calm, Jobs, P!IInv', Effect, NEW n \in Sequences_, P!Inside(n), P!OrderedStep(n)
  PROVE  Jobs' /\ UNCHANGED <<robotVars, last, value>>
<1> DEFINE i == mem[n].idx
           c == Children[n]
           k == Len(c)
<1>1. /\ n \in DOMAIN Children /\ n \in Nodes /\ n # N("retry") /\ tree \in DOMAIN Main3
      /\ Top = n
  BY Kinds, Inside
<1>2. /\ \/ ret = "unset" /\ GoesDown(n, "RUNNING", {}, i)
         \/ ret = "RUNNING" /\ GoesUp(n, "RUNNING", {})
         \/ ret = "FAILURE" /\ GoesUp(n, "FAILURE", P!ChildSet(n))
         \/ ret = "SUCCESS" /\ i < k /\ GoesDown(n, "RUNNING", {}, i + 1)
         \/ ret = "SUCCESS" /\ i = k /\ GoesUp(n, "SUCCESS", P!ChildSet(n))
      /\ value' = value /\ i \in 1 .. k
  BY SequenceSteps
<1>3. /\ k \in Nat /\ DOMAIN c = 1 .. k /\ 1 \in DOMAIN c
      /\ \A j \in DOMAIN c : c[j] \in Nodes /\ c[j] # n
  BY <1>1, Parents
<1>4. /\ Left = c[i] /\ (P!Locked(n) <=> ret # "unset")
  BY <1>1, Back
<1>5. SequenceShape(n)
  BY <1>1 DEF Calm, Shape
<1>6. /\ Before(n) => Before(c[1])
      /\ After(c[i]) => IF i < k THEN Before(c[i + 1]) ELSE After(n)
      /\ Failed(c[i]) => Failed(n)
  BY <1>2, SequenceRule
<1>7. CASE ret = "unset" /\ GoesDown(n, "RUNNING", {}, i)
  <2>1. status'[c[i]] = "IDLE" => Before(c[i])
    <3> SUFFICES ASSUME status'[c[i]] = "IDLE" PROVE Before(c[i])
      OBVIOUS
    <3>1. status[c[i]] = "IDLE"
      BY <1>2, <1>3, <1>7 DEF GoesDown, Now
    <3>2. status[n] # "RUNNING" /\ i = 1
      BY <1>4, <1>5, <1>7, <3>1 DEF SequenceShape
    <3>3. status[n] = "IDLE"
      BY <1>1, <1>7, <3>2 DEF Calm, Returns
    <3> QED
      BY <1>1, <1>6, <1>7, <3>2, <3>3 DEF Jobs, Place
  <2>2. Jobs'
    BY <1>1, <1>2, <1>3, <1>7, <2>1, PlaceDown
  <2>3. Now(n, "RUNNING", {})
    BY <1>7 DEF GoesDown
  <2> QED
    BY <1>1, <1>2, <2>2, <2>3, JobsKept
<1>8. CASE ret = "SUCCESS" /\ i < k /\ GoesDown(n, "RUNNING", {}, i + 1)
  <2>1. Before(c[i + 1]) /\ i + 1 \in DOMAIN c
    BY <1>2, <1>3, <1>4, <1>6, <1>8 DEF Jobs, Place
  <2>2. Jobs'
    BY <1>1, <1>2, <1>8, <2>1, PlaceDown
  <2>3. Now(n, "RUNNING", {})
    BY <1>8 DEF GoesDown
  <2> QED
    BY <1>1, <1>2, <2>2, <2>3, JobsKept
<1>9. CASE ret = "RUNNING" /\ GoesUp(n, "RUNNING", {})
  <2>1. Jobs'
    BY <1>1, <1>2, <1>9, PlaceUp
  <2>2. Now(n, "RUNNING", {})
    BY <1>9 DEF GoesUp
  <2> QED
    BY <1>1, <1>2, <2>1, <2>2, JobsKept
<1>10. CASE ret = "FAILURE" /\ GoesUp(n, "FAILURE", P!ChildSet(n))
  <2>1. Failed(n)
    BY <1>4, <1>6, <1>10 DEF Jobs, Place
  <2>2. Jobs'
    BY <1>1, <1>2, <1>10, <2>1, PlaceUp
  <2>3. Now(n, "FAILURE", P!ChildSet(n))
    BY <1>10 DEF GoesUp
  <2> QED
    BY <1>1, <1>2, <2>2, <2>3, JobsKept
<1>11. CASE ret = "SUCCESS" /\ i = k /\ GoesUp(n, "SUCCESS", P!ChildSet(n))
  <2>1. After(n)
    BY <1>2, <1>3, <1>4, <1>6, <1>11 DEF Jobs, Place
  <2>2. Jobs'
    BY <1>1, <1>2, <1>11, <2>1, PlaceUp
  <2>3. Now(n, "SUCCESS", P!ChildSet(n))
    BY <1>11 DEF GoesUp
  <2> QED
    BY <1>1, <1>2, <2>2, <2>3, JobsKept
<1> QED
  BY <1>2, <1>7, <1>8, <1>9, <1>10, <1>11

\* A node with a precondition goes on in the order of the jobs.
LEMMA PreconditionJobs ==
  ASSUME Calm, Jobs, P!IInv', Effect, NEW n \in Preconditions, P!Inside(n),
         P!PreconditionTick(n) \/ P!PreconditionBack(n)
  PROVE  Jobs' /\ UNCHANGED <<robotVars, last, value>>
<1> DEFINE c == Children[n][1]
<1>1. /\ n \in DOMAIN Children /\ n \in Nodes /\ n # N("retry") /\ tree \in DOMAIN Main3
      /\ Top = n /\ n \notin Sequences_
  BY Kinds, Inside
<1>2. /\ \/ /\ ret = "unset" /\ (status[n] = "RUNNING" \/ value \in Cond[n])
            /\ GoesDown(n, status[n], {}, 1)
         \/ ret = "unset" /\ status[n] = "IDLE" /\ value \notin Cond[n] /\ GoesUp(n, "SUCCESS", {})
         \/ ret = "RUNNING" /\ GoesUp(n, "RUNNING", {})
         \/ ret \in {"SUCCESS", "FAILURE"} /\ GoesUp(n, ret, P!ChildSet(n))
      /\ value' = value
  BY PreconditionSteps
<1>3. 1 \in DOMAIN Children[n] /\ Left = c /\ (P!Locked(n) <=> ret # "unset")
  BY <1>1, Back
<1>4. c \in Nodes /\ c # n
  BY <1>1, <1>3, Parents
<1>5. PreconditionShape(n)
  BY <1>1 DEF Calm, Shape
<1>6. /\ Before(n) => IF value \in Cond[n] THEN Before(c) ELSE After(n)
      /\ After(c) => After(n)
      /\ Failed(c) => Failed(n)
  BY PreconditionRule
<1>7. CASE /\ ret = "unset" /\ (status[n] = "RUNNING" \/ value \in Cond[n])
           /\ GoesDown(n, status[n], {}, 1)
  <2>1. status'[c] = "IDLE" => Before(c)
    <3> SUFFICES ASSUME status'[c] = "IDLE" PROVE Before(c)
      OBVIOUS
    <3>1. status[c] = "IDLE"
      BY <1>4, <1>7 DEF GoesDown, Now
    <3>2. status[n] # "RUNNING"
      BY <1>3, <1>5, <1>7, <3>1 DEF PreconditionShape
    <3>3. status[n] = "IDLE"
      BY <1>1, <1>7, <3>2 DEF Calm, Returns
    <3> QED
      BY <1>1, <1>6, <1>7, <3>2, <3>3 DEF Jobs, Place
  <2>2. Jobs'
    BY <1>1, <1>2, <1>3, <1>7, <2>1, PlaceDown
  <2>3. Now(n, status[n], {}) /\ status[n] \in {status[n], "RUNNING", "SUCCESS", "FAILURE"}
    BY <1>7 DEF GoesDown
  <2> DEFINE s == status[n]
  <2>4. Now(n, s, {}) /\ s \in {status[n], "RUNNING", "SUCCESS", "FAILURE"}
    BY <2>3
  <2> HIDE DEF s
  <2>5. UNCHANGED robotVars /\ last' = last
    BY <1>1, <1>2, <2>4, JobsKept
  <2> QED
    BY <1>2, <2>2, <2>5
<1>8. CASE ret = "unset" /\ status[n] = "IDLE" /\ value \notin Cond[n] /\ GoesUp(n, "SUCCESS", {})
  <2>1. After(n)
    BY <1>1, <1>6, <1>8 DEF Jobs, Place
  <2>2. Jobs'
    BY <1>1, <1>2, <1>8, <2>1, PlaceUp
  <2>3. Now(n, "SUCCESS", {})
    BY <1>8 DEF GoesUp
  <2> QED
    BY <1>1, <1>2, <2>2, <2>3, JobsKept
<1>9. CASE ret = "RUNNING" /\ GoesUp(n, "RUNNING", {})
  <2>1. Jobs'
    BY <1>1, <1>2, <1>9, PlaceUp
  <2>2. Now(n, "RUNNING", {})
    BY <1>9 DEF GoesUp
  <2> QED
    BY <1>1, <1>2, <2>1, <2>2, JobsKept
<1>10. CASE ret \in {"SUCCESS", "FAILURE"} /\ GoesUp(n, ret, P!ChildSet(n))
  <2>1. (ret = "SUCCESS" => After(n)) /\ (ret = "FAILURE" => Failed(n))
    BY <1>3, <1>6 DEF Jobs, Place
  <2>2. Jobs'
    BY <1>1, <1>2, <1>10, <2>1, PlaceUp
  <2>3. Now(n, ret, P!ChildSet(n))
    BY <1>10 DEF GoesUp
  <2> QED
    BY <1>1, <1>2, <1>10, <2>2, <2>3, JobsKept
<1> QED
  BY <1>2, <1>7, <1>8, <1>9, <1>10

\* The retry node begins the round again when it has failed.
LEMMA RetryJobs ==
  ASSUME Calm, Jobs, P!IInv', Effect, P!Inside(N("retry")),
         P!LoopTick(N("retry")) \/ P!LoopAgain(N("retry")) \/ P!LoopBack(N("retry"))
  PROVE  Jobs' /\ UNCHANGED <<robotVars, last, value>>
<1> DEFINE n == N("retry")
           c == N("round")
<1>1. /\ n \in DOMAIN Children /\ n \in Nodes /\ tree \in DOMAIN Main3 /\ Top = n /\ n \notin Sequences_
  BY Kinds, Inside
<1>2. /\ \/ ret = "unset" /\ GoesDown(n, "RUNNING", {}, 1)
         \/ ret = "FAILURE" /\ GoesDown(n, "RUNNING", P!ChildSet(n), 1)
         \/ ret = "FAILURE" /\ GoesUp(n, "RUNNING", P!ChildSet(n))
         \/ ret = "RUNNING" /\ GoesUp(n, "RUNNING", {})
         \/ ret = "SUCCESS" /\ GoesUp(n, "SUCCESS", P!ChildSet(n))
      /\ value' = value
  BY RetrySteps
<1>3. Children[n][1] = c /\ 1 \in DOMAIN Children[n]
  BY ChildrenIs
<1>4. Left = c /\ (ret = "RUNNING" => status[c] = "RUNNING")
  BY <1>1, <1>3, Back
<1>5. c \in Nodes /\ c # n
  BY <1>1, <1>3, Parents
<1>6. /\ ret # "SUCCESS"
      /\ ret = "FAILURE" => Look
      /\ Before(c) <=> Look
  BY <1>4, AfterIs, FailedIs, BeforeIs DEF Jobs, Place
<1>7. ret = "unset" => status[n] \in {"IDLE", "RUNNING"}
  BY <1>1 DEF Calm, Returns
<1>8. ASSUME NEW H, GoesDown(n, "RUNNING", H, 1), H \subseteq P!ChildSet(n),
             status'[c] = "IDLE" => Look
      PROVE  Jobs' /\ UNCHANGED <<robotVars, last, value>>
  <2>1. Jobs'
    BY <1>1, <1>2, <1>3, <1>6, <1>8, PlaceDown
  <2>2. Now(n, "RUNNING", H)
    BY <1>8 DEF GoesDown
  <2> QED
    BY <1>1, <1>2, <1>8, <2>1, <2>2, JobsKept
<1>9. ASSUME NEW H, GoesUp(n, "RUNNING", H), H \subseteq P!ChildSet(n), status'[c] = "IDLE" => Look
      PROVE  Jobs' /\ UNCHANGED <<robotVars, last, value>>
  <2>1. Jobs'
    BY <1>1, <1>2, <1>9, PlaceUp
  <2>2. Now(n, "RUNNING", H)
    BY <1>9 DEF GoesUp
  <2> QED
    BY <1>1, <1>2, <1>9, <2>1, <2>2, JobsKept
<1>10. CASE ret = "unset" /\ GoesDown(n, "RUNNING", {}, 1)
  <2>1. status'[c] = "IDLE" => Look
    <3>1. status'[c] = status[c]
      BY <1>5, <1>10 DEF GoesDown, Now
    <3>2. status[n] = "IDLE" => Before(n)
      BY <1>1, <1>10 DEF Jobs, Place
    <3>3. Before(n) => Look
      BY BeforeIs DEF Look
    <3> QED
      BY <1>7, <1>10, <3>1, <3>2, <3>3 DEF Jobs
  <2> QED
    BY <1>8, <1>10, <2>1
<1>11. CASE ret = "FAILURE"
  BY <1>2, <1>6, <1>8, <1>9, <1>11
<1>12. CASE ret = "RUNNING" /\ GoesUp(n, "RUNNING", {})
  <2>1. status'[c] = "RUNNING"
    BY <1>4, <1>5, <1>12 DEF GoesUp, Now
  <2> QED
    BY <1>9, <1>12, <2>1
<1> QED
  BY <1>2, <1>6, <1>10, <1>11, <1>12

\* Where the engine is when a leaf is ticked: the Retry is not between two rounds.
LEMMA InRound ==
  ASSUME Calm, NEW n \in Timed, P!Inside(n)
  PROVE  ~(status[N("retry")] = "RUNNING" /\ status[N("round")] = "IDLE")
<1>1. /\ tree \in DOMAIN Main3 /\ n \in Nodes /\ P!TypeOK /\ P!TreeInv /\ n \notin DOMAIN Children
      /\ \A x \in Nodes : P!Locked(x) <=> n \in Below[x] /\ (x = n => ret # "unset")
      /\ \A x \in DOMAIN Children :
           \A i \in DOMAIN Children[x] :
             n = Children[x][i] => P!Locked(x) /\ P!CurIdx(x, P!Mem(x)) = i
  BY Inside, Kinds
<1>2. CASE n \in Below[N("round")]
  <2>1. N("round") \in Sequences_ /\ N("round") \in Nodes /\ N("round") # n
        /\ N("round") \in DOMAIN Children /\ Kind[N("round")] = "Sequence"
    BY <1>1, Kinds DEF Sequences_
  <2>2. P!Locked(N("round"))
    BY <1>1, <1>2, <2>1
  <2>3. P!NodeInv(N("round")) /\ P!Kind(N("round")) = "Sequence" /\ N("round") \in DOMAIN mem
    BY <1>1, <2>1, Tree, Members DEF P!TreeInv
  <2>4. status[N("round")] = "RUNNING"
    BY <2>2, <2>3 DEF P!NodeInv, P!NodeOK, P!OrderedOK, P!Ordered, P!Sequences_
  <2> QED
    BY <2>4
<1>3. CASE n \notin Below[N("round")]
  <2>1. Below[N("round")] = Nodes \ {N("main"), N("boot"), N("speed"), N("init"),
                                     N("settle"), N("finish"), N("retry")}
    <3>1. N("round") \in Nodes
      BY Kinds DEF Sequences_
    <3> QED
      BY <3>1 DEF Below, N
  <2>2. n = N("boot") \/ n = N("settle")
    <3>1. N("main") \notin Timed
      BY Kinds DEF Sequences_
    <3> QED
      BY <1>1, <1>3, <2>1, <3>1, Kinds
  <2> DEFINE m == N("main")
             c == Children[m]
  <2>3. /\ c[1] = N("boot") /\ c[4] = N("settle") /\ c[5] = N("retry")
        /\ 1 \in DOMAIN c /\ 4 \in DOMAIN c /\ 5 \in DOMAIN c /\ m \in DOMAIN Children
        /\ m \in Sequences_
    BY ChildrenIs, Kinds DEF Sequences_
  <2>4. P!CurIdx(m, P!Mem(m)) \in {1, 4}
    BY <1>1, <2>2, <2>3
  <2>5. P!CurIdx(m, P!Mem(m)) = mem[m].idx
    BY <1>1, <2>3, Members
  <2>6. SequenceShape(m)
    BY <2>3 DEF Calm, Shape
  <2>7. status[N("retry")] = "IDLE"
    BY <2>3, <2>4, <2>5, <2>6 DEF SequenceShape
  <2> QED
    BY <2>7
<1> QED
  BY <1>2, <1>3

\* A job that is ticked: it begins when it is its turn, and goes on when it is at work.
LEMMA TimedJobs ==
  ASSUME Calm, Jobs, P!IInv', Effect, NEW n \in Timed, P!Inside(n), ret = "unset",
         NEW s \in {"RUNNING", "SUCCESS", "FAILURE"}, GoesUp(n, s, {}),
         status[n] = "IDLE" => s # "SUCCESS", n \in Sleeps => s # "FAILURE",
         IF n = N("approach") /\ s = "SUCCESS" THEN value' \in Labels ELSE value' = value
  PROVE  /\ Jobs'
         /\ \/ status[n] = "IDLE" /\ Before(n)
            \/ status[n] = "RUNNING" /\ Busy(n)
         /\ status[n] = "RUNNING" /\ s = "RUNNING" => UNCHANGED <<robotVars, last, value>>
<1>1. n \in Nodes /\ Top = n /\ tree \in DOMAIN Main3 /\ status[n] \in {"IDLE", "RUNNING"}
  BY Inside DEF Calm, Returns
<1>2. Left' = n /\ ret' = s /\ Now(n, s, {})
  BY DEF GoesUp
<1>3. /\ status[n] = "IDLE" => Before(n)
      /\ status[n] = "RUNNING" => Busy(n)
  BY <1>1 DEF Jobs, Place
<1>4. status'[n] = s /\ \A x \in Nodes : x # n => status'[x] = status[x]
  BY <1>1, <1>2 DEF Now
<1>5. /\ \A x \in {N("speed"), N("init"), N("again"), N("finish")} : x # n /\ x \in Nodes
      /\ N("retry") \in Nodes /\ N("retry") # n /\ N("round") \in Nodes /\ N("round") # n
      /\ \A x \in Timed : x \in Nodes
  BY Kinds DEF Sequences_
<1>6. \A x \in {N("speed"), N("init"), N("again"), N("finish")} : status'[x] # "RUNNING"
  BY <1>4, <1>5 DEF Jobs
<1>7. ~(status'[N("retry")] = "RUNNING" /\ status'[N("round")] = "IDLE")
  BY <1>4, <1>5, InRound
<1>8. CASE status[n] = "RUNNING" /\ s = "RUNNING"
  <2>1. UNCHANGED robotVars /\ last' = last /\ value' = value
    BY <1>1, <1>4, <1>5, <1>8, NoJob DEF robotVars
  <2>2. \A x \in Timed : status'[x] = "RUNNING" => Busy(x)'
    BY <1>4, <1>5, <1>8, <2>1, SameJobs DEF Jobs
  <2>3. Place'
    BY <1>2, <1>8 DEF Place
  <2> QED
    BY <1>3, <1>6, <1>7, <1>8, <2>1, <2>2, <2>3 DEF Jobs
<1>9. CASE ~(status[n] = "RUNNING" /\ s = "RUNNING")
  <2>1. last' = [leaf |-> n, outcome |-> s]
    BY <1>1, <1>2, <1>9, OneJob
  <2>2. For(n)
    BY <1>1, <1>3, BeforeJob DEF Busy
  <2>3. \A x \in Timed : x # n => status[x] # "RUNNING"
    <3> SUFFICES ASSUME NEW x \in Timed, x # n, status[x] = "RUNNING" PROVE FALSE
      OBVIOUS
    <3>1. last = [leaf |-> x, outcome |-> "RUNNING"]
      BY DEF Jobs, Busy
    <3>2. CASE status[n] = "IDLE"
      BY <1>3, <3>1, <3>2, BeforeJob
    <3>3. CASE status[n] = "RUNNING"
      <4>1. last = [leaf |-> n, outcome |-> "RUNNING"]
        BY <1>3, <3>3 DEF Busy
      <4> QED
        BY <3>1, <4>1
    <3> QED
      BY <1>1, <3>2, <3>3
  <2>4. /\ s = "RUNNING" /\ Before(n) => Busy(n)'
        /\ s = "SUCCESS" => After(n)'
        /\ s = "FAILURE" => Failed(n)'
    BY <2>1, <2>2, JobRule
  <2>5. \A x \in Timed : status'[x] = "RUNNING" => Busy(x)'
    BY <1>1, <1>3, <1>4, <1>5, <1>9, <2>3, <2>4
  <2>6. Place'
    BY <1>2, <2>4 DEF Place
  <2> QED
    BY <1>1, <1>3, <1>6, <1>7, <1>9, <2>5, <2>6 DEF Jobs
<1> QED
  BY <1>8, <1>9

\* The leaves that are no jobs.
LEMMA InstantJobs ==
  ASSUME Calm, Jobs, Effect, NEW n \in {N("speed"), N("init"), N("again"), N("finish")},
         P!Inside(n), ret = "unset",
         NEW s \in {"RUNNING", "SUCCESS", "FAILURE"}, GoesUp(n, s, {}), value' = value,
         n \in {N("speed"), N("init")} => s = "SUCCESS", n = N("again") => s = "FAILURE"
  PROVE  Jobs' /\ UNCHANGED <<robotVars, last, value>>
<1>1. n \in Nodes /\ Top = n /\ tree \in DOMAIN Main3 /\ status[n] = "IDLE" /\ Before(n)
  BY Inside DEF Calm, Returns, Jobs, Place
<1>2. Left' = n /\ ret' = s /\ Now(n, s, {})
  BY DEF GoesUp
<1>3. n # N("finish") /\ s # "RUNNING"
  BY <1>1, BeforeIs
<1>4. /\ n \in {N("speed"), N("init")} => After(n)
      /\ n = N("again") => Failed(n)
  BY <1>1, BeforeIs, AfterIs, FailedIs DEF Look
<1>5. status'[n] = s /\ \A x \in Nodes : x # n => status'[x] = status[x]
  BY <1>1, <1>2 DEF Now
<1>6. /\ \A x \in {N("speed"), N("init"), N("again"), N("finish")} : x \in Nodes
      /\ N("retry") \in Nodes /\ N("retry") # n /\ N("round") \in Nodes /\ N("round") # n
      /\ \A x \in Timed : x \in Nodes /\ x # n
  BY <1>3, Kinds DEF Sequences_, N
<1>7. UNCHANGED robotVars /\ last' = last
  BY <1>1, <1>5, <1>6, NoJob DEF robotVars
<1>8. /\ Look' <=> Look
      /\ \A x : (Busy(x)' <=> Busy(x)) /\ (After(x)' <=> After(x)) /\ (Failed(x)' <=> Failed(x))
  BY <1>7, SameJobs
<1>9. Place'
  BY <1>2, <1>3, <1>4, <1>8 DEF Place
<1>10. /\ \A x \in {N("speed"), N("init"), N("again"), N("finish")} : status'[x] # "RUNNING"
       /\ \A x \in Timed : status'[x] = "RUNNING" => Busy(x)'
       /\ status'[N("retry")] = "RUNNING" /\ status'[N("round")] = "IDLE" => Look'
  BY <1>3, <1>5, <1>6, <1>8 DEF Jobs
<1> QED
  BY <1>7, <1>9, <1>10 DEF Jobs

\* tickRoot().
LEMMA RootJobs ==
  ASSUME Calm, Jobs, P!IInv', Effect, P!TickRoot \/ P!TickAgain \/ P!TickEnds
  PROVE  Jobs' /\ UNCHANGED <<robotVars, last, value>>
<1>1. /\ stack = <<>> /\ Left = N("main") /\ ret' = "unset" /\ Top' = N("main")
      /\ value' = value
      /\ status' = IF ret \in {"SUCCESS", "FAILURE"} THEN [status EXCEPT ![N("main")] = "IDLE"]
                   ELSE status
  BY RootSteps
<1>2. Top = N("main")
  BY <1>1 DEF Top
<1>3. /\ ret # "SUCCESS" /\ ret # "FAILURE"
      /\ ret = "unset" /\ status[N("main")] = "IDLE" => Before(N("main"))
      /\ ret = "RUNNING" => status[N("main")] = "RUNNING"
      /\ ret \in {"unset", "RUNNING", "SUCCESS", "FAILURE"}
  BY <1>1, <1>2, AfterIs, FailedIs DEF Jobs, Place, Calm, Returns
<1>4. status' = status
  BY <1>1, <1>3
<1>5. UNCHANGED robotVars /\ last' = last
  <2>1. tree \in DOMAIN Main3
    BY DEF Calm, P!IInv, P!TypeOK
  <2> QED
    BY <1>4, <2>1, NoJob DEF robotVars
<1>6. /\ Look' <=> Look
      /\ \A x : (Busy(x)' <=> Busy(x)) /\ (Before(x)' <=> Before(x))
  BY <1>1, <1>5, SameJobs
<1>7. Place'
  BY <1>1, <1>3, <1>4, <1>6 DEF Place
<1> QED
  BY <1>1, <1>4, <1>5, <1>6, <1>7 DEF Jobs

\* Steps that leave the nodes and the stack alone.
LEMMA StillJobs ==
  ASSUME Calm, Jobs, UNCHANGED <<status, ret, value, last>>, Top' = Top, Left' = Left
  PROVE  Jobs'
<1>1. /\ Look' <=> Look
      /\ \A x : /\ (Busy(x)' <=> Busy(x)) /\ (Before(x)' <=> Before(x))
                /\ (After(x)' <=> After(x)) /\ (Failed(x)' <=> Failed(x))
  BY SameJobs
<1>2. Place'
  BY <1>1 DEF Jobs, Place
<1> QED
  BY <1>1, <1>2 DEF Jobs

\* A step of the robot is one of a job, or changes nothing of the robot.
LEMMA RobotSteps ==
  ASSUME Calm, Jobs, [Next]_vars
  PROVE  /\ Jobs'
         /\ \/ UNCHANGED <<robotVars, last, value>>
            \/ \E n \in Timed : \E s \in {"RUNNING", "SUCCESS", "FAILURE"} :
                 /\ Effect /\ Now(n, s, {}) /\ n \in Nodes
                 /\ \/ status[n] = "IDLE" /\ Before(n)
                    \/ status[n] = "RUNNING" /\ Busy(n)
                 /\ status[n] = "IDLE" => s = "RUNNING" \/ (s = "FAILURE" /\ n \in MayFailAtOnce)
                 /\ status[n] = "RUNNING" => s # "RUNNING"
                 /\ n \in Sleeps => s # "FAILURE"
                 /\ IF n = N("approach") /\ s = "SUCCESS" THEN value' \in Labels ELSE value' = value
<1>1. P!IInv' /\ P!TypeOK /\ tree \in DOMAIN Main3
  BY EngineStep DEF Calm, P!IInv, P!TypeOK
<1>2. CASE BT!Next /\ Effect
  <2>1. CASE P!TickRoot \/ P!TickAgain \/ P!TickEnds
    BY <1>1, <1>2, <2>1, RootJobs
  <2>2. ASSUME NEW n \in Nodes, P!Inside(n), P!OrderedStep(n)
        PROVE  Jobs' /\ UNCHANGED <<robotVars, last, value>>
    <3>1. P!Kind(n) = Kind[n]
      BY <1>1, Tree
    <3>2. Kind[n] \in P!Ordered
      BY <2>2, <3>1
      DEF P!OrderedStep, P!OrderedTick, P!OrderedRunning, P!OrderedStop, P!OrderedPass,
          P!OrderedSkip, P!OrderedEnd, P!OrderedCaught, P!Entered, P!Back
    <3>3. n \in Sequences_
      BY <3>2, Kinds DEF P!Ordered, P!Sequences_, P!Fallbacks
    <3> QED
      BY <1>1, <1>2, <2>2, <3>3, SequenceJobs
  <2>3. ASSUME NEW n \in Nodes, P!Inside(n), P!LoopTick(n) \/ P!LoopAgain(n) \/ P!LoopBack(n)
        PROVE  Jobs' /\ UNCHANGED <<robotVars, last, value>>
    <3>1. Kind[n] \in P!Loops
      BY <1>1, <2>3, Tree DEF P!LoopTick, P!LoopAgain, P!LoopBack, P!Entered, P!Back
    <3>2. n = N("retry")
      BY <3>1, Kinds DEF P!Loops
    <3> QED
      BY <1>1, <1>2, <2>3, <3>2, RetryJobs
  <2>4. ASSUME NEW n \in Nodes, P!Inside(n), P!PreconditionTick(n) \/ P!PreconditionBack(n)
        PROVE  Jobs' /\ UNCHANGED <<robotVars, last, value>>
    <3>1. n \in Preconditions
      BY <1>1, <2>4, Tree, Kinds DEF P!PreconditionTick, P!PreconditionBack, P!Entered, P!Back
    <3> QED
      BY <1>1, <1>2, <2>4, <3>1, PreconditionJobs
  <2>5. ASSUME NEW n \in Nodes, P!Inside(n), P!LeafStep(n)
        PROVE  /\ Jobs'
               /\ \/ UNCHANGED <<robotVars, last, value>>
                  \/ \E s \in {"RUNNING", "SUCCESS", "FAILURE"} :
                       /\ n \in Timed /\ Now(n, s, {})
                       /\ \/ status[n] = "IDLE" /\ Before(n)
                          \/ status[n] = "RUNNING" /\ Busy(n)
                       /\ status[n] = "IDLE" => s = "RUNNING" \/ (s = "FAILURE" /\ n \in MayFailAtOnce)
                       /\ status[n] = "RUNNING" => s # "RUNNING"
                       /\ n \in Sleeps => s # "FAILURE"
                       /\ IF n = N("approach") /\ s = "SUCCESS" THEN value' \in Labels ELSE value' = value
    <3>1. PICK s \in {"RUNNING", "SUCCESS", "FAILURE"} :
            /\ n \notin DOMAIN Children /\ ret = "unset" /\ GoesUp(n, s, {})
            /\ n \in {N("speed"), N("init")} => s = "SUCCESS"
            /\ n = N("again") => s = "FAILURE"
            /\ n = N("finish") => s = "RUNNING"
            /\ n \in Timed /\ status[n] = "IDLE" =>
                 s = "RUNNING" \/ (s = "FAILURE" /\ n \in MayFailAtOnce)
            /\ n \in Sleeps => s # "FAILURE"
            /\ IF n = N("approach") /\ status[n] = "RUNNING" /\ s = "SUCCESS"
               THEN value' \in Labels ELSE value' = value
      BY <1>1, <2>5, LeafSteps
    <3>2. status[n] \in {"IDLE", "RUNNING"}
      BY <2>5, <3>1, Inside DEF Calm, Returns
    <3>3. CASE n \in Timed
      <4>1. /\ status[n] = "IDLE" => s # "SUCCESS"
            /\ IF n = N("approach") /\ s = "SUCCESS" THEN value' \in Labels ELSE value' = value
        BY <3>1, <3>2, <3>3
      <4>2. /\ Jobs'
            /\ \/ status[n] = "IDLE" /\ Before(n)
               \/ status[n] = "RUNNING" /\ Busy(n)
            /\ status[n] = "RUNNING" /\ s = "RUNNING" => UNCHANGED <<robotVars, last, value>>
        BY <1>1, <1>2, <2>5, <3>1, <3>3, <4>1, TimedJobs
      <4>3. Now(n, s, {})
        BY <3>1 DEF GoesUp
      <4> QED
        BY <3>1, <3>3, <4>1, <4>2, <4>3
    <3>4. CASE n \notin Timed
      <4>1. n \in {N("speed"), N("init"), N("again"), N("finish")} /\ n # N("approach")
        BY <3>1, <3>4, Kinds DEF Timed, Actions
      <4> QED
        BY <1>2, <2>5, <3>1, <4>1, InstantJobs
    <3> QED
      BY <3>3, <3>4
  <2>6. ASSUME NEW n \in Sleeps, P!SleepStep(n)
        PROVE  Jobs' /\ UNCHANGED <<robotVars, last, value>>
    <3>1. UNCHANGED <<status, ret, value>> /\ Top' = Top /\ Left' = Left
      BY <1>1, <2>6, HandlerSteps
    <3>2. UNCHANGED robotVars /\ last' = last
      BY <1>1, <1>2, <3>1, NoJob DEF robotVars
    <3> QED
      BY <3>1, <3>2, StillJobs
  <2>7. CASE \E n \in Nodes : P!Inside(n) /\ P!LeafStep(n)
    <3>1. PICK n \in Nodes : P!Inside(n) /\ P!LeafStep(n)
      BY <2>7
    <3> QED
      BY <1>2, <2>5, <3>1
  <2> QED
    BY <1>1, <1>2, <2>1, <2>2, <2>3, <2>4, <2>6, <2>7, Steps
<1>3. CASE UNCHANGED vars
  <2>1. UNCHANGED <<tree, status, stack, ret, mem, robotVars, last, value>>
    BY <1>3 DEF vars, BT!vars, robotVars
  <2>2. Top' = Top /\ Left' = Left
    BY <1>1, <2>1, Still
  <2> QED
    BY <2>1, <2>2, StillJobs
<1> QED
  BY <1>2, <1>3 DEF Next

\* The first job is the boot.
LEMMA JobsInit ==
  Init => Jobs
<1> SUFFICES ASSUME Init PROVE Jobs
  OBVIOUS
<1>1. Calm /\ P!Init
  BY CalmInit, SameSteps DEF Init
<1>2. /\ tree \in DOMAIN Main3 /\ stack = <<>> /\ ret = "unset" /\ \A x \in Nodes : status[x] = "IDLE"
  <2>1. tree \in DOMAIN Main3
    BY <1>1 DEF P!Init
  <2> QED
    BY <1>1, <2>1, Tree DEF P!Init, P!None
<1>3. last = [leaf |-> N("boot"), outcome |-> "IDLE"]
  BY DEF Init
<1>4. /\ \A x \in Timed : x \in Nodes
      /\ \A x \in {N("speed"), N("init"), N("again"), N("finish")} : x \in Nodes
      /\ N("retry") \in Nodes
  BY Kinds
<1>5. Place
  BY <1>2, <1>3, BeforeIs DEF Place, Top
<1> QED
  BY <1>2, <1>4, <1>5 DEF Jobs

-----------------------------------------------------------------------------
(* The plan and the robot                                                  *)

\* The leaves between which an object may hang in the gripper.
Loaded == {N("grasp"), N("hold"), N("lift")} \cup ({"carry", "lower"} \X Bins)

\* Only what has just been seen is held; an object in the gripper is on its way to its
\* bin, or has none, or a leaf has failed; a move ends where its port says, and the arm
\* rests while the gripper closes.
Robot ==
  /\ held \in {"nothing", value}
  /\ last.outcome = "FAILURE" => failed /\ last.leaf \in Actions
  /\ held # "nothing" => \/ last.outcome = "FAILURE" \/ last.leaf \in Loaded
                         \/ last.leaf = N("pause") /\ value \notin Bins
  /\ last.leaf \in Moves /\ last.outcome = "SUCCESS" => arm = Ports[last.leaf].to
  /\ last.leaf = N("hold") => arm = Pose("object", -105)
  /\ ReleasedInBin

\* The ports of the moves that pick the object.
LEMMA PortsAre ==
  /\ Ports[N("down")]  = Move(Pose("object", 70), Pose("object", -105), "open")
  /\ Ports[N("grasp")] = Move(Pose("object", -105), Pose("object", -105), "close")
  /\ Ports[N("lift")]  = Move(Pose("object", -105), Pose("object", 0), "close")
<1>1. \A x \in {"down", "grasp", "lift"} : N(x) \in Moves
  BY Names DEF N
<1> QED
  BY <1>1 DEF Ports, N

\* Which leaves move the arm, and which carry the object.
LEMMA MovesAre ==
  /\ \A x \in {"down", "grasp", "lift"} : N(x) \in Moves
  /\ \A x \in {"boot", "settle", "hold", "pause", "approach", "conveyor"} : N(x) \notin Moves
  /\ \A b \in Bins : \A x \in {"carry", "lower", "release", "raise", "home"} : <<x, b>> \in Moves
  /\ \A x \in {"grasp", "hold", "lift"} : N(x) \in Loaded
  /\ \A x \in {"boot", "settle", "pause", "approach", "conveyor", "down"} : N(x) \notin Loaded
  /\ \A b \in Bins : /\ <<"carry", b>> \in Loaded /\ <<"lower", b>> \in Loaded
                     /\ <<"release", b>> \notin Loaded /\ <<"raise", b>> \notin Loaded
                     /\ <<"home", b>> \notin Loaded
  /\ Moves \subseteq Actions /\ N("approach") \in Actions /\ N("conveyor") \in Actions
  /\ Actions \cap Sleeps = {}
  /\ \A x, y : N(x) = N(y) <=> x = y
  /\ \A x, y : \A b \in Bins : N(x) # <<y, b>>
  /\ \A x, y, b, c : <<x, b>> = <<y, c>> <=> x = y /\ b = c
<1>1. /\ \A x \in {"down", "grasp", "lift"} : N(x) \in Moves
      /\ \A x \in {"boot", "settle", "hold", "pause", "approach", "conveyor"} : N(x) \notin Moves
      /\ \A b \in Bins : \A x \in {"carry", "lower", "release", "raise", "home"} : <<x, b>> \in Moves
  BY Names DEF N
<1>2. /\ \A x \in {"grasp", "hold", "lift"} : N(x) \in Loaded
      /\ \A x \in {"boot", "settle", "pause", "approach", "conveyor", "down"} : N(x) \notin Loaded
  BY Names DEF Loaded, N
<1>3. \A b \in Bins : /\ <<"carry", b>> \in Loaded /\ <<"lower", b>> \in Loaded
                      /\ <<"release", b>> \notin Loaded /\ <<"raise", b>> \notin Loaded
                      /\ <<"home", b>> \notin Loaded
  BY Names DEF Loaded, N
<1>4. Moves \subseteq Actions /\ N("approach") \in Actions /\ N("conveyor") \in Actions
  BY DEF Actions
<1>5. Actions \cap Sleeps = {}
  <2>1. Actions \subseteq Nodes /\ \A n \in Nodes : Kind[n] = "Action" <=> n \in Actions
    BY Kinds
  <2>2. \A n \in Nodes : Kind[n] = "Sleep" <=> n \in Sleeps
    BY Kinds
  <2> QED
    BY <2>1, <2>2
<1>6. /\ \A x, y : N(x) = N(y) <=> x = y
      /\ \A x, y : \A b \in Bins : N(x) # <<y, b>>
  BY Names DEF N
<1> QED
  BY <1>1, <1>2, <1>3, <1>4, <1>5, <1>6

\* What a job does to last, failed and the label.
Runs(n, s) ==
  /\ last' = [leaf |-> n, outcome |-> s]
  /\ failed' = IF n = N("approach") /\ s = "RUNNING" THEN FALSE
               ELSE IF n \in Actions /\ s = "FAILURE" THEN TRUE ELSE failed
  /\ IF n = N("approach") /\ s = "SUCCESS" THEN value' \in Labels ELSE value' = value

\* A job that fails.
LEMMA RobotFails ==
  ASSUME Robot, NEW n \in Actions, Runs(n, "FAILURE"), UNCHANGED <<held, released>>
  PROVE  Robot'
<1>1. last'.leaf = n /\ last'.outcome = "FAILURE" /\ failed' /\ value' = value
  BY DEF Runs
<1>2. n # N("hold")
  BY MovesAre DEF Sleeps
<1>3. ReleasedInBin'
  BY DEF Robot, ReleasedInBin
<1> QED
  BY <1>1, <1>2, <1>3 DEF Robot

\* A job that is done.
LEMMA RobotEnds ==
  ASSUME Robot, NEW n \in Timed, Busy(n), Runs(n, "SUCCESS"), UNCHANGED <<held, released>>,
         n \in Moves => arm' = Ports[n].to, n = N("hold") => arm' = arm
  PROVE  Robot'
<1>1. last'.leaf = n /\ last'.outcome = "SUCCESS" /\ last.leaf = n /\ last.outcome = "RUNNING"
  BY DEF Runs, Busy
<1>2. held # "nothing" => n \in Loaded \/ (n = N("pause") /\ value \notin Bins)
  BY <1>1 DEF Robot
<1>3. n = N("approach") => held = "nothing"
  BY <1>2, MovesAre
<1>4. n # N("approach") => value' = value
  BY DEF Runs
<1>5. held' \in {"nothing", value'}
  BY <1>3, <1>4 DEF Robot
<1>6. n = N("pause") => value' = value
  BY <1>4, MovesAre
<1>7. held' # "nothing" => n \in Loaded \/ (n = N("pause") /\ value' \notin Bins)
  BY <1>2, <1>6
<1>8. ReleasedInBin'
  BY DEF Robot, ReleasedInBin
<1>9. n = N("hold") => arm' = Pose("object", -105)
  BY <1>1 DEF Robot
<1> QED
  BY <1>1, <1>5, <1>7, <1>8, <1>9 DEF Robot

\* Before the moves that open the gripper nothing is held but what belongs there.
LEMMA HeldBefore ==
  ASSUME Robot, NEW n \in Timed, Before(n)
  PROVE  held # "nothing" =>
           \/ n \in {N("hold"), N("lift")}
           \/ n = N("pause") /\ value \notin Bins
           \/ n = N("approach") /\ (failed \/ value \notin Bins)
           \/ \E b \in Bins : n \in {<<"carry", b>>, <<"lower", b>>, <<"release", b>>}
<1> SUFFICES ASSUME held # "nothing"
             PROVE  \/ n \in {N("hold"), N("lift")}
                    \/ n = N("pause") /\ value \notin Bins
                    \/ n = N("approach") /\ (failed \/ value \notin Bins)
                    \/ \E b \in Bins : n \in {<<"carry", b>>, <<"lower", b>>, <<"release", b>>}
  OBVIOUS
<1>1. \/ last.outcome = "FAILURE" /\ failed
      \/ last.leaf \in Loaded
      \/ last.leaf = N("pause") /\ value \notin Bins
  BY DEF Robot
<1>2. \A x \in {"boot", "settle", "approach", "conveyor", "down"} :
        ~Ended(N(x)) /\ ~(last = [leaf |-> N(x), outcome |-> "IDLE"])
  <2>1. \A x \in {"boot", "settle", "approach", "conveyor", "down"} :
          N(x) \notin Loaded /\ N(x) # N("pause")
    BY MovesAre
  <2> QED
    BY <1>1, <2>1 DEF Ended
<1>3. ASSUME NEW b \in Bins, NEW x \in {"release", "raise", "home"}
      PROVE  ~Ended(<<x, b>>)
  <2>1. /\ <<"release", b>> \notin Loaded /\ <<"raise", b>> \notin Loaded
        /\ <<"home", b>> \notin Loaded
    BY MovesAre
  <2>2. <<x, b>> \notin Loaded
    BY <2>1
  <2>3. <<x, b>> # N("pause")
    BY MovesAre
  <2> QED
    BY <1>1, <2>2, <2>3 DEF Ended
<1>4. ~Before(N("boot")) /\ ~Before(N("settle")) /\ ~Before(N("conveyor")) /\ ~Before(N("down"))
      /\ ~Before(N("grasp"))
  BY <1>2, BeforeIs
<1>5. Before(N("pause")) => value \notin Bins
  <2>1. SUFFICES ASSUME Before(N("pause")) PROVE value \notin Bins
    OBVIOUS
  <2>2. CASE value = "none"
    BY <1>2, <2>1, <2>2, BeforeIs DEF Done
  <2>3. CASE value # "none" /\ value \in Bins
    <3>1. Ended(<<"home", value>>)
      BY <2>1, <2>3, BeforeIs DEF Done, Sorted
    <3> QED
      BY <1>3, <2>3, <3>1
  <2> QED
    BY <2>2, <2>3
<1>6. Before(N("approach")) => failed \/ value \notin Bins
  <2>1. SUFFICES ASSUME Before(N("approach")) PROVE failed \/ value \notin Bins
    OBVIOUS
  <2>2. last.outcome = "FAILURE" \/ Ended(N("pause"))
    BY <1>2, <2>1, BeforeIs DEF Look
  <2>3. Ended(N("pause")) => last.leaf = N("pause") /\ last.outcome # "FAILURE"
    BY DEF Ended
  <2>4. N("pause") \notin Loaded
    BY MovesAre
  <2> QED
    BY <1>1, <2>2, <2>3, <2>4 DEF Robot
<1>7. \A b \in Bins : ~Before(<<"raise", b>>) /\ ~Before(<<"home", b>>)
  <2>1. ASSUME NEW b \in Bins PROVE ~Before(<<"raise", b>>) /\ ~Before(<<"home", b>>)
    <3>1. /\ Before(<<"raise", b>>) => Ended(<<"release", b>>)
          /\ Before(<<"home", b>>) => Ended(<<"raise", b>>)
      BY BranchIs
    <3> QED
      BY <1>3, <3>1
  <2> QED
    BY <2>1
<1>8. /\ n = N("boot") => FALSE
      /\ n = N("settle") => FALSE
      /\ n = N("conveyor") => FALSE
      /\ n = N("down") => FALSE
      /\ n = N("grasp") => FALSE
  BY <1>4
<1>9. \A b \in Bins : n # <<"raise", b>> /\ n # <<"home", b>>
  BY <1>7
<1>10. CASE n \in {N("boot"), N("settle"), N("hold"), N("pause"), N("approach"), N("conveyor"),
                  N("down"), N("grasp"), N("lift")}
  BY <1>5, <1>6, <1>8, <1>10
<1>11. CASE \E b \in Bins : n \in {<<"carry", b>>, <<"lower", b>>, <<"release", b>>,
                                  <<"raise", b>>, <<"home", b>>}
  BY <1>9, <1>11
<1> QED
  BY <1>10, <1>11, TimedNames

\* The same for the branch of a bin.
LEMMA BranchMoves ==
  ASSUME NEW b \in Bins
  PROVE  /\ \A x \in {"carry", "lower", "release", "raise", "home"} :
              /\ <<x, b>> \in Moves
              /\ <<x, b>> # N("hold") /\ <<x, b>> # N("lift") /\ <<x, b>> # N("pause")
              /\ <<x, b>> # N("approach")
         /\ <<"carry", b>> \in Loaded /\ <<"lower", b>> \in Loaded
         /\ Ports[<<"carry", b>>]   = Move(Pose("object", 0), Pose(b, -10), "close")
         /\ Ports[<<"lower", b>>]   = Move(Pose(b, -10), Pose(b, -80), "close")
         /\ Ports[<<"release", b>>] = Move(Pose(b, -80), Pose(b, -80), "open")
         /\ Ports[<<"raise", b>>]   = Move(Pose(b, -80), Pose(b, -10), "open")
         /\ Ports[<<"home", b>>]    = Move(Pose(b, -10), Pose("home", 40), "open")
<1>1. \A x : <<x, b>> # N("hold") /\ <<x, b>> # N("lift") /\ <<x, b>> # N("pause")
             /\ <<x, b>> # N("approach")
  BY MovesAre
<1>2. \A x \in {"carry", "lower", "release", "raise", "home"} : <<x, b>> \in Moves
  BY Names
<1>3. <<"carry", b>> \in Loaded /\ <<"lower", b>> \in Loaded
  BY DEF Loaded
<1>4. /\ Ports[<<"carry", b>>]   = Move(Pose("object", 0), Pose(b, -10), "close")
      /\ Ports[<<"lower", b>>]   = Move(Pose(b, -10), Pose(b, -80), "close")
      /\ Ports[<<"release", b>>] = Move(Pose(b, -80), Pose(b, -80), "open")
      /\ Ports[<<"raise", b>>]   = Move(Pose(b, -80), Pose(b, -10), "open")
      /\ Ports[<<"home", b>>]    = Move(Pose(b, -10), Pose("home", 40), "open")
  BY <1>2 DEF Ports, Carry
<1> QED
  BY <1>1, <1>2, <1>3, <1>4

\* A job that begins.
LEMMA RobotBegins ==
  ASSUME Robot, NEW n \in Timed, Before(n), Runs(n, "RUNNING"),
         n \in Moves => MoveBegins(n), n = N("approach") => ApproachBegins,
         n \notin Moves /\ n # N("approach") => UNCHANGED <<arm, held, released>>
  PROVE  Robot'
<1>1. last'.leaf = n /\ last'.outcome = "RUNNING" /\ value' = value
  BY DEF Runs
<1>2. /\ held \in {"nothing", value} /\ ReleasedInBin
      /\ last.outcome = "FAILURE" => failed
  BY DEF Robot
<1> DEFINE Fine == /\ held' \in {"nothing", value}
                   /\ held' # "nothing" => n \in Loaded \/ (n = N("pause") /\ value \notin Bins)
                   /\ n = N("hold") => arm' = Pose("object", -105)
                   /\ ReleasedInBin'
<1>3. SUFFICES Fine
  BY <1>1 DEF Robot
<1>4. CASE n \in {N("boot"), N("settle"), N("hold"), N("pause"), N("conveyor")}
  <2>1. n \notin Moves /\ n # N("approach")
    BY <1>4, MovesAre
  <2>2. UNCHANGED <<arm, held, released>>
    BY <2>1
  <2>3. ReleasedInBin'
    BY <1>2, <2>2 DEF ReleasedInBin
  <2>4. held # "nothing" => n = N("hold") \/ (n = N("pause") /\ value \notin Bins)
    <3>1. \A b \in Bins : n # <<"carry", b>> /\ n # <<"lower", b>> /\ n # <<"release", b>>
      BY <1>4, MovesAre
    <3>2. n # N("lift")
      BY <1>4, MovesAre
    <3> QED
      BY <2>1, <3>1, <3>2, HeldBefore
  <2>5. n = N("hold") => arm' = Pose("object", -105)
    <3>1. SUFFICES ASSUME n = N("hold") PROVE arm = Pose("object", -105)
      BY <2>2
    <3>2. Ended(N("grasp"))
      BY <3>1, BeforeIs
    <3>3. last.leaf = N("grasp") /\ last.outcome = "SUCCESS" /\ N("grasp") \in Moves
      BY <3>2, MovesAre DEF Ended
    <3>4. arm = Ports[N("grasp")].to
      BY <3>3 DEF Robot
    <3> QED
      BY <3>4, PortsAre DEF Move
  <2>6. N("hold") \in Loaded
    BY MovesAre
  <2> QED
    BY <1>2, <2>2, <2>3, <2>4, <2>5, <2>6
<1>5. CASE n = N("approach")
  <2>1. held' = "nothing"
        /\ released' = IF held # "nothing" THEN [what |-> held, at |-> arm, failed |-> failed]
                       ELSE released
    BY <1>5 DEF ApproachBegins, Grip
  <2>2. \A b \in Bins : n # <<"carry", b>> /\ n # <<"lower", b>> /\ n # <<"release", b>>
    BY <1>5, MovesAre
  <2>3. n # N("hold") /\ n # N("lift") /\ n # N("pause")
    BY <1>5, MovesAre
  <2>4. held # "nothing" => failed \/ value \notin Bins
    BY <2>2, <2>3, HeldBefore
  <2>5. ReleasedInBin'
    BY <1>2, <2>1, <2>4 DEF ReleasedInBin
  <2> QED
    BY <2>1, <2>3, <2>5
<1>6. CASE n = N("down")
  <2>1. n \in Moves /\ n # N("hold") /\ n # N("lift") /\ n # N("pause") /\ n # N("approach")
    BY <1>6, MovesAre
  <2>2. \A b \in Bins : n # <<"carry", b>> /\ n # <<"lower", b>> /\ n # <<"release", b>>
    BY <1>6, MovesAre
  <2>3. held = "nothing"
    BY <2>1, <2>2, HeldBefore
  <2>4. held' = "nothing" /\ released' = released
    BY <1>6, <2>1, <2>3, PortsAre DEF MoveBegins, Grip, Move
  <2> QED
    BY <1>2, <2>1, <2>4 DEF ReleasedInBin
<1>7. CASE n \in {N("grasp"), N("lift")}
  <2>1. n \in Moves /\ n # N("hold") /\ n \in Loaded
    BY <1>7, MovesAre
  <2>2. Ports[n].grip = "close"
    BY <1>7, PortsAre DEF Move
  <2>3. held' \in {value, held} /\ released' = released
    BY <2>1, <2>2 DEF MoveBegins, Grip
  <2> QED
    BY <1>2, <2>1, <2>3 DEF ReleasedInBin
<1>8. ASSUME NEW b \in Bins, n \in {<<"carry", b>>, <<"lower", b>>}
      PROVE  Fine
  <2>1. /\ <<"carry", b>> \in Moves /\ <<"carry", b>> \in Loaded /\ <<"carry", b>> # N("hold")
        /\ <<"lower", b>> \in Moves /\ <<"lower", b>> \in Loaded /\ <<"lower", b>> # N("hold")
    BY BranchMoves
  <2>2. Ports[<<"carry", b>>].grip = "close" /\ Ports[<<"lower", b>>].grip = "close"
    <3>1. /\ Ports[<<"carry", b>>] = Move(Pose("object", 0), Pose(b, -10), "close")
          /\ Ports[<<"lower", b>>] = Move(Pose(b, -10), Pose(b, -80), "close")
      BY BranchMoves
    <3> QED
      BY <3>1 DEF Move
  <2>3. n \in Moves /\ n \in Loaded /\ n # N("hold") /\ Ports[n].grip = "close"
    BY <1>8, <2>1, <2>2
  <2>4. held' \in {value, held} /\ released' = released
    BY <2>3 DEF MoveBegins, Grip
  <2> QED
    BY <1>2, <2>3, <2>4 DEF ReleasedInBin
<1>9. ASSUME NEW b \in Bins, n = <<"release", b>>
      PROVE  Fine
  <2>1. n \in Moves /\ n # N("hold")
    BY <1>9, BranchMoves
  <2>2. Ports[n].grip = "open" /\ Ports[n].from = Pose(b, -80)
    <3>1. Ports[n] = Move(Pose(b, -80), Pose(b, -80), "open")
      BY <1>9, BranchMoves
    <3> QED
      BY <3>1 DEF Move
  <2>3. value = b
    BY <1>9, BranchIs
  <2>4. held' = "nothing"
        /\ released' = IF held # "nothing" THEN [what |-> held, at |-> Pose(b, -80), failed |-> failed]
                       ELSE released
    BY <2>1, <2>2 DEF MoveBegins, Grip
  <2>5. ReleasedInBin'
    BY <1>2, <2>3, <2>4 DEF ReleasedInBin
  <2> QED
    BY <2>1, <2>4, <2>5
<1>10. ASSUME NEW b \in Bins, n \in {<<"raise", b>>, <<"home", b>>}
       PROVE  Fine
  <2>1. /\ <<"raise", b>> \in Moves /\ <<"raise", b>> # N("hold")
        /\ <<"home", b>> \in Moves /\ <<"home", b>> # N("hold")
    BY BranchMoves
  <2>2. Ports[<<"raise", b>>].grip = "open" /\ Ports[<<"home", b>>].grip = "open"
    <3>1. /\ Ports[<<"raise", b>>] = Move(Pose(b, -80), Pose(b, -10), "open")
          /\ Ports[<<"home", b>>] = Move(Pose(b, -10), Pose("home", 40), "open")
      BY BranchMoves
    <3> QED
      BY <3>1 DEF Move
  <2>3. n \in Moves /\ n # N("hold") /\ Ports[n].grip = "open"
    BY <1>10, <2>1, <2>2
  <2>4. n # N("lift") /\ n # N("pause") /\ n # N("approach")
    BY <1>10, BranchMoves
  <2>5. \A c \in Bins : n # <<"carry", c>> /\ n # <<"lower", c>> /\ n # <<"release", c>>
    BY <1>10
  <2>6. held = "nothing"
    BY <2>3, <2>4, <2>5, HeldBefore
  <2>7. held' = "nothing" /\ released' = released
    BY <2>3, <2>6 DEF MoveBegins, Grip
  <2> QED
    BY <1>2, <2>3, <2>7 DEF ReleasedInBin
<1>11. CASE \E b \in Bins : n \in {<<"carry", b>>, <<"lower", b>>, <<"release", b>>,
                                   <<"raise", b>>, <<"home", b>>}
  <2>1. PICK b \in Bins : n \in {<<"carry", b>>, <<"lower", b>>, <<"release", b>>,
                                 <<"raise", b>>, <<"home", b>>}
    BY <1>11
  <2> HIDE DEF Fine
  <2> QED
    BY <1>8, <1>9, <1>10, <2>1
<1> QED
  BY <1>4, <1>5, <1>6, <1>7, <1>11, TimedNames

\* A step of the job n: it begins, is done or fails.
JobStep(n, s) ==
  /\ Runs(n, s)
  /\ status'[n] = s /\ \A x \in Timed : x # n => status'[x] = status[x]
  /\ \/ s = "RUNNING" /\ status[n] = "IDLE" /\ Before(n)
     \/ s = "SUCCESS" /\ status[n] = "RUNNING" /\ Busy(n)
     \/ s = "FAILURE" /\ n \in Actions /\ (Busy(n) \/ (Before(n) /\ n \in MayFailAtOnce))
  /\ s = "RUNNING" => /\ n \in Moves => MoveBegins(n)
                      /\ n = N("approach") => ApproachBegins
                      /\ n \notin Moves /\ n # N("approach") => UNCHANGED <<arm, held, released>>
  /\ s # "RUNNING" => UNCHANGED <<held, released>>
  /\ s = "SUCCESS" => /\ n \in Moves => arm' = Ports[n].to
                      /\ n = N("hold") => arm' = arm

\* A step of the robot is a step of one job, or changes nothing of the robot.
LEMMA JobSteps ==
  ASSUME Calm, Jobs, [Next]_vars
  PROVE  \/ UNCHANGED <<robotVars, last, value>>
         \/ \E n \in Timed : \E s \in {"RUNNING", "SUCCESS", "FAILURE"} : JobStep(n, s)
<1>1. SUFFICES ASSUME ~UNCHANGED <<robotVars, last, value>>
               PROVE  \E n \in Timed : \E s \in {"RUNNING", "SUCCESS", "FAILURE"} : JobStep(n, s)
  OBVIOUS
<1>2. PICK n \in Timed : \E s \in {"RUNNING", "SUCCESS", "FAILURE"} :
        /\ Effect /\ Now(n, s, {}) /\ n \in Nodes
        /\ \/ status[n] = "IDLE" /\ Before(n)
           \/ status[n] = "RUNNING" /\ Busy(n)
        /\ status[n] = "IDLE" => s = "RUNNING" \/ (s = "FAILURE" /\ n \in MayFailAtOnce)
        /\ status[n] = "RUNNING" => s # "RUNNING"
        /\ n \in Sleeps => s # "FAILURE"
        /\ IF n = N("approach") /\ s = "SUCCESS" THEN value' \in Labels ELSE value' = value
  BY <1>1, RobotSteps
<1>3. PICK s \in {"RUNNING", "SUCCESS", "FAILURE"} :
        /\ Effect /\ Now(n, s, {}) /\ n \in Nodes
        /\ \/ status[n] = "IDLE" /\ Before(n)
           \/ status[n] = "RUNNING" /\ Busy(n)
        /\ status[n] = "IDLE" => s = "RUNNING" \/ (s = "FAILURE" /\ n \in MayFailAtOnce)
        /\ status[n] = "RUNNING" => s # "RUNNING"
        /\ n \in Sleeps => s # "FAILURE"
        /\ IF n = N("approach") /\ s = "SUCCESS" THEN value' \in Labels ELSE value' = value
  BY <1>2
<1>4. /\ last' = [leaf |-> n, outcome |-> s]
      /\ failed' = IF n = N("approach") /\ s = "RUNNING" THEN FALSE
                   ELSE IF n \in Actions /\ s = "FAILURE" THEN TRUE ELSE failed
      /\ CASE n \in Moves /\ s = "RUNNING" -> MoveBegins(n)
           [] n \in Moves /\ s = "SUCCESS" -> MoveEnds(n)
           [] n \in Moves /\ s = "FAILURE" /\ status[n] = "RUNNING" -> MoveFails(n)
           [] n = N("approach") /\ s = "RUNNING" -> ApproachBegins
           [] n = N("approach") /\ s = "SUCCESS" -> ApproachEnds
           [] OTHER -> UNCHANGED <<arm, held, released>>
  BY <1>3, OneJob
<1>5. Runs(n, s)
  BY <1>3, <1>4 DEF Runs
<1>6. status'[n] = s /\ \A x \in Timed : x # n => status'[x] = status[x]
  <2>1. Timed \subseteq Nodes
    BY Kinds
  <2> QED
    BY <1>3, <2>1 DEF Now
<1>7. n \in Actions \/ n \in Sleeps
  BY Kinds
<1>8. \/ s = "RUNNING" /\ status[n] = "IDLE" /\ Before(n)
      \/ s = "SUCCESS" /\ status[n] = "RUNNING" /\ Busy(n)
      \/ s = "FAILURE" /\ n \in Actions /\ (Busy(n) \/ (Before(n) /\ n \in MayFailAtOnce))
  BY <1>3, <1>7
<1>9. N("approach") \notin Moves /\ N("hold") \notin Moves /\ N("hold") # N("approach")
  BY MovesAre
<1>10. s = "RUNNING" => /\ n \in Moves => MoveBegins(n)
                        /\ n = N("approach") => ApproachBegins
                        /\ n \notin Moves /\ n # N("approach") => UNCHANGED <<arm, held, released>>
  BY <1>4, <1>9
<1>11. s = "SUCCESS" => /\ n \in Moves => MoveEnds(n)
                        /\ n = N("approach") => ApproachEnds
                        /\ n \notin Moves /\ n # N("approach") => UNCHANGED <<arm, held, released>>
  BY <1>4, <1>9
<1>12. s = "FAILURE" => \/ MoveFails(n)
                        \/ UNCHANGED <<arm, held, released>>
  BY <1>4, <1>9
<1>13. s # "RUNNING" => UNCHANGED <<held, released>>
  BY <1>11, <1>12 DEF MoveEnds, MoveFails, ApproachEnds
<1>14. s = "SUCCESS" => /\ n \in Moves => arm' = Ports[n].to
                        /\ n = N("hold") => arm' = arm
  BY <1>9, <1>11 DEF MoveEnds
<1> QED
  BY <1>5, <1>6, <1>8, <1>10, <1>13, <1>14 DEF JobStep

\* Every step keeps the invariant of the robot.
LEMMA RobotStep ==
  Calm /\ Jobs /\ Robot /\ [Next]_vars => Robot'
<1> SUFFICES ASSUME Calm, Jobs, Robot, [Next]_vars PROVE Robot'
  OBVIOUS
<1>1. CASE UNCHANGED <<robotVars, last, value>>
  BY <1>1 DEF Robot, ReleasedInBin, robotVars
<1>2. ASSUME NEW n \in Timed, NEW s \in {"RUNNING", "SUCCESS", "FAILURE"}, JobStep(n, s)
      PROVE  Robot'
  <2>1. CASE s = "RUNNING"
    BY <1>2, <2>1, RobotBegins DEF JobStep
  <2>2. CASE s = "SUCCESS"
    BY <1>2, <2>2, RobotEnds DEF JobStep
  <2>3. CASE s = "FAILURE"
    BY <1>2, <2>3, RobotFails DEF JobStep
  <2> QED
    BY <2>1, <2>2, <2>3
<1> QED
  BY <1>1, <1>2, JobSteps

\* The arm is at home with an open gripper at first.
LEMMA RobotInit ==
  Init => Robot
<1>1. N("boot") \notin Moves /\ N("boot") # N("hold") /\ "nothing" \notin Bins
  BY MovesAre DEF Bins
<1> QED
  BY <1>1 DEF Init, Robot, ReleasedInBin

\* The three invariants together are inductive.
THEOREM RobotAlways ==
  Spec => [](Calm /\ Jobs /\ Robot)
<1>1. Calm /\ Jobs /\ Robot /\ [Next]_vars => Calm' /\ Jobs' /\ Robot'
  BY CalmStep, RobotSteps, RobotStep
<1> QED
  BY <1>1, CalmInit, JobsInit, RobotInit, PTL DEF Spec

\* An object is let go of at the bottom of its bin, whatever the labels and whichever
\* servers are unreachable, unless a leaf has failed since it was found.
THEOREM ReleasedInBinAlways ==
  Spec => []ReleasedInBin
<1>1. Robot => ReleasedInBin
  BY DEF Robot
<1> QED
  BY <1>1, RobotAlways, PTL

\* The conveyor leaf runs only in a round that has seen nothing, with an open gripper.
THEOREM BeltOnlyWhenEmptyAlways ==
  Spec => []BeltOnlyWhenEmpty
<1>1. Calm /\ Jobs /\ Robot => BeltOnlyWhenEmpty
  <2> SUFFICES ASSUME Jobs, Robot, status[N("conveyor")] = "RUNNING"
               PROVE  value = "none" /\ held = "nothing"
    BY DEF BeltOnlyWhenEmpty
  <2>1. N("conveyor") \in Timed
    BY MovesAre DEF Timed
  <2>2. Busy(N("conveyor"))
    BY <2>1 DEF Jobs
  <2>3. N("conveyor") \notin Loaded /\ N("conveyor") # N("pause")
    BY MovesAre
  <2>4. value = "none"
    BY <2>2, ForIs DEF Busy
  <2>5. held = "nothing"
    BY <2>2, <2>3 DEF Busy, Robot
  <2> QED
    BY <2>4, <2>5
<1> QED
  BY <1>1, RobotAlways, PTL

\* While a move is the last job, what hangs in the gripper has the label that chose the
\* branch of the tree.
THEOREM HeldIsLabelAlways ==
  Spec => []HeldIsLabel
<1>1. Robot => HeldIsLabel
  BY DEF Robot, HeldIsLabel
<1> QED
  BY <1>1, RobotAlways, PTL

\* Wherever a move begins with an object in the gripper, the arm is there already.
LEMMA MoveFits ==
  ASSUME Robot, NEW n \in Moves, Before(n), held # "nothing"
  PROVE  arm = Ports[n].from
<1>1. n # N("hold") /\ n # N("pause") /\ n # N("approach") /\ n \in Timed
  BY MovesAre DEF Timed
<1>2. \A m \in Moves : Ended(m) => arm = Ports[m].to
  BY DEF Robot, Ended
<1>3. CASE n = N("lift")
  <2>1. last.leaf = N("hold")
    BY <1>3, BeforeIs DEF Ended
  <2>2. arm = Pose("object", -105)
    BY <2>1 DEF Robot
  <2> QED
    BY <1>3, <2>2, PortsAre DEF Move
<1>4. ASSUME NEW b \in Bins, n \in {<<"carry", b>>, <<"lower", b>>, <<"release", b>>}
      PROVE  arm = Ports[n].from
  <2>1. <<"carry", b>> \in Moves /\ <<"lower", b>> \in Moves /\ N("lift") \in Moves
    BY BranchMoves, MovesAre
  <2>2. /\ Before(<<"carry", b>>) => Ended(N("lift"))
        /\ Before(<<"lower", b>>) => Ended(<<"carry", b>>)
        /\ Before(<<"release", b>>) => Ended(<<"lower", b>>)
    BY BranchIs
  <2>3. /\ Ports[N("lift")]         = Move(Pose("object", -105), Pose("object", 0), "close")
        /\ Ports[<<"carry", b>>]   = Move(Pose("object", 0), Pose(b, -10), "close")
        /\ Ports[<<"lower", b>>]   = Move(Pose(b, -10), Pose(b, -80), "close")
        /\ Ports[<<"release", b>>] = Move(Pose(b, -80), Pose(b, -80), "open")
    BY BranchMoves, PortsAre
  <2>4. CASE n = <<"carry", b>>
    BY <1>2, <2>1, <2>2, <2>3, <2>4 DEF Move
  <2>5. CASE n = <<"lower", b>>
    BY <1>2, <2>1, <2>2, <2>3, <2>5 DEF Move
  <2>6. CASE n = <<"release", b>>
    BY <1>2, <2>1, <2>2, <2>3, <2>6 DEF Move
  <2> QED
    BY <1>4, <2>4, <2>5, <2>6
<1> QED
  BY <1>1, <1>3, <1>4, HeldBefore

\* With an object in the gripper no move of the file makes the arm jump: it begins where
\* the move before has ended.
THEOREM HeldNeverJumpsAlways ==
  Spec => HeldNeverJumps
<1> DEFINE Fits == \A n \in Moves : MoveBegins(n) /\ held # "nothing" => arm = arm'
<1>1. ASSUME Calm, Jobs, Robot, [Next]_vars, NEW m \in Moves, MoveBegins(m), held # "nothing"
      PROVE  arm = arm'
  <2>1. CASE UNCHANGED <<robotVars, last, value>>
    BY <2>1 DEF robotVars
  <2>2. ASSUME NEW n \in Timed, NEW s \in {"RUNNING", "SUCCESS", "FAILURE"}, JobStep(n, s)
        PROVE  arm = arm'
    <3>1. m \in Timed /\ status[m] = "IDLE" /\ status'[m] = "RUNNING" /\ arm' = Ports[m].from
      BY <1>1, MovesAre DEF MoveBegins, Begins, Timed
    <3>2. m = n
      BY <2>2, <3>1 DEF JobStep
    <3>3. Before(m)
      BY <2>2, <3>1, <3>2 DEF JobStep
    <3> QED
      BY <1>1, <3>1, <3>3, MoveFits
  <2> QED
    BY <1>1, <2>1, <2>2, JobSteps
<1>2. Calm /\ Jobs /\ Robot /\ [Next]_vars => [Fits]_vars
  BY <1>1
<1>3. Spec => [][Fits]_vars
  BY <1>2, RobotAlways, PTL DEF Spec
<1> QED
  BY <1>3 DEF HeldNeverJumps

-----------------------------------------------------------------------------
(* The tree implements the plan                                            *)

\* What a sequence is that begins with s and goes on with t.
LEMMA ConcatIs ==
  ASSUME NEW S, NEW s \in Seq(S), NEW t \in Seq(S), NEW u \in Seq(S), Len(u) = Len(s) + Len(t),
         \A i \in 1 .. Len(u) : u[i] = IF i <= Len(s) THEN s[i] ELSE t[i - Len(s)]
  PROVE  s \o t = u
<1> DEFINE w == s \o t
<1>1. w \in Seq(S) /\ Len(w) = Len(u)
  OBVIOUS
<1>2. \A i \in 1 .. Len(u) : w[i] = u[i]
  OBVIOUS
<1> HIDE DEF w
<1>3. /\ w = [i \in 1 .. Len(w) |-> w[i]]
      /\ u = [i \in 1 .. Len(u) |-> u[i]]
  BY <1>1
<1>4. w = u
  BY <1>1, <1>2, <1>3
<1> QED
  BY <1>4 DEF w

\* The rounds of the plan, written out.
LEMMA RoundIs ==
  /\ Plan!Round("none") = <<N("conveyor"), N("pause")>>
  /\ \A l : l # "none" /\ l \notin Bins =>
       Plan!Round(l) = <<N("down"), N("grasp"), N("hold"), N("lift"), N("pause")>>
  /\ \A b \in Bins :
       Plan!Round(b) = <<N("down"), N("grasp"), N("hold"), N("lift"), <<"carry", b>>,
                         <<"lower", b>>, <<"release", b>>, <<"raise", b>>, <<"home", b>>,
                         N("pause")>>
<1>1. \A x : Plan!Job(x) = N(x)
  BY DEF Plan!Job, N
<1>2. "none" \notin Bins
  BY DEF Bins
<1>3. ASSUME NEW a, NEW b, NEW c, NEW d, NEW f
      PROVE  <<a, b, c, d>> \o <<>> \o <<f>> = <<a, b, c, d, f>>
  <2> DEFINE S == {a, b, c, d, f}
  <2>1. <<a, b, c, d>> \o <<>> = <<a, b, c, d>>
    OBVIOUS
  <2>2. <<a, b, c, d>> \in Seq(S) /\ <<f>> \in Seq(S) /\ <<a, b, c, d, f>> \in Seq(S)
    OBVIOUS
  <2> DEFINE r == <<a, b, c, d>>
             u == <<a, b, c, d, f>>
  <2>3. Len(r) = 4 /\ Len(<<f>>) = 1 /\ Len(u) = 5
    OBVIOUS
  <2>4. \A m \in 1 .. 5 : u[m] = IF m <= 4 THEN r[m] ELSE <<f>>[m - 4]
    OBVIOUS
  <2> HIDE DEF S
  <2>5. r \in Seq(S) /\ <<f>> \in Seq(S) /\ u \in Seq(S)
    BY <2>2
  <2> HIDE DEF r, u
  <2>6. \A m \in 1 .. Len(u) : u[m] = IF m <= Len(r) THEN r[m] ELSE <<f>>[m - Len(r)]
    BY <2>3, <2>4
  <2>7. Len(u) = Len(r) + Len(<<f>>)
    BY <2>3
  <2>8. r \o <<f>> = u
    BY <2>5, <2>6, <2>7, ConcatIs
  <2> QED
    BY <2>1, <2>8 DEF r, u
<1>4. ASSUME NEW a, NEW b, NEW c, NEW d, NEW f, NEW g, NEW h, NEW i, NEW j, NEW k
      PROVE  <<a, b, c, d>> \o <<f, g, h, i, j>> \o <<k>> = <<a, b, c, d, f, g, h, i, j, k>>
  <2> DEFINE S == {a, b, c, d, f, g, h, i, j, k}
             r == <<a, b, c, d>>
             s == <<f, g, h, i, j>>
             t == <<a, b, c, d, f, g, h, i, j>>
             u == <<a, b, c, d, f, g, h, i, j, k>>
  <2>1. r \in Seq(S) /\ s \in Seq(S) /\ t \in Seq(S) /\ <<k>> \in Seq(S) /\ u \in Seq(S)
    OBVIOUS
  <2>2. Len(r) = 4 /\ Len(s) = 5 /\ Len(t) = 9 /\ Len(<<k>>) = 1 /\ Len(u) = 10
    OBVIOUS
  <2>3. \A m \in 1 .. 9 : t[m] = IF m <= 4 THEN r[m] ELSE s[m - 4]
    OBVIOUS
  <2>4. \A m \in 1 .. 10 : u[m] = IF m <= 9 THEN t[m] ELSE <<k>>[m - 9]
    OBVIOUS
  <2> HIDE DEF S, r, s, t, u
  <2>5. r \o s = t
    <3>1. Len(t) = Len(r) + Len(s)
      BY <2>2
    <3>2. \A m \in 1 .. Len(t) : t[m] = IF m <= Len(r) THEN r[m] ELSE s[m - Len(r)]
      BY <2>2, <2>3
    <3> QED
      BY <2>1, <3>1, <3>2, ConcatIs
  <2>6. t \o <<k>> = u
    <3>1. Len(u) = Len(t) + Len(<<k>>)
      BY <2>2
    <3>2. \A m \in 1 .. Len(u) : u[m] = IF m <= Len(t) THEN t[m] ELSE <<k>>[m - Len(t)]
      BY <2>2, <2>4
    <3> QED
      BY <2>1, <3>1, <3>2, ConcatIs
  <2>7. r \o s \o <<k>> = u
    BY <2>5, <2>6
  <2> QED
    BY <2>7 DEF r, s, u
<1>5. \A l : l # "none" /\ l \notin Bins =>
        Plan!Round(l) = <<N("down"), N("grasp"), N("hold"), N("lift"), N("pause")>>
  <2> SUFFICES ASSUME NEW l, l # "none", l \notin Bins
               PROVE  Plan!Round(l) = <<N("down"), N("grasp"), N("hold"), N("lift"), N("pause")>>
    OBVIOUS
  <2>1. Plan!Round(l) = <<N("down"), N("grasp"), N("hold"), N("lift")>> \o <<>> \o <<N("pause")>>
    BY <1>1 DEF Plan!Round
  <2> QED
    BY <1>3, <2>1
<1>6. \A b \in Bins :
        Plan!Round(b) = <<N("down"), N("grasp"), N("hold"), N("lift"), <<"carry", b>>,
                          <<"lower", b>>, <<"release", b>>, <<"raise", b>>, <<"home", b>>,
                          N("pause")>>
  <2> SUFFICES ASSUME NEW b \in Bins
               PROVE  Plan!Round(b) = <<N("down"), N("grasp"), N("hold"), N("lift"), <<"carry", b>>,
                                        <<"lower", b>>, <<"release", b>>, <<"raise", b>>,
                                        <<"home", b>>, N("pause")>>
    OBVIOUS
  <2>1. Plan!Round(b) = <<N("down"), N("grasp"), N("hold"), N("lift")>>
                        \o <<<<"carry", b>>, <<"lower", b>>, <<"release", b>>, <<"raise", b>>,
                             <<"home", b>>>> \o <<N("pause")>>
    BY <1>1, <1>2 DEF Plan!Round
  <2> QED
    BY <1>4, <2>1
<1>7. Plan!Round("none") = <<N("conveyor"), N("pause")>>
  BY <1>1 DEF Plan!Round
<1> QED
  BY <1>5, <1>6, <1>7

\* Within a round the next job is the one after that which is done.
LEMMA NextInRound ==
  ASSUME NEW m, Ended(m), m \notin {N("boot"), N("settle"), N("pause"), N("approach")},
         NEW r, r = Plan!Round(value), NEW i \in DOMAIN r, r[i] = m, \A j \in DOMAIN r : r[j] = m => j = i
  PROVE  Plan!NextJob = r[i + 1]
<1>1. last.leaf = m /\ last.outcome = "SUCCESS"
  BY DEF Ended
<1>2. \A x : Plan!Job(x) = N(x)
  BY DEF Plan!Job, N
<1>3. /\ last.leaf # Plan!Job("boot")
      /\ last.outcome # "FAILURE" /\ last.leaf \notin {Plan!Job("settle"), Plan!Job("pause")}
      /\ last.leaf # Plan!Job("approach")
  BY <1>1, <1>2
<1>4. Plan!NextJob = LET k == CHOOSE k \in DOMAIN Plan!Round(value) : Plan!Round(value)[k] = last.leaf
                     IN  Plan!Round(value)[k + 1]
  BY <1>3 DEF Plan!NextJob
<1>5. (CHOOSE k \in DOMAIN r : r[k] = m) = i
  OBVIOUS
<1> QED
  BY <1>1, <1>4, <1>5

\* The job that the tree begins is the one that the plan has next.
LEMMA NextIs ==
  ASSUME Robot, NEW n \in Timed, n # N("boot"), Before(n)
  PROVE  Plan!NextJob = n
<1>1. \A x : Plan!Job(x) = N(x)
  BY DEF Plan!Job, N
<1>2. \A x, y : N(x) = N(y) <=> x = y
  BY DEF N
<1>3. last.outcome = "FAILURE" => last.leaf # N("boot") /\ last.leaf # N("settle")
  <2>1. N("boot") \notin Actions /\ N("settle") \notin Actions
    BY MovesAre DEF Sleeps
  <2> QED
    BY <2>1 DEF Robot
<1>4. CASE n = N("settle")
  <2>1. last.leaf = N("boot") /\ last.outcome = "SUCCESS"
    BY <1>4, BeforeIs DEF Ended
  <2> QED
    BY <1>1, <1>2, <1>4, <2>1 DEF Plan!NextJob
<1>5. CASE n = N("approach")
  <2>1. \/ last.outcome = "FAILURE"
        \/ last.outcome = "SUCCESS" /\ last.leaf \in {N("settle"), N("pause")}
    BY <1>5, BeforeIs DEF Look, Ended
  <2>2. last.leaf # N("boot")
    BY <1>2, <1>3, <2>1
  <2> QED
    BY <1>1, <1>2, <1>5, <2>1, <2>2 DEF Plan!NextJob
<1>6. CASE n \in {N("down"), N("conveyor")}
  <2>1. last.leaf = N("approach") /\ last.outcome = "SUCCESS"
    BY <1>6, BeforeIs DEF Ended
  <2>2. Plan!NextJob = Plan!Round(value)[1]
    BY <1>1, <1>2, <2>1 DEF Plan!NextJob
  <2>3. n = N("conveyor") => value = "none"
    BY BeforeIs
  <2>4. n = N("down") => value # "none"
    BY BeforeIs DEF Seen
  <2>5. value # "none" => Plan!Round(value)[1] = N("down")
    BY RoundIs
  <2>6. value = "none" => Plan!Round(value)[1] = N("conveyor")
    BY RoundIs
  <2> QED
    BY <1>6, <2>2, <2>3, <2>4, <2>5, <2>6
<1>7. CASE n \in {N("grasp"), N("hold"), N("lift")}
  <2>1. Seen /\ value # "none"
    BY <1>7, BeforeIs DEF Seen
  <2> DEFINE r == Plan!Round(value)
             b == value
  <2>2. \/ r = <<N("down"), N("grasp"), N("hold"), N("lift"), N("pause")>>
        \/ b \in Bins /\ r = <<N("down"), N("grasp"), N("hold"), N("lift"), <<"carry", b>>,
                               <<"lower", b>>, <<"release", b>>, <<"raise", b>>, <<"home", b>>,
                               N("pause")>>
    BY <2>1, RoundIs
  <2>3. \A x, y : b \in Bins => N(x) # <<y, b>>
    BY MovesAre
  <2> HIDE DEF r
  <2>4. CASE n = N("grasp")
    <3>1. Ended(N("down"))
      BY <2>4, BeforeIs
    <3>2. 1 \in DOMAIN r /\ r[1] = N("down") /\ r[2] = N("grasp")
          /\ \A j \in DOMAIN r : r[j] = N("down") => j = 1
      BY <1>2, <2>2, <2>3
    <3>3. N("down") \notin {N("boot"), N("settle"), N("pause"), N("approach")}
      BY <1>2
    <3>4. Plan!NextJob = r[1 + 1]
      BY <3>1, <3>2, <3>3, NextInRound DEF r
    <3> QED
      BY <2>4, <3>2, <3>4
  <2>5. CASE n = N("hold")
    <3>1. Ended(N("grasp"))
      BY <2>5, BeforeIs
    <3>2. 2 \in DOMAIN r /\ r[2] = N("grasp") /\ r[3] = N("hold")
          /\ \A j \in DOMAIN r : r[j] = N("grasp") => j = 2
      BY <1>2, <2>2, <2>3
    <3>3. N("grasp") \notin {N("boot"), N("settle"), N("pause"), N("approach")}
      BY <1>2
    <3>4. Plan!NextJob = r[2 + 1]
      BY <3>1, <3>2, <3>3, NextInRound DEF r
    <3> QED
      BY <2>5, <3>2, <3>4
  <2>6. CASE n = N("lift")
    <3>1. Ended(N("hold"))
      BY <2>6, BeforeIs
    <3>2. 3 \in DOMAIN r /\ r[3] = N("hold") /\ r[4] = N("lift")
          /\ \A j \in DOMAIN r : r[j] = N("hold") => j = 3
      BY <1>2, <2>2, <2>3
    <3>3. N("hold") \notin {N("boot"), N("settle"), N("pause"), N("approach")}
      BY <1>2
    <3>4. Plan!NextJob = r[3 + 1]
      BY <3>1, <3>2, <3>3, NextInRound DEF r
    <3> QED
      BY <2>6, <3>2, <3>4
  <2> QED
    BY <1>7, <2>4, <2>5, <2>6
<1>8. ASSUME NEW b \in Bins, value = b
      PROVE  /\ Ended(N("lift")) => Plan!NextJob = <<"carry", b>>
             /\ Ended(<<"carry", b>>) => Plan!NextJob = <<"lower", b>>
             /\ Ended(<<"lower", b>>) => Plan!NextJob = <<"release", b>>
             /\ Ended(<<"release", b>>) => Plan!NextJob = <<"raise", b>>
             /\ Ended(<<"raise", b>>) => Plan!NextJob = <<"home", b>>
             /\ Ended(<<"home", b>>) => Plan!NextJob = N("pause")
  <2> DEFINE r == Plan!Round(value)
  <2>1. r = <<N("down"), N("grasp"), N("hold"), N("lift"), <<"carry", b>>, <<"lower", b>>,
              <<"release", b>>, <<"raise", b>>, <<"home", b>>, N("pause")>>
    BY <1>8, RoundIs
  <2>2. \A x, y : N(x) # <<y, b>>
    BY MovesAre
  <2> HIDE DEF r
  <2>3. DOMAIN r = 1 .. 10
    BY <2>1
  <2>4. /\ r[4] = N("lift")
        /\ \A j \in 1 .. 10 : r[j] = N("lift") => j = 4
    BY <1>2, <2>1, <2>2
  <2>5. /\ r[5] = <<"carry", b>> /\ r[6] = <<"lower", b>> /\ r[7] = <<"release", b>>
        /\ r[8] = <<"raise", b>> /\ r[9] = <<"home", b>> /\ r[10] = N("pause")
    BY <2>1
  <2>6. \A j \in 1 .. 10 : \A x : r[j] = <<x, b>> => \/ j = 5 /\ x = "carry"
                                                     \/ j = 6 /\ x = "lower"
                                                     \/ j = 7 /\ x = "release"
                                                     \/ j = 8 /\ x = "raise"
                                                     \/ j = 9 /\ x = "home"
    BY <2>1, <2>2
  <2>7. Ended(N("lift")) => Plan!NextJob = r[4 + 1]
    <3>1. N("lift") \notin {N("boot"), N("settle"), N("pause"), N("approach")}
      BY <1>2
    <3> QED
      BY <2>3, <2>4, <3>1, NextInRound DEF r
  <2>8. ASSUME NEW i \in 5 .. 9, NEW x, r[i] = <<x, b>>, Ended(<<x, b>>)
        PROVE  Plan!NextJob = r[i + 1]
    <3>1. <<x, b>> \notin {N("boot"), N("settle"), N("pause"), N("approach")}
      BY <2>2
    <3>2. \A j \in DOMAIN r : r[j] = <<x, b>> => j = i
      <4>1. \A j \in 1 .. 10 : r[j] = <<x, b>> => \/ j = 5 /\ x = "carry"
                                                  \/ j = 6 /\ x = "lower"
                                                  \/ j = 7 /\ x = "release"
                                                  \/ j = 8 /\ x = "raise"
                                                  \/ j = 9 /\ x = "home"
        BY <2>6
      <4> QED
        BY <2>3, <2>8, <4>1
    <3>3. i \in DOMAIN r
      BY <2>3
    <3> QED
      BY <2>8, <3>1, <3>2, <3>3, NextInRound DEF r
  <2> QED
    BY <2>5, <2>7, <2>8
<1>9. ASSUME NEW b \in Bins,
             n \in {<<"carry", b>>, <<"lower", b>>, <<"release", b>>, <<"raise", b>>, <<"home", b>>}
      PROVE  Plan!NextJob = n
  <2>1. /\ Before(<<"carry", b>>) <=> value = b /\ Ended(N("lift"))
        /\ Before(<<"lower", b>>) <=> value = b /\ Ended(<<"carry", b>>)
        /\ Before(<<"release", b>>) <=> value = b /\ Ended(<<"lower", b>>)
        /\ Before(<<"raise", b>>) <=> value = b /\ Ended(<<"release", b>>)
        /\ Before(<<"home", b>>) <=> value = b /\ Ended(<<"raise", b>>)
    BY BranchIs
  <2> QED
    BY <1>8, <1>9, <2>1
<1>10. CASE n = N("pause")
  <2>1. Done(N("conveyor"))
    BY <1>10, BeforeIs
  <2>2. CASE value = "none"
    <3>1. Ended(N("conveyor"))
      BY <2>1, <2>2 DEF Done
    <3> DEFINE r == Plan!Round(value)
    <3>2. r = <<N("conveyor"), N("pause")>>
      BY <2>2, RoundIs
    <3> HIDE DEF r
    <3>3. 1 \in DOMAIN r /\ r[1] = N("conveyor") /\ r[2] = N("pause")
          /\ \A j \in DOMAIN r : r[j] = N("conveyor") => j = 1
      BY <1>2, <3>2
    <3>4. N("conveyor") \notin {N("boot"), N("settle"), N("pause"), N("approach")}
      BY <1>2
    <3>5. Plan!NextJob = r[1 + 1]
      BY <3>1, <3>3, <3>4, NextInRound DEF r
    <3> QED
      BY <1>10, <3>3, <3>5
  <2>3. CASE value # "none" /\ value \in Bins
    <3>1. Ended(<<"home", value>>)
      BY <2>1, <2>3 DEF Done, Sorted
    <3> QED
      BY <1>8, <1>10, <2>3, <3>1
  <2>4. CASE value # "none" /\ value \notin Bins
    <3>1. Ended(N("lift"))
      BY <2>1, <2>4 DEF Done, Sorted
    <3> DEFINE r == Plan!Round(value)
    <3>2. r = <<N("down"), N("grasp"), N("hold"), N("lift"), N("pause")>>
      BY <2>4, RoundIs
    <3> HIDE DEF r
    <3>3. 4 \in DOMAIN r /\ r[4] = N("lift") /\ r[5] = N("pause")
          /\ \A j \in DOMAIN r : r[j] = N("lift") => j = 4
      BY <1>2, <3>2
    <3>4. N("lift") \notin {N("boot"), N("settle"), N("pause"), N("approach")}
      BY <1>2
    <3>5. Plan!NextJob = r[4 + 1]
      BY <3>1, <3>3, <3>4, NextInRound DEF r
    <3> QED
      BY <1>10, <3>3, <3>5
  <2> QED
    BY <2>2, <2>3, <2>4
<1> QED
  BY <1>4, <1>5, <1>6, <1>7, <1>9, <1>10, TimedNames

\* A job of the tree begins, is done or fails as the plan has it.
LEMMA PlanStep ==
  ASSUME Robot, NEW n \in Timed, NEW s \in {"RUNNING", "SUCCESS", "FAILURE"}, JobStep(n, s)
  PROVE  Plan!Next
<1>1. last'.leaf = n /\ last'.outcome = s
  BY DEF JobStep, Runs
<1>2. \A x : Plan!Job(x) = N(x)
  BY DEF Plan!Job, N
<1>3. IF n = N("approach") /\ s = "SUCCESS" THEN value' \in Labels ELSE value' = value
  BY DEF JobStep, Runs
<1>4. N("boot") # N("approach") /\ N("boot") \notin Actions
  BY MovesAre DEF Sleeps
<1>5. ASSUME n # N("boot"), Before(n), s = "RUNNING" \/ (s = "FAILURE" /\ n \in MayFailAtOnce)
      PROVE  Plan!Next
  <2>1. last.outcome \in {"SUCCESS", "FAILURE"}
    BY <1>5, BeforeJob
  <2>2. Plan!NextJob = n
    BY <1>5, NextIs
  <2>3. value' = value
    BY <1>3, <1>5
  <2> QED
    BY <1>1, <1>5, <2>1, <2>2, <2>3 DEF Plan!Next, Plan!Begin
<1>6. CASE n = N("boot") /\ s = "RUNNING"
  <2>1. last.leaf = n /\ last.outcome = "IDLE"
    BY <1>6, BeforeIs DEF JobStep
  <2>2. value' = value
    BY <1>3, <1>6
  <2> QED
    BY <1>1, <1>6, <2>1, <2>2 DEF Plan!Next, Plan!Boot
<1>7. ASSUME Busy(n), s # "RUNNING", n \in Sleeps => s = "SUCCESS"
      PROVE  Plan!Next
  <2>1. last.leaf = n /\ last.outcome = "RUNNING"
    BY <1>7 DEF Busy
  <2>2. n \notin Plan!Sleeps \/ s = "SUCCESS"
    BY <1>2, <1>7 DEF Plan!Sleeps, Sleeps
  <2> QED
    BY <1>1, <1>2, <1>3, <1>7, <2>1, <2>2 DEF Plan!Next, Plan!End
<1>8. n \in Actions => n \notin Sleeps
  BY MovesAre
<1> QED
  BY <1>4, <1>5, <1>6, <1>7, <1>8 DEF JobStep

\* main3.xml, run by the engine, does the jobs of the plan in the order of the plan,
\* whatever the labels and whichever servers are unreachable.
THEOREM FollowsPlanAlways ==
  Spec => FollowsPlan
<1>1. Init => Plan!Init
  <2>1. Init => value = "unset"
    BY DEF Init, BT!Init, BT!None
  <2>2. Plan!Job("boot") = N("boot")
    BY DEF Plan!Job, N
  <2> QED
    BY <2>1, <2>2 DEF Init, Plan!Init
<1>2. Calm /\ Jobs /\ Robot /\ [Next]_vars => [Plan!Next]_(Plan!vars)
  <2> SUFFICES ASSUME Calm, Jobs, Robot, [Next]_vars
               PROVE  Plan!Next \/ UNCHANGED Plan!vars
    OBVIOUS
  <2>1. CASE UNCHANGED <<robotVars, last, value>>
    BY <2>1 DEF Plan!vars
  <2>2. CASE \E n \in Timed : \E s \in {"RUNNING", "SUCCESS", "FAILURE"} : JobStep(n, s)
    BY <2>2, PlanStep
  <2> QED
    BY <2>1, <2>2, JobSteps
<1> QED
  BY <1>1, <1>2, RobotAlways, PTL DEF Spec, FollowsPlan, Plan!Spec
=============================================================================
