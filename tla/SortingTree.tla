------------------------------ MODULE SortingTree ------------------------------
(***************************************************************************)
(* The tree of main3.xml run by the engine of BehaviorTree.  A node is a   *)
(* pair <<name, bin>>; the bin is "" outside the four bin branches.        *)
(***************************************************************************)
EXTENDS Integers, Sequences, SequencesExt

CONSTANTS
  Others,       \* labels the detector knows and the tree has no bin for
  Unreachable   \* the action servers that are unreachable now and then

Bins   == {"strawberry", "cola", "orange", "grape"}
Labels == Bins \cup {"none"} \cup Others

ASSUME OthersAssumption == Others \cap (Bins \cup {"none", "unset"}) = {}
ASSUME ServerAssumption == Unreachable \subseteq {"approach", "move", "conveyor"}

-----------------------------------------------------------------------------
(* The tree                                                                *)

N(name)  == <<name, "">>
BinMoves == <<"carry", "lower", "release", "raise", "home">>

Sequences_    == {N("main"), N("round"), N("pick")} \cup {<<"sort", b>> : b \in Bins}
Preconditions == {N("ifSeen"), N("ifNone")} \cup {<<"if", b>> : b \in Bins}
Sleeps        == {N("boot"), N("settle"), N("hold"), N("pause")}
Moves         == {N("down"), N("grasp"), N("lift")} \cup (ToSet(BinMoves) \X Bins)
Actions       == Moves \cup {N("approach"), N("conveyor")}
Timed         == Sleeps \cup Actions

\* The leaves that send their goals to these servers (action_name).
SendTo(servers) == UNION {IF s = "move" THEN Moves ELSE {N(s)} : s \in servers}

\* SERVER_UNREACHABLE
MayFailAtOnce == SendTo(Unreachable)

Nodes == Sequences_ \cup Preconditions \cup Timed \cup
         {N("retry"), N("speed"), N("init"), N("again"), N("finish")}

\* Mutant: a round ends in success.
KindRoundSucceeds ==
  [n \in Nodes |->
     CASE n \in Sequences_           -> "Sequence"
       [] n \in Preconditions        -> "Precondition"
       [] n \in Sleeps               -> "Sleep"
       [] n \in Actions              -> "Action"
       [] n = N("retry")             -> "Retry"
       [] n \in {N("speed"), N("init"), N("again")} -> "Instant"
       [] n = N("finish")            -> "Forever"]

Kind ==
  [n \in Nodes |->
     CASE n \in Sequences_           -> "Sequence"
       [] n \in Preconditions        -> "Precondition"
       [] n \in Sleeps               -> "Sleep"
       [] n \in Actions              -> "Action"
       [] n = N("retry")             -> "Retry"
       [] n \in {N("speed"), N("init")} -> "Instant"
       [] n = N("again")             -> "AlwaysFailure"
       [] n = N("finish")            -> "Forever"]

Children ==
  [n \in Nodes \ (Timed \cup {N("speed"), N("init"), N("again"), N("finish")}) |->
     CASE n = N("main")   -> <<N("boot"), N("speed"), N("init"), N("settle"),
                               N("retry"), N("finish")>>
       [] n = N("retry")  -> <<N("round")>>
       [] n = N("round")  -> <<N("approach"), N("ifSeen"), N("ifNone"), N("pause"),
                               N("again")>>
       [] n = N("ifSeen") -> <<N("pick")>>
       [] n = N("pick")   -> <<N("down"), N("grasp"), N("hold"), N("lift"),
                               <<"if", "strawberry">>, <<"if", "cola">>,
                               <<"if", "orange">>, <<"if", "grape">>>>
       [] n[1] = "if"     -> <<<<"sort", n[2]>>>>
       [] n[1] = "sort"   -> [i \in DOMAIN BinMoves |-> <<BinMoves[i], n[2]>>]
       [] n = N("ifNone") -> <<N("conveyor")>>]

\* Each node with all under it, the bin branches by their bin.
Branch(b) == {n \in Nodes : n[2] = b}
Below ==
  [n \in Nodes |->
     CASE n = N("main")   -> Nodes
       [] n = N("retry")  -> Nodes \ {N("main"), N("boot"), N("speed"), N("init"),
                                      N("settle"), N("finish")}
       [] n = N("round")  -> Nodes \ {N("main"), N("boot"), N("speed"), N("init"),
                                      N("settle"), N("finish"), N("retry")}
       [] n \in {N("ifSeen"), N("pick")} ->
            {n, N("pick"), N("down"), N("grasp"), N("hold"), N("lift")}
            \cup UNION {Branch(b) : b \in Bins}
       [] n[1] = "if"     -> Branch(n[2])
       [] n[1] = "sort"   -> Branch(n[2]) \ {<<"if", n[2]>>}
       [] n = N("ifNone") -> {n, N("conveyor")}
       [] OTHER           -> {n}]

\* Mutant: the condition of the belt is that of the pick.
CondBeltWhenSeen ==
  [n \in Preconditions |->
     IF n \in {N("ifSeen"), N("ifNone")} THEN Labels \ {"none"} ELSE {n[2]}]

\* The "if" of a Precondition, as the labels for which it is true.
Cond ==
  [n \in Preconditions |->
     CASE n = N("ifSeen") -> Labels \ {"none"}
       [] n = N("ifNone") -> {"none"}
       [] OTHER           -> {n[2]}]

\* The file as the engine reads it.
Main3 ==
  [main3 |->
    [root     |-> N("main"),
     kind     |-> Kind,
     children |-> Children,
     below    |-> Below,
     pre      |-> <<>>,
     param    |-> [n \in {N("retry")} |-> -1],
     else     |-> [n \in Preconditions |-> "SUCCESS"],
     cond     |-> Cond,
     writes   |-> [n \in {N("approach")} |-> Labels],
     mayFail  |-> MayFailAtOnce]]

-----------------------------------------------------------------------------
VARIABLES tree, status, mem, timer, stale, over, value, stack, ret, wake

BT == INSTANCE BehaviorTree WITH Forest <- Main3, Values <- Labels

\* main3.xml is what the theorems about the engine take for a tree.
ASSUME Main3Assumption == BT!IsTree(Main3.main3) /\ BT!WellFormed(Main3.main3)

treeVars == BT!vars

\* The timer of bt.cpp ticks the tree and every tick goes on, the timer queue runs
\* its handlers, an action leaf ends.
TreeFairness ==
  /\ WF_treeVars(BT!TickStep) /\ WF_treeVars(BT!TimerStep)
  /\ SF_treeVars(\E n \in Actions : BT!ActionSuccess(n) \/ BT!ActionFailure(n))

TreeSpec == BT!Init /\ [][BT!Next]_treeVars /\ TreeFairness

-----------------------------------------------------------------------------
(* Properties                                                              *)

\* Every tick of the tree returns to the timer callback (see BehaviorTree).
TickReturns == BT!TickReturns
=============================================================================
