--------------------------- MODULE NodeResultsProofs ---------------------------
(***************************************************************************)
(* What the results of the nodes are worth, for every forest of            *)
(* well-formed trees and whichever node of them is looked at: a node is    *)
(* ticked only to be started or to go on, and a control node or decorator  *)
(* returns SUCCESS or FAILURE when its header says so.                     *)
(*                                                                         *)
(* The invariant adds to IInv, of each node, which of its children may     *)
(* have completed and not been reset, and of the node X, by its type, what *)
(* its members say of the results its children have returned: the places   *)
(* before the current one have passed, a counter counts them, and so on.   *)
(***************************************************************************)
EXTENDS NodeResults, BehaviorTreeProofs

-----------------------------------------------------------------------------
(* The invariant                                                           *)

\* The children of n that may be left with a result when n has the members m.
Settled(n, m) ==
  CASE Kind(n) \in Ordered \cup Reactives ->
         IF Kind(n) = "TryCatch" /\ m.on THEN {} ELSE 1 .. m.idx - 1
    [] Kind(n) \in Parallels    -> m.done
    [] Kind(n) = "IfThenElse"   -> IF m.idx > 1 \/ N(n) = 2 THEN {1} ELSE {}
    [] Kind(n) = "WhileDoElse"  -> {1}
    [] OTHER                    -> {}

DoneOK(n, m, C, back) ==
  C \subseteq Settled(n, m) \cup (IF back THEN {CurIdx(n, m)} ELSE {})

StartedInv ==
  /\ \A n \in Nodes : DoneOK(n, Mem(n), DoneIdx(n), Inside(n) /\ ret \in Completed)
  /\ status[Root] \in Completed => stack = <<>> /\ ret \in Completed

\* Where n is: not inside executeTick(), just entered, waiting for a child, or back from it.
Place(n) ==
  IF n \notin ToSet(stack) THEN "out"
  ELSE IF ~Inside(n) THEN "waits"
  ELSE IF ret = None THEN "entered" ELSE "back"

\* What the history g, t tells of a node with status s and members m, at the place p,
\* the last child having returned r.
Passes(n, g, i) == \A j \in 1 .. i : g[j] \in {Pass(n), "SKIPPED"}
Skips(g, i)     == {j \in 1 .. i : g[j] = "SKIPPED"}
Decides(n, g, last) ==
  \E i \in 1 .. last : /\ g[i] = Stop(n) /\ Passes(n, g, i - 1)
                       /\ \A j \in i + 1 .. last : g[j] = None

\* All have passed; or those before the current child have, and no other was ticked; or
\* the catch of a TryCatch is.
OrderedHist(n, s, m, p, g) ==
  s = "RUNNING" \/ Kind(n) = "SequenceWithMemory" =>
    \/ p = "out" /\ Passes(n, g, LastTry(n)) /\ m.idx = 1 /\ m.skips = 0 /\ ~m.on
    \/ /\ ~m.on /\ m.idx <= LastTry(n)
       /\ Passes(n, g, m.idx - 1)
       /\ \A j \in m.idx + 1 .. N(n) : g[j] = None
       /\ m.skips <= Cardinality(Skips(g, m.idx - 1))
       /\ Kind(n) # "SequenceWithMemory" => m.skips = Cardinality(Skips(g, m.idx - 1))
       /\ p \in {"out", "entered"} => g[m.idx] \notin {Pass(n), "SKIPPED"}
    \/ m.on /\ Kind(n) = "TryCatch" /\ Decides(n, g, LastTry(n))

ReactiveHist(n, m, p, g) ==
  p \in {"waits", "back"} =>
    /\ Passes(n, g, m.idx - 1)
    /\ \A j \in m.idx + 1 .. N(n) : g[j] = None
    /\ m.skips = Cardinality(Skips(g, m.idx - 1))

Told(n, m, p) == {j \in 1 .. N(n) : p = "back" => j # m.idx}

ParallelHist(n, s, m, p, g) ==
  /\ s = "RUNNING" =>
       /\ m.done = {j \in Told(n, m, p) : g[j] \in Completed}
       /\ m.count = Cardinality({j \in Told(n, m, p) : g[j] = "FAILURE"})
  /\ p \in {"waits", "back"} =>
       /\ m.skips = Cardinality(Skips(g, m.idx - 1))
       /\ \A j \in 1 .. m.idx - 1 : g[j] # None

BranchHist(n, s, m, p, g) ==
  p \in {"waits", "back"} \/ (s = "RUNNING" /\ Kind(n) = "IfThenElse") =>
    (m.idx = 2 => g[1] = "SUCCESS") /\ (m.idx = 3 => g[1] = "FAILURE")

LoopHist(n, s, m, p, r, t) ==
  /\ s = "RUNNING" /\ Port("param", n) # -1 =>
       t = m.count + (IF p = "back" /\ r \in Completed THEN 1 ELSE 0)
  /\ p \in {"out", "entered"} => m.count = 0 \/ Goes(n, m.count)

\* An element of the queue is left, was taken, or is in use.
QueueHist(n, s, m, p, r, t) ==
  /\ p \in {"waits", "back"} => s = "RUNNING"
  /\ s = "RUNNING" =>
       LET used == CASE p = "waits" -> TRUE
                     [] p = "back"  -> r = "RUNNING"
                     [] OTHER       -> m.on
       IN  t + m.count + (IF used THEN 1 ELSE 0) = Port("param", n)

HistOK(n, s, m, p, r, g, t) ==
  /\ g \in [DOMAIN Children(n) -> Results \cup {None}] /\ t \in Nat
  /\ p = "back" => g[CurIdx(n, m)] = r
  /\ p = "entered" =>
       /\ Kind(n) \in Reactives \cup {"WhileDoElse", "Switch"} =>
            \A j \in DOMAIN Children(n) : g[j] = None
       /\ s = "IDLE" /\ Kind(n) \notin {"SequenceWithMemory", "RunOnce"} =>
            (\A j \in DOMAIN Children(n) : g[j] = None) /\ t = 0
  /\ Kind(n) \in Ordered   => OrderedHist(n, s, m, p, g)
  /\ Kind(n) \in Reactives => ReactiveHist(n, m, p, g)
  /\ Kind(n) \in Parallels => ParallelHist(n, s, m, p, g)
  /\ Kind(n) \in {"IfThenElse", "WhileDoElse"} => BranchHist(n, s, m, p, g)
  /\ Kind(n) = "Switch" /\ p \in {"waits", "back"} =>
       \A j \in 1 .. N(n) : j # m.idx => g[j] = None
  /\ Kind(n) \in Loops     => LoopHist(n, s, m, p, r, t)
  /\ Kind(n) = "Loop"      => QueueHist(n, s, m, p, r, t)
  /\ Kind(n) = "RunOnce"   => t = IF m.on \/ (p = "back" /\ r \in Completed) THEN 1 ELSE 0
  /\ Kind(n) \in {"Precondition", "Updated"} =>
       (s = "RUNNING" /\ p \in {"out", "entered"} /\ g[1] = "RUNNING" => m.on)
  /\ Kind(n) = "Timeout"   => (s = "RUNNING" /\ p # "back" => g[1] \notin Completed)

\* X is a node of which the history tells something.
Asked == Kind(X) \in Controls \cup Decorators /\ ~Statement(X)

HistInv == Asked => HistOK(X, status[X], Mem(X), Place(X), ret, got, tries)

RInv == ret # "EXCEPTION" => StartedInv /\ HistInv

\* What a step of the property ResultPromised may not do.
Keeps == \A s \in Completed :
           /\ Kind(X) \in Controls \cup Decorators /\ ~Statement(X)
           /\ Inside(X) /\ Exits(s) /\ ~Preempt(X)
           => Promised(s)

-----------------------------------------------------------------------------
(* Places                                                                  *)

\* Where the nodes are while n is the innermost.
LEMMA PlaceFacts ==
  ASSUME TypeOK, TreeInv, NEW n, Inside(n)
  PROVE  /\ Place(n) = IF ret = None THEN "entered" ELSE "back"
         /\ \A x \in Nodes : x # n => /\ ~Inside(x)
                                      /\ Place(x) = IF n \in Below(x) THEN "waits" ELSE "out"
<1>1. n \in Nodes /\ \A x \in Nodes : x \in ToSet(stack) <=> n \in Below(x)
  BY OnPath
<1>2. n \in Below(n)
  BY <1>1, TreeFacts DEF TypeOK
<1>3. \A x : x # n => ~Inside(x)
  BY DEF Inside
<1> QED
  BY <1>1, <1>2, <1>3 DEF Place

\* A child is ticked.
LEMMA PlaceCalled ==
  ASSUME TypeOK, TreeInv, NEW n, Inside(n), tree' = tree,
         NEW i \in DOMAIN Children(n), Calls(n, i)
  PROVE  /\ \A x \in Nodes : Place(x)' = IF x = Child(n, i) THEN "entered"
                                         ELSE IF n \in Below(x) THEN "waits" ELSE "out"
         /\ Len(stack') > Len(stack) /\ Last(stack') = Child(n, i) /\ ret' = None
         /\ Inside(Child(n, i))' /\ Child(n, i) # n
<1> DEFINE c == Child(n, i)
<1>1. stack \in Seq(Nodes) /\ stack # <<>> /\ tree \in DOMAIN Forest /\ n \in Nodes
  BY OnPath DEF TypeOK, Inside
<1>2. c \in Nodes /\ c \in ChildSet(n)
  BY <1>1, TreeFacts
<1>3. stack' = Append(stack, c) /\ ret' = None
  BY DEF Calls, Child
<1> HIDE DEF c
<1>4. /\ stack' # <<>> /\ Len(stack') = Len(stack) + 1 /\ Last(stack') = c
      /\ \A j \in 1 .. Len(stack) : stack'[j] = stack[j]
      /\ stack'[Len(stack')] = c /\ Len(stack) \in Nat
  BY <1>1, <1>2, <1>3 DEF Last
<1>5. \A x : x \in ToSet(stack') <=> x \in ToSet(stack) \/ x = c
  BY <1>1, <1>4 DEF ToSet
<1>6. \A x \in Nodes : x \in ToSet(stack) <=> n \in Below(x)
  BY OnPath
<1>7. c # n
  BY <1>1, <1>2, TreeFacts, BelowFacts
<1>8. \A x : Inside(x)' <=> x = c
  BY <1>4 DEF Inside
<1>9. \A x : Place(x)' = IF x \notin ToSet(stack') THEN "out"
                         ELSE IF ~Inside(x)' THEN "waits"
                         ELSE IF ret' = None THEN "entered" ELSE "back"
  BY DEF Place
<1>10. ASSUME NEW x \in Nodes
       PROVE  Place(x)' = IF x = c THEN "entered" ELSE IF n \in Below(x) THEN "waits" ELSE "out"
  BY <1>3, <1>5, <1>6, <1>8, <1>9
<1>11. c = Child(n, i)
  BY DEF c
<1> QED
  BY <1>3, <1>4, <1>7, <1>8, <1>10, <1>11, SameTree

\* tick() of n is over.
LEMMA PlaceReturned ==
  ASSUME TypeOK, TreeInv, NEW n, Inside(n), tree' = tree,
         stack' = Front(stack), ret' # None,
         \A x \in Nodes : x # n /\ n \in Below(x) => Mem(x)' = Mem(x)
  PROVE  /\ \A x \in Nodes : Place(x)' = IF n \in ChildSet(x) THEN "back"
                                         ELSE IF n \in Below(x) /\ x # n THEN "waits" ELSE "out"
         /\ Len(stack') < Len(stack)
         /\ \A x \in Nodes : stack' # <<>> /\ Last(stack') = x <=> n \in ChildSet(x)
         /\ \A x \in Nodes : n \in ChildSet(x) => CurIdx(x, Mem(x)) \in DOMAIN Children(x)
                                                  /\ Cur(x) = n
<1>1. stack \in Seq(Nodes) /\ stack # <<>> /\ tree \in DOMAIN Forest /\ n \in Nodes
  BY OnPath DEF TypeOK, Inside
<1>2. /\ \A x \in Nodes : Inside(x)' <=> n \in ChildSet(x)
      /\ stack' \in Seq(Nodes)
      /\ \A x \in Nodes : Locked(x)' <=> n \in Below(x) /\ x # n
  BY Pop
<1>3. /\ Len(stack') = Len(stack) - 1 /\ Len(stack) \in Nat /\ Len(stack) >= 1
      /\ \A j \in 1 .. Len(stack) - 1 : stack'[j] = stack[j]
  <2>1. stack' = SubSeq(stack, 1, Len(stack) - 1)
    BY DEF Front
  <2>2. Len(stack) \in Nat /\ Len(stack) >= 1 /\ stack \in [1 .. Len(stack) -> Nodes]
    BY <1>1
  <2> QED
    BY <2>1, <2>2, <1>1
<1>4. \A x : Inside(x)' <=> stack' # <<>> /\ Last(stack') = x
  BY DEF Inside
<1>5. \A x \in Nodes : Locked(x)' <=> x \in ToSet(stack')
  <2>1. \A x : ~Entered(x, {Kind(x)})'
    BY DEF Entered
  <2> QED
    BY <2>1 DEF Locked
<1>6. \A x : Place(x)' = IF x \notin ToSet(stack') THEN "out"
                         ELSE IF ~Inside(x)' THEN "waits"
                         ELSE IF ret' = None THEN "entered" ELSE "back"
  BY DEF Place
<1>7. \A x \in Nodes : n \in ChildSet(x) => n \in Below(x) /\ x # n
  BY <1>1, BelowFacts, TreeFacts
<1>8. ASSUME NEW x \in Nodes
      PROVE  Place(x)' = IF n \in ChildSet(x) THEN "back"
                         ELSE IF n \in Below(x) /\ x # n THEN "waits" ELSE "out"
  BY <1>2, <1>5, <1>6, <1>7
<1>9. ASSUME NEW x \in Nodes, n \in ChildSet(x)
      PROVE  CurIdx(x, Mem(x)) \in DOMAIN Children(x) /\ Cur(x) = n
  <2>1. Locked(x) /\ x # n
    BY <1>7, <1>9, OnPath
  <2>2. CurIdx(x, Mem(x)) \in DOMAIN Children(x) /\ n \in Below(Cur(x))
    BY <2>1, OnPath
  <2>3. PICK j \in DOMAIN Children(x) : n = Child(x, j)
    BY <1>9 DEF ChildSet, ToSet, Child
  <2>4. n \in Below(Child(x, j))
    BY <1>1, <2>3, TreeFacts
  <2>5. j = CurIdx(x, Mem(x))
    BY <1>1, <2>2, <2>4, BelowFacts DEF Cur
  <2> QED
    BY <2>2, <2>3, <2>5 DEF Cur
<1> QED
  BY <1>2, <1>3, <1>4, <1>8, <1>9

-----------------------------------------------------------------------------
(* The history                                                             *)

\* What the history tells when a child is ticked.
LEMMA HistoryCalled ==
  ASSUME TypeOK, TreeInv, NextR, NEW n, Inside(n), tree' = tree,
         NEW i \in DOMAIN Children(n), Calls(n, i)
  PROVE  /\ Child(n, i) # X => got' = got /\ tries' = tries
         /\ Child(n, i) = X =>
              IF \/ status'[X] = "IDLE" /\ Kind(X) \notin {"SequenceWithMemory", "RunOnce"}
                 \/ Kind(X) \in Ordered /\ Passed(LastTry(X))
                 \/ Kind(X) \in Reactives \cup {"WhileDoElse", "Switch"}
              THEN got' = Unset /\ tries' = 0
              ELSE got' = got /\ tries' = tries
<1>1. Len(stack') > Len(stack) /\ Last(stack') = Child(n, i) /\ stack \in Seq(Nodes)
      /\ stack' \in Seq(Nodes)
  <2>1. Child(n, i) \in Nodes /\ stack \in Seq(Nodes)
    BY OnPath, TreeFacts DEF TypeOK
  <2>2. stack' = Append(stack, Child(n, i))
    BY DEF Calls, Child
  <2> QED
    BY <2>1, <2>2, PlaceCalled
<1>2. ~BackToX
  BY <1>1 DEF BackToX
<1>3. EntersX <=> Child(n, i) = X
  BY <1>1 DEF EntersX
<1> QED
  BY <1>2, <1>3 DEF NextR, Begins

\* What the history tells when tick() of n is over.
LEMMA HistoryReturned ==
  ASSUME TypeOK, TreeInv, NextR, NEW n, Inside(n), tree' = tree,
         stack' = Front(stack), ret' # None,
         \A x \in Nodes : x # n /\ n \in Below(x) => Mem(x)' = Mem(x)
  PROVE  /\ n \notin ChildSet(X) => got' = got /\ tries' = tries
         /\ n \in ChildSet(X) =>
              /\ got' = [got EXCEPT ![CurIdx(X, Mem(X))] = ret']
              /\ tries' = IF Ended(ret') THEN tries + 1 ELSE tries
<1>1. X \in Nodes /\ tree \in DOMAIN Forest /\ stack \in Seq(Nodes) /\ n \in Nodes
  BY SubjectAssumption, OnPath DEF X, Nodes, TypeOK
<1>2. /\ Len(stack') < Len(stack)
      /\ (stack' # <<>> /\ Last(stack') = X <=> n \in ChildSet(X))
      /\ n \in ChildSet(X) => CurIdx(X, Mem(X)) \in DOMAIN Children(X) /\ Cur(X) = n
      /\ stack' \in Seq(Nodes)
  BY <1>1, PlaceReturned, Pop
<1>3. ~EntersX /\ (BackToX <=> n \in ChildSet(X))
  BY <1>1, <1>2 DEF EntersX, BackToX
<1>4. ~Begins
  BY <1>3 DEF Begins
<1>5. CASE n \notin ChildSet(X)
  BY <1>3, <1>4, <1>5 DEF NextR
<1>6. CASE n \in ChildSet(X)
  <2>1. PICK i \in DOMAIN Children(X) : Last(stack) = Child(X, i) /\ got' = [got EXCEPT ![i] = ret']
    BY <1>3, <1>4, <1>6 DEF NextR
  <2>2. tries' = IF Ended(ret') THEN tries + 1 ELSE tries
    BY <1>3, <1>4, <1>6 DEF NextR
  <2>3. n = Child(X, i) /\ n = Child(X, CurIdx(X, Mem(X)))
    BY <1>2, <1>6, <2>1 DEF Inside, Cur
  <2>4. i = CurIdx(X, Mem(X))
    BY <1>1, <1>2, <1>6, <2>3, TreeFacts, BelowFacts
  <2> QED
    BY <1>6, <2>1, <2>2, <2>4
<1> QED
  BY <1>5, <1>6

\* Nothing is told when the stack stays.
LEMMA HistoryStays ==
  ASSUME NextR, stack' = stack, stack \in Seq(Nodes)
  PROVE  got' = got /\ tries' = tries
<1>1. ~(Len(stack') > Len(stack)) /\ ~(Len(stack') < Len(stack))
  OBVIOUS
<1> QED
  BY <1>1 DEF NextR, Begins, EntersX, BackToX

-----------------------------------------------------------------------------
(* Counting                                                                *)

\* The children skipped so far, counted.
LEMMA SkipsFacts ==
  ASSUME NEW g, NEW i \in Nat
  PROVE  /\ IsFiniteSet(Skips(g, i)) /\ Cardinality(Skips(g, i)) \in 0 .. i
         /\ Cardinality(Skips(g, 0)) = 0
         /\ Cardinality(Skips(g, i + 1)) =
              Cardinality(Skips(g, i)) + (IF g[i + 1] = "SKIPPED" THEN 1 ELSE 0)
         /\ Cardinality(Skips(g, i)) = i => \A j \in 1 .. i : g[j] = "SKIPPED"
<1>1. IsFiniteSet(1 .. i) /\ Cardinality(1 .. i) = i
  BY FS_Interval
<1>2. Skips(g, i) \subseteq 1 .. i
  BY DEF Skips
<1>3. /\ IsFiniteSet(Skips(g, i)) /\ Cardinality(Skips(g, i)) \in Nat
      /\ Cardinality(Skips(g, i)) <= i
      /\ Cardinality(Skips(g, i)) = i => Skips(g, i) = 1 .. i
  BY <1>1, <1>2, FS_Subset, FS_CardinalityType
<1>4. Skips(g, 0) = {}
  BY DEF Skips
<1>5. Cardinality(Skips(g, 0)) = 0
  BY <1>4, FS_EmptySet
<1>6. CASE g[i + 1] = "SKIPPED"
  <2>1. Skips(g, i + 1) = Skips(g, i) \cup {i + 1} /\ i + 1 \notin Skips(g, i)
    BY <1>6 DEF Skips
  <2>2. Cardinality(Skips(g, i + 1)) = Cardinality(Skips(g, i)) + 1
    BY <1>3, <2>1, FS_AddElement
  <2> QED
    BY <1>3, <1>5, <1>6, <2>2 DEF Skips
<1>7. CASE g[i + 1] # "SKIPPED"
  <2>1. Skips(g, i + 1) = Skips(g, i)
    BY <1>7 DEF Skips
  <2> QED
    BY <1>3, <1>5, <1>7, <2>1 DEF Skips
<1> QED
  BY <1>6, <1>7

\* A set of the places that has one element more.
LEMMA OneMore ==
  ASSUME NEW k \in Nat, NEW S \in SUBSET (1 .. k), NEW i \in 1 .. k, i \notin S
  PROVE  /\ IsFiniteSet(S) /\ Cardinality(S) \in Nat
         /\ Cardinality(S \cup {i}) = Cardinality(S) + 1
<1>1. IsFiniteSet(1 .. k)
  BY FS_Interval
<1>2. IsFiniteSet(S)
  BY <1>1, FS_Subset
<1> QED
  BY <1>2, FS_AddElement, FS_CardinalityType

-----------------------------------------------------------------------------
(* The history of a node that does not take the step itself                *)

\* The kinds are distinct.
LEMMA Kinds ==
  ASSUME NEW n
  PROVE  /\ Kind(n) \in Ordered <=> Kind(n) \in {"Sequence", "AsyncSequence",
              "SequenceWithMemory", "TryCatch", "Fallback", "AsyncFallback"}
         /\ Kind(n) \in Reactives <=> Kind(n) \in {"ReactiveSequence", "ReactiveFallback"}
         /\ Kind(n) \in Parallels <=> Kind(n) \in {"Parallel", "ParallelAll"}
         /\ Kind(n) \in Loops <=> Kind(n) \in {"Repeat", "Retry"}
         /\ Kind(n) \in Branches <=> Kind(n) \in {"IfThenElse", "WhileDoElse", "Switch"}
         /\ Kind(n) \in Clocked <=> Kind(n) \in {"Delay", "Timeout"}
         /\ Kind(n) \in Plain <=> Kind(n) \in {"Inverter", "ForceSuccess", "ForceFailure",
                                               "KeepRunning", "SubTree"}
  BY DEF Ordered, Sequences_, Fallbacks, Reactives, Parallels, Loops, Branches, Clocked, Plain

\* Outside: nothing happens to the node, or it is reset, and its members with it.
LEMMA HistOut ==
  ASSUME NEW n, NEW s, NEW m, NEW r, NEW g, NEW t, HistOK(n, s, m, "out", r, g, t),
         NEW s2, NEW m2, NEW r2,
         \/ s2 = s /\ m2 = m
         \/ /\ s2 # "RUNNING"
            /\ m2 = m \/ m2 = IF Kind(n) \in {"SequenceWithMemory", "RunOnce", "Precondition",
                                              "Loop"} THEN m ELSE Blank
  PROVE  HistOK(n, s2, m2, "out", r2, g, t)
<1>1. CASE m2 = m /\ (s2 = s \/ s2 # "RUNNING")
  <2>1. Kind(n) \in Ordered => OrderedHist(n, s2, m2, "out", g)
    BY <1>1, Zenon DEF HistOK, OrderedHist
  <2>2. Kind(n) \in Reactives => ReactiveHist(n, m2, "out", g)
    BY DEF ReactiveHist
  <2>3. Kind(n) \in Parallels => ParallelHist(n, s2, m2, "out", g)
    BY <1>1 DEF HistOK, ParallelHist
  <2>4. Kind(n) \in {"IfThenElse", "WhileDoElse"} => BranchHist(n, s2, m2, "out", g)
    BY <1>1 DEF HistOK, BranchHist
  <2>5. Kind(n) \in Loops => LoopHist(n, s2, m2, "out", r2, t)
    BY <1>1 DEF HistOK, LoopHist
  <2>6. Kind(n) = "Loop" => QueueHist(n, s2, m2, "out", r2, t)
    BY <1>1 DEF HistOK, QueueHist
  <2> QED
    BY <1>1, <2>1, <2>2, <2>3, <2>4, <2>5, <2>6 DEF HistOK
<1>2. CASE s2 # "RUNNING" /\ m2 = Blank
           /\ Kind(n) \notin {"SequenceWithMemory", "RunOnce", "Precondition", "Loop"}
  <2>1. Kind(n) \in Ordered => OrderedHist(n, s2, m2, "out", g)
    BY <1>2 DEF OrderedHist
  <2>2. Kind(n) \in Loops => LoopHist(n, s2, m2, "out", r2, t)
    BY <1>2 DEF LoopHist, Blank
  <2> QED
    BY <1>2, <2>1, <2>2 DEF HistOK, ReactiveHist, ParallelHist, BranchHist
<1> QED
  BY <1>1, <1>2

\* Waiting, for a child that is told nothing of yet.
LEMMA HistWaits ==
  ASSUME NEW n, NEW s, NEW m, NEW r, NEW g, NEW t, HistOK(n, s, m, "waits", r, g, t), NEW r2
  PROVE  HistOK(n, s, m, "waits", r2, g, t)
<1>1. Kind(n) \in Loops => LoopHist(n, s, m, "waits", r2, t)
  BY DEF HistOK, LoopHist
<1>2. Kind(n) = "Loop" => QueueHist(n, s, m, "waits", r2, t)
  BY DEF HistOK, QueueHist
<1> QED
  BY <1>1, <1>2 DEF HistOK

\* Entered: a new activation begins, or one goes on.
LEMMA HistEnters ==
  ASSUME tree \in DOMAIN Forest, NEW n \in Nodes, Kind(n) \in Controls \cup Decorators,
         NEW s, NEW m \in MemType(n), NEW r, NEW g, NEW t,
         HistOK(n, s, m, "out", r, g, t), s \in {"IDLE", "RUNNING"},
         NEW L, NEW C, NodeOK(n, s, m, FALSE, L, C, FALSE), NEW g2, NEW t2,
         IF \/ s = "IDLE" /\ Kind(n) \notin {"SequenceWithMemory", "RunOnce"}
            \/ Kind(n) \in Ordered /\ Passes(n, g, LastTry(n))
            \/ Kind(n) \in Reactives \cup {"WhileDoElse", "Switch"}
         THEN g2 = [i \in DOMAIN Children(n) |-> None] /\ t2 = 0
         ELSE g2 = g /\ t2 = t
  PROVE  HistOK(n, s, m, "entered", None, g2, t2)
<1> DEFINE none == [i \in DOMAIN Children(n) |-> None]
<1>1. none \in [DOMAIN Children(n) -> Results \cup {None}] /\ \A j \in DOMAIN Children(n) : none[j] = None
  OBVIOUS
<1>2. DOMAIN Children(n) = 1 .. N(n) /\ N(n) \in Nat /\ N(n) >= 1
      /\ (Kind(n) = "TryCatch" => N(n) >= 2) /\ (Kind(n) \in Decorators => N(n) = 1)
      /\ LastTry(n) \in 1 .. N(n)
  <2>1. DOMAIN Children(n) = 1 .. N(n) /\ N(n) \in Nat /\ N(n) >= 1
        /\ (Kind(n) = "TryCatch" => N(n) >= 2) /\ (Kind(n) \in Decorators => N(n) = 1)
    BY ArityFacts
  <2> QED
    BY <2>1 DEF LastTry
<1>3. g \in [DOMAIN Children(n) -> Results \cup {None}] /\ t \in Nat
  BY DEF HistOK
<1>0. (g2 = none /\ t2 = 0) \/ (g2 = g /\ t2 = t)
  BY Zenon
<1> HIDE DEF none
<1>4. ASSUME Kind(n) \in Ordered
      PROVE  HistOK(n, s, m, "entered", None, g2, t2)
  <2>1. OrderedHist(n, s, m, "out", g)
    BY <1>4 DEF HistOK
  <2>2. /\ Kind(n) # "TryCatch" => ~m.on
        /\ Kind(n) # "SequenceWithMemory" => (s # "RUNNING" => m.idx = 1)
    BY <1>4, Kinds DEF NodeOK, OrderedOK
  <2>3. OrderedHist(n, s, m, "entered", g2)
    <3>1. CASE s = "RUNNING" \/ Kind(n) = "SequenceWithMemory"
      <4>1. CASE Passes(n, g, LastTry(n))
        <5>1. m.idx = 1 /\ m.skips = 0 /\ ~m.on
          <6>1. CASE Passes(n, g, LastTry(n)) /\ m.idx = 1 /\ m.skips = 0 /\ ~m.on
            BY <6>1
          <6>2. CASE m.idx <= LastTry(n) /\ g[m.idx] \notin {Pass(n), "SKIPPED"}
            <7>1. m.idx \in 1 .. LastTry(n)
              BY <1>2, <6>2 DEF MemType
            <7> QED
              BY <4>1, <6>2, <7>1 DEF Passes
          <6>3. CASE Decides(n, g, LastTry(n))
            <7>1. Stop(n) # Pass(n) /\ Stop(n) # "SKIPPED"
              BY DEF Stop, Pass
            <7> QED
              BY <4>1, <6>3, <7>1 DEF Passes, Decides
          <6> QED
            BY <2>1, <3>1, <6>1, <6>2, <6>3 DEF OrderedHist
        <5>2. g2 = none
          BY <1>4, <4>1 DEF none
        <5>3. Passes(n, none, 0) /\ Cardinality(Skips(none, 0)) = 0
          BY SkipsFacts DEF Passes
        <5>4. \A j \in m.idx + 1 .. N(n) : none[j] = None
          BY <1>1, <1>2, <5>1
        <5>5. m.idx - 1 = 0 /\ m.idx <= LastTry(n)
          BY <1>2, <5>1
        <5>6. none[m.idx] \notin {Pass(n), "SKIPPED"}
          <6>1. none[m.idx] = None
            BY <1>1, <1>2, <5>1
          <6> QED
            BY <6>1 DEF None, Pass
        <5> QED
          BY <5>1, <5>2, <5>3, <5>4, <5>5, <5>6 DEF OrderedHist
      <4>2. CASE ~Passes(n, g, LastTry(n))
        <5>1. g2 = g
          BY <1>4, <3>1, <4>2, Kinds
        <5> QED
          BY <2>1, <3>1, <4>2, <5>1, Zenon DEF OrderedHist
      <4> QED
        BY <4>1, <4>2
    <3>2. CASE ~(s = "RUNNING" \/ Kind(n) = "SequenceWithMemory")
      BY <3>2 DEF OrderedHist
    <3> QED
      BY <3>1, <3>2
  <2>5. s = "IDLE" /\ Kind(n) # "SequenceWithMemory" => g2 = none /\ t2 = 0
    BY <1>4, Kinds DEF none
  <2> QED
    BY <1>0, <1>1, <1>3, <1>4, <2>3, <2>5, Kinds DEF HistOK
<1>5. ASSUME Kind(n) \in Reactives \cup {"WhileDoElse", "Switch"}
      PROVE  HistOK(n, s, m, "entered", None, g2, t2)
  <2>1. g2 = none /\ t2 = 0
    BY <1>5 DEF none
  <2>2. BranchHist(n, s, m, "entered", g2) \/ Kind(n) \notin {"IfThenElse", "WhileDoElse"}
    BY <1>5, Kinds DEF BranchHist
  <2>3. ReactiveHist(n, m, "entered", g2)
    BY DEF ReactiveHist
  <2> QED
    BY <1>1, <1>5, <2>1, <2>2, <2>3, Kinds DEF HistOK
<1>6. ASSUME Kind(n) \in Parallels \cup {"IfThenElse"}
      PROVE  HistOK(n, s, m, "entered", None, g2, t2)
  <2>1. IF s = "IDLE" THEN g2 = none /\ t2 = 0 ELSE g2 = g /\ t2 = t
    BY <1>6, Kinds DEF none
  <2>2. Kind(n) \in Parallels => ParallelHist(n, s, m, "entered", g2)
    BY <2>1 DEF HistOK, ParallelHist, Told
  <2>3. Kind(n) = "IfThenElse" => BranchHist(n, s, m, "entered", g2)
    BY <2>1 DEF HistOK, BranchHist
  <2> QED
    BY <1>1, <1>3, <1>6, <2>1, <2>2, <2>3, Kinds DEF HistOK
<1>7. ASSUME Kind(n) \in Decorators
      PROVE  HistOK(n, s, m, "entered", None, g2, t2)
  <2>1. Kind(n) \notin Ordered \cup Reactives \cup Parallels \cup Branches
    BY <1>7, Kinds DEF Decorators
  <2>2. IF s = "IDLE" /\ Kind(n) # "RunOnce" THEN g2 = none /\ t2 = 0 ELSE g2 = g /\ t2 = t
    BY <2>1 DEF none, Branches, Ordered, Sequences_
  <2>3. Kind(n) \in Loops => LoopHist(n, s, m, "entered", None, t2)
    BY <2>2, Kinds DEF HistOK, LoopHist
  <2>4. Kind(n) = "Loop" => QueueHist(n, s, m, "entered", None, t2)
    BY <2>2 DEF HistOK, QueueHist
  <2>5. Kind(n) = "RunOnce" => t2 = IF m.on THEN 1 ELSE 0
    BY <2>2 DEF HistOK
  <2>6. Kind(n) \in {"Precondition", "Updated"} =>
          (s = "RUNNING" /\ g2[1] = "RUNNING" => m.on)
    BY <2>2 DEF HistOK
  <2>7. Kind(n) = "Timeout" => (s = "RUNNING" => g2[1] \notin Completed)
    BY <2>2 DEF HistOK
  <2> QED
    BY <1>1, <1>3, <2>1, <2>2, <2>3, <2>4, <2>5, <2>6, <2>7 DEF HistOK, Branches
<1> QED
  BY <1>4, <1>5, <1>6, <1>7 DEF Controls, Branches


\* Back: the child called last has returned r2, and a try may be over with it.
LEMMA HistBack ==
  ASSUME tree \in DOMAIN Forest, NEW n \in Nodes, Kind(n) \in Controls \cup Decorators,
         NEW s, NEW m \in MemType(n), NEW r, NEW g, NEW t,
         HistOK(n, s, m, "waits", r, g, t),
         NEW L, NEW C, NodeOK(n, s, m, TRUE, L, C, FALSE),
         NEW r2 \in Results, NEW g2, NEW t2, g2 = [g EXCEPT ![CurIdx(n, m)] = r2],
         t2 = IF \/ Kind(n) = "Loop" /\ r2 # "RUNNING"
                 \/ Kind(n) \in {"Repeat", "Retry"} /\ Port("param", n) # -1 /\ r2 \in Completed
                 \/ Kind(n) = "RunOnce" /\ r2 \in Completed
              THEN t + 1 ELSE t
  PROVE  HistOK(n, s, m, "back", r2, g2, t2)
<1> DEFINE i == CurIdx(n, m)
<1>1. /\ DOMAIN Children(n) = 1 .. N(n) /\ N(n) \in Nat /\ N(n) >= 1
      /\ (Kind(n) = "TryCatch" => N(n) >= 2) /\ (Kind(n) \in Decorators => N(n) = 1)
  BY ArityFacts
<1>2. i \in 1 .. N(n) /\ LastTry(n) \in 1 .. N(n) /\ m.idx \in 1 .. N(n)
      /\ (Kind(n) = "TryCatch" => LastTry(n) = N(n) - 1)
  BY <1>1 DEF NodeOK, LastTry, MemType
<1>3. /\ g \in [1 .. N(n) -> Results \cup {None}] /\ t \in Nat
  BY <1>1 DEF HistOK
<1>4. /\ g2 \in [1 .. N(n) -> Results \cup {None}] /\ g2[i] = r2 /\ t2 \in Nat
      /\ \A j \in 1 .. N(n) : j # i => g2[j] = g[j]
  BY <1>2, <1>3
<1>5. t2 = IF \/ Kind(n) = "Loop" /\ r2 # "RUNNING"
              \/ Kind(n) \in {"Repeat", "Retry"} /\ Port("param", n) # -1 /\ r2 \in Completed
              \/ Kind(n) = "RunOnce" /\ r2 \in Completed
           THEN t + 1 ELSE t
  OBVIOUS
<1>6. i = IF Kind(n) = "TryCatch" /\ m.on THEN N(n) ELSE IF Kind(n) \in Controls THEN m.idx ELSE 1
  BY DEF CurIdx
<1> HIDE DEF i
<1>7. \A k \in 0 .. N(n) : k < i => Passes(n, g2, k) = Passes(n, g, k) /\ Skips(g2, k) = Skips(g, k)
  <2>1. ASSUME NEW k \in 0 .. N(n), k < i
        PROVE  \A j \in 1 .. k : g2[j] = g[j]
    BY <1>1, <1>2, <1>4, <2>1
  <2> QED
    BY <2>1 DEF Passes, Skips
<1>8. ASSUME Kind(n) \in Ordered
      PROVE  OrderedHist(n, s, m, "back", g2)
  <2>1. OrderedHist(n, s, m, "waits", g) /\ OrderedOK(n, s, m, TRUE, L, C)
    BY <1>8 DEF HistOK, NodeOK
  <2>2. s = "RUNNING"
    BY <2>1 DEF OrderedOK
  <2>3. CASE ~m.on
    <3>1. /\ m.idx <= LastTry(n) /\ Passes(n, g, m.idx - 1)
          /\ \A j \in m.idx + 1 .. N(n) : g[j] = None
          /\ m.skips <= Cardinality(Skips(g, m.idx - 1))
          /\ Kind(n) # "SequenceWithMemory" => m.skips = Cardinality(Skips(g, m.idx - 1))
      BY <2>1, <2>2, <2>3 DEF OrderedHist
    <3>2. i = m.idx /\ m.idx - 1 \in 0 .. N(n) /\ m.idx - 1 < i
      <4>1. i = m.idx
        BY <1>6, <1>8, <2>3 DEF Controls
      <4> QED
        BY <1>1, <1>2, <4>1
    <3>3. \A j \in m.idx + 1 .. N(n) : g2[j] = None
      BY <1>2, <1>4, <3>1, <3>2
    <3>4. Passes(n, g2, m.idx - 1) /\ Skips(g2, m.idx - 1) = Skips(g, m.idx - 1)
      BY <1>7, <3>1, <3>2
    <3> QED
      BY <2>3, <3>1, <3>3, <3>4 DEF OrderedHist
  <2>4. CASE m.on
    <3>1. Kind(n) = "TryCatch" /\ Decides(n, g, LastTry(n))
      BY <2>1, <2>2, <2>4 DEF OrderedHist
    <3>2. i = N(n) /\ LastTry(n) = N(n) - 1
      BY <1>2, <1>6, <2>4, <3>1
    <3>3. PICK k \in 1 .. LastTry(n) :
            g[k] = Stop(n) /\ Passes(n, g, k - 1) /\ \A j \in k + 1 .. LastTry(n) : g[j] = None
      BY <3>1 DEF Decides
    <3>4. g2[k] = Stop(n) /\ \A j \in k + 1 .. LastTry(n) : g2[j] = None
      BY <1>1, <1>2, <1>4, <3>2, <3>3
    <3>5. Passes(n, g2, k - 1)
      <4>1. k - 1 \in 0 .. N(n) /\ k - 1 < i
        BY <1>1, <3>2
      <4> QED
        BY <1>7, <3>3, <4>1
    <3>6. Decides(n, g2, LastTry(n))
      BY <3>4, <3>5 DEF Decides
    <3> QED
      BY <2>4, <3>1, <3>6 DEF OrderedHist
  <2> QED
    BY <2>3, <2>4
<1>9. ASSUME Kind(n) \in Reactives
      PROVE  ReactiveHist(n, m, "back", g2)
  <2>1. ReactiveHist(n, m, "waits", g)
    BY <1>9 DEF HistOK
  <2>2. i = m.idx /\ m.idx - 1 \in 0 .. N(n) /\ m.idx - 1 < i
    <3>1. i = m.idx
      BY <1>6, <1>9, Kinds DEF Controls
    <3> QED
      BY <1>1, <1>2, <3>1
  <2>3. \A j \in m.idx + 1 .. N(n) : g2[j] = None
    BY <1>2, <1>4, <2>1, <2>2 DEF ReactiveHist
  <2> QED
    BY <1>7, <2>1, <2>2, <2>3 DEF ReactiveHist
<1>10. ASSUME Kind(n) \in Parallels
       PROVE  ParallelHist(n, s, m, "back", g2)
  <2>1. ParallelHist(n, s, m, "waits", g) /\ ParallelOK(n, s, m, TRUE, L, C)
    BY <1>10 DEF HistOK, NodeOK
  <2>2. i = m.idx /\ m.idx - 1 \in 0 .. N(n) /\ m.idx - 1 < i
    <3>1. i = m.idx
      BY <1>6, <1>10, Kinds DEF Controls
    <3> QED
      BY <1>1, <1>2, <3>1
  <2>3. s = "RUNNING" /\ m.idx \notin m.done
    BY <2>1 DEF ParallelOK
  <2>4. /\ m.done = {j \in 1 .. N(n) : g[j] \in Completed}
        /\ m.count = Cardinality({j \in 1 .. N(n) : g[j] = "FAILURE"})
        /\ m.skips = Cardinality(Skips(g, m.idx - 1))
        /\ \A j \in 1 .. m.idx - 1 : g[j] # None
    <3>1. Told(n, m, "waits") = 1 .. N(n)
      BY DEF Told
    <3> QED
      BY <2>1, <2>3, <3>1 DEF ParallelHist
  <2>5. g[m.idx] \notin Completed
    BY <1>2, <2>3, <2>4
  <2>6. /\ {j \in Told(n, m, "back") : g2[j] \in Completed} = {j \in 1 .. N(n) : g[j] \in Completed}
        /\ {j \in Told(n, m, "back") : g2[j] = "FAILURE"} = {j \in 1 .. N(n) : g[j] = "FAILURE"}
    BY <1>4, <2>2, <2>5 DEF Told, Completed
  <2>7. \A j \in 1 .. m.idx - 1 : g2[j] # None
    BY <1>2, <1>4, <2>2, <2>4
  <2> QED
    BY <1>7, <2>2, <2>4, <2>6, <2>7 DEF ParallelHist
<1>11. ASSUME Kind(n) \in {"IfThenElse", "WhileDoElse"}
       PROVE  BranchHist(n, s, m, "back", g2)
  <2>1. BranchHist(n, s, m, "waits", g)
    BY <1>11 DEF HistOK
  <2>2. i = m.idx
    BY <1>6, <1>11 DEF Controls, Branches
  <2> QED
    BY <1>1, <1>2, <1>4, <2>1, <2>2 DEF BranchHist
<1>12. ASSUME Kind(n) = "Switch"
       PROVE  \A j \in 1 .. N(n) : j # m.idx => g2[j] = None
  <2>1. \A j \in 1 .. N(n) : j # m.idx => g[j] = None
    BY <1>12 DEF HistOK
  <2>2. i = m.idx
    BY <1>6, <1>12 DEF Controls, Branches
  <2> QED
    BY <1>4, <2>1, <2>2
<1>13. ASSUME Kind(n) \in Loops
       PROVE  LoopHist(n, s, m, "back", r2, t2)
  <2>1. LoopHist(n, s, m, "waits", r, t)
    BY <1>13 DEF HistOK
  <2>2. t2 = IF Port("param", n) # -1 /\ r2 \in Completed THEN t + 1 ELSE t
    <3>1. Kind(n) \in {"Repeat", "Retry"} /\ Kind(n) # "Loop" /\ Kind(n) # "RunOnce"
      BY <1>13 DEF Loops
    <3> DEFINE tried == Port("param", n) # -1 /\ r2 \in Completed
    <3>2. t2 = IF tried THEN t + 1 ELSE t
      <4>1. CASE tried
        BY <1>5, <3>1, <4>1, Zenon
      <4>2. CASE ~tried
        BY <1>5, <3>1, <4>2, Zenon
      <4> QED
        BY <4>1, <4>2
    <3> QED
      BY <3>2, Zenon
  <2>3. m.count \in Nat
    BY DEF MemType
  <2> QED
    BY <1>3, <2>1, <2>2, <2>3 DEF LoopHist
<1>14. ASSUME Kind(n) = "Loop"
       PROVE  QueueHist(n, s, m, "back", r2, t2)
  <2>1. QueueHist(n, s, m, "waits", r, t)
    BY <1>14 DEF HistOK
  <2>2. t2 = IF r2 # "RUNNING" THEN t + 1 ELSE t
    BY <1>5, <1>14
  <2>3. m.count \in Nat
    BY DEF MemType
  <2> QED
    BY <1>3, <2>1, <2>2, <2>3 DEF QueueHist
<1>15. ASSUME Kind(n) = "RunOnce"
       PROVE  t2 = IF m.on \/ r2 \in Completed THEN 1 ELSE 0
  <2>1. t = IF m.on THEN 1 ELSE 0
    BY <1>15 DEF HistOK
  <2>2. ~m.on
    BY <1>15 DEF NodeOK, RunOnceOK
  <2> QED
    BY <1>5, <1>15, <2>1, <2>2
<1> QED
  BY <1>1, <1>4, <1>8, <1>9, <1>10, <1>11, <1>12, <1>13, <1>14, <1>15 DEF HistOK, i

-----------------------------------------------------------------------------
(* What is ticked                                                          *)

\* The invariant of X depends on the tree alone, if on what it is asked is given.
LEMMA SameHist ==
  ASSUME tree' = tree
  PROVE  /\ X' = X /\ (Asked' <=> Asked)
         /\ \A n, m : Settled(n, m)' = Settled(n, m)
         /\ \A n, m, C, back : DoneOK(n, m, C, back)' = DoneOK(n, m, C, back)
         /\ \A n, s, m, p, r, g, t : HistOK(n, s, m, p, r, g, t)' = HistOK(n, s, m, p, r, g, t)
<1>1. /\ Nodes' = Nodes
      /\ \A n, m : /\ Kind(n)' = Kind(n) /\ N(n)' = N(n) /\ CurIdx(n, m)' = CurIdx(n, m)
                   /\ Children(n)' = Children(n)
      /\ \A n, i : Child(n, i)' = Child(n, i) /\ Goes(n, i)' = Goes(n, i)
  BY SameTree
<1>2. X' = X
  BY DEF X
<1>3. \A n : Statement(n)' = Statement(n)
  BY <1>1 DEF Statement
<1>4. Asked' <=> Asked
  BY <1>1, <1>2, <1>3 DEF Asked
<1>5. \A n, m : Settled(n, m)' = Settled(n, m)
  BY <1>1 DEF Settled
<1>6. \A n, m, C, back : DoneOK(n, m, C, back)' = DoneOK(n, m, C, back)
  BY <1>1, <1>5 DEF DoneOK
<1>7. \A n : /\ Stop(n)' = Stop(n) /\ Pass(n)' = Pass(n) /\ LastTry(n)' = LastTry(n)
             /\ Port("param", n)' = Port("param", n)
  BY <1>1 DEF Stop, Pass, LastTry, Port
<1>8. \A n, g, i : /\ Passes(n, g, i)' = Passes(n, g, i)
                   /\ Decides(n, g, i)' = Decides(n, g, i)
  BY <1>7 DEF Passes, Decides
<1>9. ASSUME NEW n, NEW s, NEW m, NEW p, NEW r, NEW g, NEW t
      PROVE  HistOK(n, s, m, p, r, g, t)' = HistOK(n, s, m, p, r, g, t)
  <2>1. OrderedHist(n, s, m, p, g)' = OrderedHist(n, s, m, p, g)
    BY <1>1, <1>7, <1>8 DEF OrderedHist
  <2>2. ReactiveHist(n, m, p, g)' = ReactiveHist(n, m, p, g)
    BY <1>1, <1>8 DEF ReactiveHist
  <2>3. ParallelHist(n, s, m, p, g)' = ParallelHist(n, s, m, p, g)
    BY <1>1 DEF ParallelHist, Told
  <2>4. BranchHist(n, s, m, p, g)' = BranchHist(n, s, m, p, g)
    BY <1>1 DEF BranchHist
  <2>5. LoopHist(n, s, m, p, r, t)' = LoopHist(n, s, m, p, r, t)
    BY <1>1, <1>7 DEF LoopHist
  <2>6. QueueHist(n, s, m, p, r, t)' = QueueHist(n, s, m, p, r, t)
    BY <1>7 DEF QueueHist
  <2> QED
    BY <1>1, <2>1, <2>2, <2>3, <2>4, <2>5, <2>6 DEF HistOK
<1> QED
  BY <1>2, <1>4, <1>5, <1>6, <1>9

\* A child that is called has not completed in an earlier tick, but for a statement.
LEMMA Started == IInv /\ StartedInv => StartedOrGoesOn
<1> SUFFICES ASSUME IInv, StartedInv, NEW n \in Nodes, Inside(n), ret = None, ~Statement(n),
                    status[n] \notin {"IDLE", "RUNNING"}
             PROVE  FALSE
  BY DEF StartedOrGoesOn
<1>1. TypeOK /\ TreeInv /\ tree \in DOMAIN Forest /\ status[n] \in Completed
  BY Here DEF Statuses, Completed
<1>2. n # Root
  BY <1>1 DEF StartedInv, Inside
<1>3. PICK p \in Nodes : n \in ChildSet(p)
  <2>1. Root \in Nodes /\ n \in Below(Root) /\ Below(Root) \subseteq Nodes
    BY <1>1, TreeFacts
  <2>2. PICK p \in Below(Root) : n \in ChildSet(p)
    BY <1>1, <1>2, <2>1, BelowFacts
  <2> QED
    BY <2>1, <2>2
<1> DEFINE m == Mem(p)
           c == CurIdx(p, m)
<1>4. n \in Below(p) /\ p # n
  BY <1>1, <1>3, BelowFacts, TreeFacts
<1>5. Locked(p) /\ c \in DOMAIN Children(p) /\ n \in Below(Cur(p))
  BY <1>1, <1>4, OnPath
<1>6. n = Child(p, c)
  <2>1. PICK j \in DOMAIN Children(p) : n = Child(p, j)
    BY <1>3 DEF ChildSet, ToSet, Child
  <2>2. n \in Below(Child(p, j)) /\ n \in Below(Child(p, c))
    BY <1>1, <1>5, <2>1, TreeFacts DEF Cur
  <2>3. j = c
    BY <1>1, <1>5, <2>1, <2>2, BelowFacts
  <2> QED
    BY <2>1, <2>3
<1>7. ~Inside(p)
  BY <1>4 DEF Inside
<1>8. c \in Settled(p, m)
  <2>1. DoneOK(p, m, DoneIdx(p), FALSE)
    BY <1>7 DEF StartedInv
  <2>2. c \in DoneIdx(p)
    BY <1>1, <1>5, <1>6 DEF DoneIdx
  <2> QED
    BY <2>1, <2>2 DEF DoneOK
<1>9. NodeOK(p, status[p], m, TRUE, LiveIdx(p), DoneIdx(p), FALSE)
  BY <1>1, <1>5, <1>7, NodeInvIs DEF TreeInv
<1>10. m.idx \in 1 .. N(p) /\ N(p) \in Nat
  <2>1. DOMAIN Children(p) = 1 .. N(p) /\ N(p) \in Nat
    BY <1>1, ArityFacts
  <2>2. m \in MemType(p)
    BY <1>1, MemFacts
  <2> QED
    BY <1>5, <2>1, <2>2 DEF MemType
<1>11. c = IF Kind(p) = "TryCatch" /\ m.on THEN N(p) ELSE IF Kind(p) \in Controls THEN m.idx ELSE 1
  BY DEF CurIdx
<1> HIDE DEF m, c
<1>12. CASE Kind(p) \in Ordered \cup Reactives
  <2>0. Settled(p, m) = IF Kind(p) = "TryCatch" /\ m.on THEN {} ELSE 1 .. m.idx - 1
    <3>1. Kind(p) \notin Parallels \cup {"IfThenElse", "WhileDoElse"}
      BY <1>12, Kinds
    <3> QED
      BY <1>12, <3>1 DEF Settled
  <2>1. ~(Kind(p) = "TryCatch" /\ m.on) /\ c \in 1 .. m.idx - 1
    BY <1>8, <2>0
  <2>2. c = m.idx
    BY <1>11, <1>12, <2>1 DEF Controls
  <2> QED
    BY <1>10, <2>1, <2>2
<1>13. CASE Kind(p) \in Parallels
  <2>1. c \in m.done
    BY <1>8, <1>13, Kinds DEF Settled
  <2>2. c = m.idx
    BY <1>11, <1>13, Kinds DEF Controls
  <2>3. ParallelOK(p, status[p], m, TRUE, LiveIdx(p), DoneIdx(p))
    BY <1>9, <1>13 DEF NodeOK
  <2> QED
    BY <2>1, <2>2, <2>3 DEF ParallelOK
<1>14. CASE Kind(p) = "IfThenElse"
  <2>1. c = 1 /\ (m.idx > 1 \/ N(p) = 2)
    BY <1>8, <1>14, Kinds DEF Settled
  <2>2. c = m.idx
    BY <1>11, <1>14, Kinds DEF Controls
  <2> QED
    BY <1>6, <1>14, <2>1, <2>2 DEF Statement
<1>15. CASE Kind(p) = "WhileDoElse"
  <2>1. c = 1
    BY <1>8, <1>15, Kinds DEF Settled
  <2> QED
    BY <1>6, <1>15, <2>1 DEF Statement
<1>16. CASE Kind(p) \notin Ordered \cup Reactives \cup Parallels \cup {"IfThenElse", "WhileDoElse"}
  BY <1>8, <1>16 DEF Settled
<1> QED
  BY <1>12, <1>13, <1>14, <1>15, <1>16

\* The same of the next state.
LEMMA StartedNext == IInv' /\ StartedInv' => StartedOrGoesOn'
<1>1. IInv /\ StartedInv => StartedOrGoesOn
  BY Started
<1> QED
  BY <1>1, PTL

-----------------------------------------------------------------------------
(* A step of the node that is ticked                                       *)

\* tick() of n goes on to a child, or returns, and leaves n as the invariant asks: what is
\* left to prove of n alone.
Continues(n) ==
  \E s \in Statuses, m \in MemType(n), H \in SUBSET ChildSet(n), i \in DOMAIN Children(n) :
    /\ Leaves(n, s, m, H) /\ Calls(n, i) /\ CurIdx(n, m) = i
    /\ n \notin DOMAIN mem => m = Blank
    /\ s \in Completed => status[n] \in Completed
    /\ DoneOK(n, m, DoneIdx(n) \ Index(n, H), FALSE)
    /\ n = X /\ Asked => HistOK(n, s, m, "waits", None, got, tries)

Answers(n) ==
  \E s \in Results, m \in MemType(n) : \E H \in (SUBSET ChildSet(n)) \cup {{n}} :
    /\ Leaves(n, s, m, H) /\ Exits(s)
    /\ n \notin DOMAIN mem => m = Blank
    /\ IF H = {n} THEN s = "SKIPPED" /\ ~Locked(n) /\ status[n] = "RUNNING"
       ELSE DoneOK(n, m, DoneIdx(n) \ Index(n, H), FALSE)
    /\ n = X /\ Asked =>
         /\ HistOK(n, IF s # "SKIPPED" THEN s ELSE IF H = {n} THEN "IDLE" ELSE status[n], m,
                   "out", s, got, tries)
         /\ s \in Completed => Promised(s) \/ Preempt(n)

\* The results the other nodes are left with.
LEMMA OthersDone ==
  ASSUME TypeOK, TreeInv, StartedInv, tree' = tree, NEW n, Inside(n), NEW s, NEW m, NEW H,
         Leaves(n, s, m, H), s \in Statuses \cup {"SKIPPED"},
         n \in DOMAIN mem => m \in MemType(n),
         \/ H \subseteq ChildSet(n)
         \/ H = {n} /\ s = "SKIPPED" /\ ~Locked(n) /\ status[n] = "RUNNING",
         s \in Completed /\ status[n] \notin Completed =>
           /\ \A x \in Nodes : n \in ChildSet(x) => Inside(x)' /\ ret' \in Completed
           /\ n = Root => stack' = <<>> /\ ret' \in Completed
  PROVE  /\ \A x \in Nodes : x # n =>
              DoneOK(x, Mem(x)', DoneIdx(x)', Inside(x)' /\ ret' \in Completed)
         /\ status'[Root] \in Completed => stack' = <<>> /\ ret' \in Completed
         /\ DoneIdx(n)' \subseteq DoneIdx(n) \ Index(n, H)
         /\ H = {n} => DoneIdx(n)' = {}
<1>1. tree \in DOMAIN Forest /\ n \in Nodes /\ stack # <<>>
  BY OnPath DEF TypeOK, Inside
<1>2. \A x \in Below(n) : x # n => ~Locked(x)
  <2>1. \A x \in Below(n) : x \in Nodes
    BY <1>1, TreeFacts
  <2> QED
    BY <1>1, <2>1, OnPath, BelowFacts
<1>3. /\ DoneIdx(n)' \subseteq DoneIdx(n) \ Index(n, H)
      /\ \A x \in Halted(H) : DoneIdx(x)' = {}
      /\ \A x \in Nodes : x # n =>
           DoneIdx(x)' \subseteq
             DoneIdx(x) \cup {i \in DOMAIN Children(x) :
                                n = Child(x, i) /\ s \in Completed /\ status[n] \notin Completed}
  BY <1>1, <1>2, LeavesLive
<1>4. /\ Halted(H) \subseteq Below(n)
      /\ status'[n] = IF s # "SKIPPED" THEN s ELSE IF H = {n} THEN "IDLE" ELSE status[n]
      /\ \A x \in Nodes : x # n /\ x \notin Halted(H) =>
           Mem(x)' = Mem(x) /\ status'[x] \in {status[x], "IDLE"}
      /\ \A x \in Halted(H) : x # n => status'[x] = "IDLE"
  BY <1>1, LeavesFrame
<1>5. ASSUME NEW x \in Nodes, x # n
      PROVE  DoneOK(x, Mem(x)', DoneIdx(x)', Inside(x)' /\ ret' \in Completed)
  <2>1. CASE x \in Halted(H)
    BY <1>3, <2>1 DEF DoneOK
  <2>2. CASE x \notin Halted(H)
    <3>1. Mem(x)' = Mem(x)
      BY <1>4, <1>5, <2>2
    <3>2. ~Inside(x)
      BY <1>5 DEF Inside
    <3>3. DoneIdx(x) \subseteq Settled(x, Mem(x))
      BY <3>2 DEF StartedInv, DoneOK
    <3> DEFINE D == {i \in DOMAIN Children(x) :
                       n = Child(x, i) /\ s \in Completed /\ status[n] \notin Completed}
    <3>4. CASE D = {}
      BY <1>3, <1>5, <3>1, <3>3, <3>4 DEF DoneOK
    <3>5. CASE D # {}
      <4>1. PICK i \in D : TRUE
        BY <3>5
      <4>2. i \in DOMAIN Children(x) /\ n = Child(x, i) /\ n \in ChildSet(x)
        BY <1>1, <4>1, TreeFacts
      <4>3. Inside(x)' /\ ret' \in Completed
        BY <4>1, <4>2
      <4>4. D = {CurIdx(x, Mem(x))}
        <5>1. n \in Below(x)
          BY <1>1, <4>2, BelowFacts
        <5>2. Locked(x)
          BY <1>5, <5>1, OnPath
        <5>3. CurIdx(x, Mem(x)) \in DOMAIN Children(x) /\ n \in Below(Child(x, CurIdx(x, Mem(x))))
          BY <1>5, <5>2, OnPath DEF Cur
        <5>4. n \in Below(n)
          BY <1>1, TreeFacts
        <5>5. \A j \in DOMAIN Children(x) : n = Child(x, j) => j = CurIdx(x, Mem(x))
          BY <1>1, <5>3, <5>4, BelowFacts
        <5> QED
          BY <4>1, <5>5
      <4> HIDE DEF D
      <4>5. DoneIdx(x)' \subseteq Settled(x, Mem(x)) \cup {CurIdx(x, Mem(x))}
        <5>1. DoneIdx(x)' \subseteq DoneIdx(x) \cup D
          BY <1>3, <1>5 DEF D
        <5> QED
          BY <3>3, <4>4, <5>1
      <4> QED
        BY <3>1, <4>3, <4>5 DEF DoneOK
    <3> QED
      BY <3>4, <3>5
  <2> QED
    BY <2>1, <2>2
<1>6. status'[Root] \in Completed => stack' = <<>> /\ ret' \in Completed
  <2>1. status[Root] \notin Completed
    BY <1>1 DEF StartedInv
  <2>2. "IDLE" \notin Completed /\ "SKIPPED" \notin Completed /\ Root \in Nodes
    BY <1>1, TreeFacts DEF Completed
  <2>3. CASE n = Root
    BY <1>4, <2>1, <2>2, <2>3
  <2>4. CASE n # Root
    BY <1>4, <2>1, <2>2, <2>4
  <2> QED
    BY <2>3, <2>4
<1>7. H = {n} => DoneIdx(n)' = {}
  <2>1. ASSUME H = {n} PROVE n \in Halted(H)
    <3>1. n \notin ChildSet(n)
      BY <1>1, BelowFacts, TreeFacts
    <3>2. status[n] = "RUNNING" /\ H \in SUBSET Nodes
      BY <1>1, <2>1, <3>1
    <3> QED
      BY <1>1, <2>1, <3>2, HaltedFacts
  <2> QED
    BY <1>3, <2>1
<1> QED
  BY <1>3, <1>5, <1>6, <1>7

\* What the history tells of X, when another node makes the step.
LEMMA HistAside ==
  ASSUME TypeOK, TreeInv, tree' = tree, NEW n, Inside(n), NEW s, NEW m, NEW H,
         Leaves(n, s, m, H), s \in Statuses \cup {"SKIPPED"},
         n \in DOMAIN mem => m \in MemType(n),
         H \subseteq ChildSet(n) \/ (H = {n} /\ s = "SKIPPED"),
         NEW x \in Nodes, x # n, NEW g, NEW t, HistOK(x, status[x], Mem(x), Place(x), ret, g, t)
  PROVE  /\ n \in Below(x) => status'[x] = status[x] /\ Mem(x)' = Mem(x)
         /\ \A r : HistOK(x, status'[x], Mem(x)', IF n \in Below(x) THEN "waits" ELSE "out", r, g, t)
<1>1. tree \in DOMAIN Forest /\ n \in Nodes
  BY OnPath DEF TypeOK
<1>2. Place(x) = IF n \in Below(x) THEN "waits" ELSE "out"
  BY PlaceFacts
<1>3. /\ Halted(H) \subseteq Below(n)
      /\ x \notin Halted(H) =>
           /\ Mem(x)' = Mem(x)
           /\ status'[x] = "RUNNING" <=> status[x] = "RUNNING"
           /\ status'[x] \in {status[x], "IDLE"}
           /\ x \notin Below(n) => status'[x] = status[x]
      /\ x \in Halted(H) => 
           /\ status'[x] = "IDLE"
           /\ Mem(x)' = IF Kind(x) \in {"SequenceWithMemory", "RunOnce", "Precondition", "Loop"}
                        THEN Mem(x) ELSE Blank
  BY <1>1, LeavesFrame
<1>4. CASE n \in Below(x)
  <2>1. x \notin Below(n)
    BY <1>1, <1>4, BelowFacts
  <2>2. status'[x] = status[x] /\ Mem(x)' = Mem(x)
    BY <1>3, <2>1
  <2>3. HistOK(x, status[x], Mem(x), "waits", ret, g, t)
    BY <1>2, <1>4
  <2> QED
    BY <1>4, <2>2, <2>3, HistWaits
<1>5. CASE n \notin Below(x)
  <2>1. HistOK(x, status[x], Mem(x), "out", ret, g, t)
    BY <1>2, <1>5
  <2>2. \/ status'[x] = status[x] /\ Mem(x)' = Mem(x)
        \/ /\ status'[x] # "RUNNING"
           /\ \/ Mem(x)' = Mem(x)
              \/ Mem(x)' = IF Kind(x) \in {"SequenceWithMemory", "RunOnce", "Precondition", "Loop"}
                           THEN Mem(x) ELSE Blank
    BY <1>3
  <2> DEFINE s2 == status'[x]
             m2 == Mem(x)'
  <2> HIDE DEF s2, m2
  <2>3. \/ s2 = status[x] /\ m2 = Mem(x)
        \/ /\ s2 # "RUNNING"
           /\ \/ m2 = Mem(x)
              \/ m2 = IF Kind(x) \in {"SequenceWithMemory", "RunOnce", "Precondition", "Loop"}
                      THEN Mem(x) ELSE Blank
    BY <2>2 DEF s2, m2
  <2>4. \A r : HistOK(x, s2, m2, "out", r, g, t)
    BY <2>1, <2>3, HistOut
  <2> QED
    BY <1>5, <2>4 DEF s2, m2
<1> QED
  BY <1>4, <1>5

\* The member records of the next state.
LEMMA MemFactsNext == TypeOK' => (\A x : Mem(x) \in MemType(x))'
<1>1. TypeOK => \A x : Mem(x) \in MemType(x)
  BY MemFacts
<1> QED
  BY <1>1, PTL

\* The node X is the same in a step that keeps the tree.
LEMMA SameX ==
  ASSUME tree' = tree, tree \in DOMAIN Forest
  PROVE  /\ \E y \in Nodes : X = y /\ X' = y
         /\ ret # "EXCEPTION" /\ HistInv /\ Asked =>
              HistOK(X, status[X], Mem(X), Place(X), ret, got, tries)
         /\ \A y : X = y /\ X' = y =>
              ((Asked => HistOK(y, status'[y], Mem(y)', Place(y)', ret', got', tries'))
                 => HistInv')
<1>1. /\ X' = X /\ (Asked' <=> Asked)
      /\ \A x, s2, m2, p, r, g, t : HistOK(x, s2, m2, p, r, g, t)' = HistOK(x, s2, m2, p, r, g, t)
  BY SameHist
<1>2. X \in Nodes
  BY SubjectAssumption DEF X, Nodes
<1>3. ASSUME NEW y, X = y, X' = y,
             Asked => HistOK(y, status'[y], Mem(y)', Place(y)', ret', got', tries')
      PROVE  HistInv'
  <2>1. HistInv' <=> (Asked' => HistOK(X, status[X], Mem(X), Place(X), ret, got, tries)')
    BY DEF HistInv
  <2>2. HistOK(X, status[X], Mem(X), Place(X), ret, got, tries)' <=>
        HistOK(y, status'[y], Mem(y)', Place(y)', ret', got', tries')
    BY <1>1, <1>3
  <2> QED
    BY <1>1, <1>3, <2>1, <2>2
<1>4. \E y \in Nodes : X = y /\ X' = y
  BY <1>1, <1>2
<1>5. HistInv /\ Asked => HistOK(X, status[X], Mem(X), Place(X), ret, got, tries)
  BY DEF HistInv
<1> QED
  BY <1>3, <1>4, <1>5

\* A child is ticked.
LEMMA ContinuesKeeps ==
  ASSUME IInv, IInv', StartedInv, HistInv, NextR, tree' = tree, NEW n, Inside(n), Continues(n)
  PROVE  StartedInv' /\ HistInv' /\ Keeps
<1>1. /\ TypeOK /\ TreeInv /\ n \in Nodes /\ tree \in DOMAIN Forest /\ stack # <<>>
      /\ stack \in Seq(Nodes) /\ ret \in Results \cup {None}
  BY Here DEF TypeOK, Inside
<1>2. PICK s \in Statuses, m \in MemType(n), H \in SUBSET ChildSet(n), i \in DOMAIN Children(n) :
        /\ Leaves(n, s, m, H) /\ Calls(n, i) /\ CurIdx(n, m) = i
        /\ n \notin DOMAIN mem => m = Blank
        /\ s \in Completed => status[n] \in Completed
        /\ DoneOK(n, m, DoneIdx(n) \ Index(n, H), FALSE)
        /\ n = X /\ Asked => HistOK(n, s, m, "waits", None, got, tries)
  BY DEF Continues
<1> DEFINE c == Child(n, i)
<1>3. /\ \A x \in Nodes : Place(x)' = IF x = c THEN "entered"
                                      ELSE IF n \in Below(x) THEN "waits" ELSE "out"
      /\ Len(stack') > Len(stack) /\ ret' = None /\ Inside(c)' /\ c # n /\ c \in ChildSet(n)
      /\ c \in Nodes
  BY <1>1, <1>2, PlaceCalled, TreeFacts
<1>4. /\ status'[n] = s /\ Mem(n)' = m
  <2>1. s # "SKIPPED"
    BY DEF Statuses, Completed
  <2>2. /\ status'[n] = IF s # "SKIPPED" THEN s ELSE IF H = {n} THEN "IDLE" ELSE status[n]
        /\ Mem(n)' = IF n \in DOMAIN mem THEN m ELSE Blank
    BY <1>1, <1>2, LeavesFrame
  <2> QED
    BY <1>2, <2>1, <2>2
<1>5. /\ \A x \in Nodes : x # n =>
              DoneOK(x, Mem(x)', DoneIdx(x)', Inside(x)' /\ ret' \in Completed)
      /\ status'[Root] \in Completed => stack' = <<>> /\ ret' \in Completed
      /\ DoneIdx(n)' \subseteq DoneIdx(n) \ Index(n, H)
  BY <1>1, <1>2, OthersDone
<1>6. StartedInv'
  <2>1. DoneIdx(n)' \subseteq Settled(n, m)
    <3>1. DoneIdx(n) \ Index(n, H) \subseteq Settled(n, m)
      BY <1>2 DEF DoneOK
    <3> QED
      BY <1>5, <3>1
  <2>2. DoneOK(n, Mem(n)', DoneIdx(n)', Inside(n)' /\ ret' \in Completed)
    BY <1>4, <2>1 DEF DoneOK
  <2>3. \A x \in Nodes : DoneOK(x, Mem(x)', DoneIdx(x)', Inside(x)' /\ ret' \in Completed)
    BY <1>5, <2>2
  <2>4. /\ Nodes' = Nodes /\ Root' = Root
        /\ \A x, m2, C, back : DoneOK(x, m2, C, back)' = DoneOK(x, m2, C, back)
    BY SameTree, SameHist
  <2> QED
    BY <1>5, <2>3, <2>4 DEF StartedInv
<1>7. Keeps
  <2>1. \A r : ~Exits(r)
    <3>1. Len(Front(stack)) < Len(stack)
      <4>1. Front(stack) = SubSeq(stack, 1, Len(stack) - 1) /\ Len(stack) \in Nat /\ Len(stack) >= 1
        BY <1>1 DEF Front
      <4> QED
        BY <1>1, <4>1
    <3>2. Len(Front(stack)) \in Nat /\ Len(stack) \in Nat
      <4>1. Front(stack) = SubSeq(stack, 1, Len(stack) - 1) /\ Len(stack) \in Nat /\ Len(stack) >= 1
        BY <1>1 DEF Front
      <4> QED
        BY <1>1, <4>1
    <3>3. Len(stack') # Len(Front(stack))
      <4>1. Len(stack') > Len(stack)
        BY <1>3
      <4> DEFINE a == Len(stack')
                 b == Len(Front(stack))
                 d == Len(stack)
      <4>2. a > d /\ b < d /\ b \in Nat /\ d \in Nat
        BY <3>1, <3>2, <4>1
      <4> HIDE DEF a, b, d
      <4>3. a # b
        BY <4>2
      <4> QED
        BY <4>3 DEF a, b
    <3> QED
      BY <3>3 DEF Exits
  <2> QED
    BY <2>1 DEF Keeps
<1>8. HistInv'
  <2>1. PICK y \in Nodes : X = y /\ X' = y
    BY <1>1, SameX
  <2>2. SUFFICES ASSUME Asked
                 PROVE  HistOK(y, status'[y], Mem(y)', Place(y)', None, got', tries')
    <3>1. (Asked => HistOK(y, status'[y], Mem(y)', Place(y)', ret', got', tries')) => HistInv'
      BY <1>1, <2>1, SameX
    <3>2. ret' = None
      BY <1>3
    <3> QED
      BY <3>1, <3>2
  <2>3. HistOK(y, status[y], Mem(y), Place(y), ret, got, tries)
    BY <2>1, <2>2 DEF HistInv
  <2>4. Kind(y) \in Controls \cup Decorators /\ ~Statement(y)
    BY <2>1, <2>2 DEF Asked
  <2>5. CASE y = n
    <3>1. got' = got /\ tries' = tries
      <4>1. c # X
        BY <1>3, <2>1, <2>5
      <4> QED
        BY <1>1, <1>2, <4>1, HistoryCalled
    <3>2. Place(y)' = "waits"
      <4>1. n \in Below(n)
        BY <1>1, TreeFacts
      <4> QED
        BY <1>1, <1>3, <2>5, <4>1
    <3>3. HistOK(n, s, m, "waits", None, got, tries)
      BY <1>2, <2>1, <2>2, <2>5
    <3>4. status'[y] = s /\ Mem(y)' = m
      BY <1>4, <2>5
    <3> QED
      BY <2>5, <3>1, <3>2, <3>3, <3>4
  <2>6. ASSUME y # n
        PROVE  \A r : HistOK(y, status'[y], Mem(y)', IF n \in Below(y) THEN "waits" ELSE "out",
                             r, got, tries)
    BY <1>1, <1>2, <2>3, <2>6, HistAside
  <2>7. CASE y # n /\ y # c
    <3>1. got' = got /\ tries' = tries
      BY <1>1, <1>2, <2>1, <2>7, HistoryCalled
    <3>2. Place(y)' = IF n \in Below(y) THEN "waits" ELSE "out"
      BY <1>3, <2>7
    <3>3. HistOK(y, status'[y], Mem(y)', IF n \in Below(y) THEN "waits" ELSE "out",
                 None, got, tries)
      BY <2>6, <2>7
    <3> QED
      BY <3>1, <3>2, <3>3
  <2>8. CASE y = c
    <3>1. n \notin Below(y) /\ y # n
      BY <1>1, <1>3, <2>8, BelowFacts
    <3>2. HistOK(y, status'[y], Mem(y)', "out", ret, got, tries)
      <4>1. HistOK(y, status'[y], Mem(y)', IF n \in Below(y) THEN "waits" ELSE "out",
                   ret, got, tries)
        BY <2>6, <3>1
      <4> QED
        BY <3>1, <4>1
    <3>3. Inside(y)' /\ ret' = None
      BY <1>3, <2>8, SameTree
    <3>4. status'[y] \in {"IDLE", "RUNNING"}
      <4>1. StartedOrGoesOn'
        BY <1>6, StartedNext
      <4>2. Nodes' = Nodes /\ ~Statement(y)'
        <5>1. /\ Nodes' = Nodes
              /\ \A x : Kind(x)' = Kind(x) /\ N(x)' = N(x)
              /\ \A x, j : Child(x, j)' = Child(x, j)
          BY SameTree
        <5> QED
          BY <2>4, <5>1 DEF Statement
      <4> QED
        BY <3>3, <4>1, <4>2 DEF StartedOrGoesOn
    <3>5. NodeOK(y, status'[y], Mem(y)', FALSE, LiveIdx(y)', DoneIdx(y)', FALSE)
      <4>1. TreeInv'
        <5>1. ret' # "EXCEPTION"
          BY <1>3 DEF None
        <5> QED
          BY <5>1 DEF IInv
      <4>2. NodeInv(y)'
        <5>1. Nodes' = Nodes
          BY SameTree
        <5> QED
          BY <4>1, <5>1 DEF TreeInv
      <4>3. ~Locked(y)'
        <5>1. Entered(y, {Kind(y)})'
          BY <3>3 DEF Entered
        <5> QED
          BY <5>1 DEF Locked
      <4>4. ~(Inside(y)' /\ ret' \in Completed)
        BY <3>3 DEF None, Completed
      <4> QED
        BY <4>2, <4>3, <4>4, NodeInvIs
    <3>6. Mem(y)' \in MemType(y)
      <4>1. TypeOK'
        BY DEF IInv
      <4>2. MemType(y)' = MemType(y)
        BY SameTree
      <4> QED
        BY <4>1, <4>2, MemFactsNext
    <3> DEFINE s2 == status'[y]
               m2 == Mem(y)'
               L2 == LiveIdx(y)'
               C2 == DoneIdx(y)'
    <3>7. IF \/ s2 = "IDLE" /\ Kind(y) \notin {"SequenceWithMemory", "RunOnce"}
             \/ Kind(y) \in Ordered /\ Passes(y, got, LastTry(y))
             \/ Kind(y) \in Reactives \cup {"WhileDoElse", "Switch"}
          THEN got' = [j \in DOMAIN Children(y) |-> None] /\ tries' = 0
          ELSE got' = got /\ tries' = tries
      <4>1. Passed(LastTry(y)) <=> Passes(y, got, LastTry(y))
        BY <2>1 DEF Passed, Passes
      <4>2. IF \/ status'[X] = "IDLE" /\ Kind(X) \notin {"SequenceWithMemory", "RunOnce"}
               \/ Kind(X) \in Ordered /\ Passed(LastTry(X))
               \/ Kind(X) \in Reactives \cup {"WhileDoElse", "Switch"}
            THEN got' = Unset /\ tries' = 0
            ELSE got' = got /\ tries' = tries
        BY <1>1, <1>2, <2>1, <2>8, HistoryCalled
      <4>3. Unset = [j \in DOMAIN Children(y) |-> None]
        BY <2>1 DEF Unset
      <4> QED
        BY <2>1, <4>1, <4>2, <4>3, Zenon
    <3>8. /\ HistOK(y, s2, m2, "out", ret, got, tries) /\ s2 \in {"IDLE", "RUNNING"}
          /\ NodeOK(y, s2, m2, FALSE, L2, C2, FALSE) /\ m2 \in MemType(y)
      BY <3>2, <3>4, <3>5, <3>6
    <3>9. Place(y)' = "entered"
      BY <1>3, <2>8
    <3> HIDE DEF s2, m2, L2, C2
    <3>10. HistOK(y, s2, m2, "entered", None, got', tries')
      BY <1>1, <2>4, <3>7, <3>8, HistEnters
    <3> QED
      BY <3>9, <3>10 DEF s2, m2
  <2> QED
    BY <2>5, <2>7, <2>8
<1> QED
  BY <1>6, <1>7, <1>8

\* tick() is over.
LEMMA AnswersKeeps ==
  ASSUME IInv, StartedInv, HistInv, NextR, tree' = tree, NEW n, Inside(n), Answers(n)
  PROVE  StartedInv' /\ HistInv' /\ Keeps
<1>1. /\ TypeOK /\ TreeInv /\ n \in Nodes /\ tree \in DOMAIN Forest /\ stack # <<>>
      /\ stack \in Seq(Nodes) /\ ret \in Results \cup {None}
  BY Here DEF TypeOK, Inside
<1>2. PICK s \in Results, m \in MemType(n), H \in (SUBSET ChildSet(n)) \cup {{n}} :
        /\ Leaves(n, s, m, H) /\ Exits(s)
        /\ n \notin DOMAIN mem => m = Blank
        /\ IF H = {n} THEN s = "SKIPPED" /\ ~Locked(n) /\ status[n] = "RUNNING"
           ELSE DoneOK(n, m, DoneIdx(n) \ Index(n, H), FALSE)
        /\ n = X /\ Asked =>
             /\ HistOK(n, IF s # "SKIPPED" THEN s ELSE IF H = {n} THEN "IDLE" ELSE status[n], m,
                       "out", s, got, tries)
             /\ s \in Completed => Promised(s) \/ Preempt(n)
  BY DEF Answers
<1>3. /\ \/ H \subseteq ChildSet(n)
         \/ H = {n} /\ s = "SKIPPED" /\ ~Locked(n) /\ status[n] = "RUNNING"
      /\ s \in Statuses \cup {"SKIPPED"} /\ stack' = Front(stack) /\ ret' = s /\ s # None
      /\ H \subseteq ChildSet(n) \/ (H = {n} /\ s = "SKIPPED")
  <2>1. /\ \/ H \subseteq ChildSet(n)
           \/ H = {n} /\ s = "SKIPPED" /\ ~Locked(n) /\ status[n] = "RUNNING"
        /\ H \subseteq ChildSet(n) \/ (H = {n} /\ s = "SKIPPED")
    <3>1. IF H = {n} THEN s = "SKIPPED" /\ ~Locked(n) /\ status[n] = "RUNNING"
          ELSE DoneOK(n, m, DoneIdx(n) \ Index(n, H), FALSE)
      BY <1>2
    <3>2. CASE H = {n}
      <4>1. s = "SKIPPED" /\ ~Locked(n) /\ status[n] = "RUNNING"
        BY <3>1, <3>2, Zenon
      <4> QED
        BY <3>2, <4>1, Zenon
    <3>3. CASE H # {n}
      BY <3>3
    <3> QED
      BY <3>2, <3>3
  <2>2. stack' = Front(stack) /\ ret' = s
    BY <1>2 DEF Exits
  <2>3. s \in Statuses \cup {"SKIPPED"} /\ s # None
    BY DEF Results, Statuses, Completed, None
  <2> QED
    BY <2>1, <2>2, <2>3
<1>4. /\ status'[n] = IF s # "SKIPPED" THEN s ELSE IF H = {n} THEN "IDLE" ELSE status[n]
      /\ Mem(n)' = m
      /\ Halted(H) \subseteq Below(n)
      /\ \A x \in Nodes : x # n /\ x \notin Halted(H) => Mem(x)' = Mem(x)
  <2>1. /\ status'[n] = IF s # "SKIPPED" THEN s ELSE IF H = {n} THEN "IDLE" ELSE status[n]
        /\ Mem(n)' = IF n \in DOMAIN mem THEN m ELSE Blank
        /\ Halted(H) \subseteq Below(n)
        /\ \A x \in Nodes : x # n /\ x \notin Halted(H) => Mem(x)' = Mem(x)
    BY <1>1, <1>2, <1>3, LeavesFrame
  <2> QED
    BY <1>2, <2>1
<1>5. \A x \in Nodes : x # n /\ n \in Below(x) => Mem(x)' = Mem(x)
  <2>1. \A x \in Nodes : x # n /\ n \in Below(x) => x \notin Below(n)
    BY <1>1, BelowFacts
  <2> QED
    BY <1>4, <2>1
<1>6. /\ \A x \in Nodes : Place(x)' = IF n \in ChildSet(x) THEN "back"
                                      ELSE IF n \in Below(x) /\ x # n THEN "waits" ELSE "out"
      /\ \A x \in Nodes : n \in ChildSet(x) => CurIdx(x, Mem(x)) \in DOMAIN Children(x)
      /\ \A x \in Nodes : Inside(x)' <=> n \in ChildSet(x)
      /\ stack' \in Seq(Nodes)
  <2>1. stack' = Front(stack) /\ ret' # None
    BY <1>3
  <2> QED
    BY <1>1, <1>5, <2>1, PlaceReturned, Pop
<1>7. n \notin ChildSet(n) /\ \A x \in Nodes : n \in ChildSet(x) => n \in Below(x) /\ x # n
  BY <1>1, BelowFacts
<1>8. n = Root => stack' = <<>>
  <2> SUFFICES ASSUME n = Root, stack' # <<>> PROVE FALSE
    OBVIOUS
  <2> DEFINE x == Last(stack')
  <2>1. Len(stack') >= 1 /\ stack'[Len(stack')] \in Nodes
    BY <1>6
  <2>2. PICK y : y = stack'[Len(stack')]
    OBVIOUS
  <2>3. y \in Nodes /\ Inside(y)'
    BY <2>1, <2>2 DEF Inside, Last
  <2>4. n \in ChildSet(y) /\ y \in Below(n)
    BY <1>1, <1>6, <2>3, TreeFacts
  <2> QED
    BY <1>1, <2>3, <2>4, BelowFacts
<1>9. /\ \A x \in Nodes : x # n =>
              DoneOK(x, Mem(x)', DoneIdx(x)', Inside(x)' /\ ret' \in Completed)
      /\ status'[Root] \in Completed => stack' = <<>> /\ ret' \in Completed
      /\ DoneIdx(n)' \subseteq DoneIdx(n) \ Index(n, H)
      /\ H = {n} => DoneIdx(n)' = {}
  <2>1. s \in Completed /\ status[n] \notin Completed =>
           /\ \A x \in Nodes : n \in ChildSet(x) => Inside(x)' /\ ret' \in Completed
           /\ n = Root => stack' = <<>> /\ ret' \in Completed
    BY <1>3, <1>6, <1>8
  <2> QED
    BY <1>1, <1>2, <1>3, <2>1, OthersDone
<1>10. StartedInv'
  <2>1. DoneIdx(n)' \subseteq Settled(n, m)
    <3>1. CASE H = {n}
      BY <1>9, <3>1
    <3>2. CASE H # {n}
      <4>1. DoneIdx(n) \ Index(n, H) \subseteq Settled(n, m)
        BY <1>2, <3>2 DEF DoneOK
      <4> QED
        BY <1>9, <4>1
    <3> QED
      BY <3>1, <3>2
  <2>2. DoneOK(n, Mem(n)', DoneIdx(n)', Inside(n)' /\ ret' \in Completed)
    BY <1>4, <2>1 DEF DoneOK
  <2>3. \A x \in Nodes : DoneOK(x, Mem(x)', DoneIdx(x)', Inside(x)' /\ ret' \in Completed)
    BY <1>9, <2>2
  <2>4. /\ Nodes' = Nodes /\ Root' = Root
        /\ \A x, m2, C, back : DoneOK(x, m2, C, back)' = DoneOK(x, m2, C, back)
    BY SameTree, SameHist
  <2> QED
    BY <1>9, <2>3, <2>4 DEF StartedInv
<1>11. Keeps
  <2> SUFFICES ASSUME NEW s0 \in Completed, Asked, Inside(X), Exits(s0), ~Preempt(X)
               PROVE  Promised(s0)
    BY DEF Keeps, Asked
  <2>1. X = n /\ s0 = s
    BY <1>3 DEF Inside, Exits
  <2>2. s \in Completed => Promised(s) \/ Preempt(n)
    BY <1>2, <2>1
  <2> QED
    BY <2>1, <2>2
<1>12. HistInv'
  <2>1. PICK y \in Nodes : X = y /\ X' = y
    BY <1>1, SameX
  <2>2. SUFFICES ASSUME Asked
                 PROVE  HistOK(y, status'[y], Mem(y)', Place(y)', s, got', tries')
    <3>1. (Asked => HistOK(y, status'[y], Mem(y)', Place(y)', ret', got', tries')) => HistInv'
      BY <1>1, <2>1, SameX
    <3>2. ret' = s
      BY <1>3
    <3> QED
      BY <3>1, <3>2
  <2>3. HistOK(y, status[y], Mem(y), Place(y), ret, got, tries)
    BY <2>1, <2>2 DEF HistInv
  <2>4. Kind(y) \in Controls \cup Decorators
    BY <2>1, <2>2 DEF Asked
  <2>5. /\ n \notin ChildSet(y) => got' = got /\ tries' = tries
        /\ n \in ChildSet(y) =>
             /\ got' = [got EXCEPT ![CurIdx(y, Mem(y))] = s]
             /\ tries' = IF Ended(s) THEN tries + 1 ELSE tries
    <3>1. stack' = Front(stack) /\ ret' # None /\ ret' = s
      BY <1>3
    <3>2. /\ n \notin ChildSet(X) => got' = got /\ tries' = tries
          /\ n \in ChildSet(X) =>
               /\ got' = [got EXCEPT ![CurIdx(X, Mem(X))] = ret']
               /\ tries' = IF Ended(ret') THEN tries + 1 ELSE tries
      BY <1>1, <1>5, <3>1, HistoryReturned
    <3>3. Ended(ret') <=> Ended(s)
      BY <3>1 DEF Ended
    <3> QED
      BY <2>1, <3>1, <3>2, <3>3
  <2>6. CASE y = n
    <3>1. got' = got /\ tries' = tries
      BY <1>7, <2>5, <2>6
    <3>2. Place(y)' = "out"
      BY <1>6, <1>7, <2>6
    <3>3. HistOK(n, status'[n], m, "out", s, got, tries)
      BY <1>2, <1>4, <2>1, <2>2, <2>6
    <3> QED
      BY <1>4, <2>6, <3>1, <3>2, <3>3
  <2>7. ASSUME y # n
        PROVE  /\ n \in Below(y) => status'[y] = status[y] /\ Mem(y)' = Mem(y)
               /\ \A r : HistOK(y, status'[y], Mem(y)', IF n \in Below(y) THEN "waits" ELSE "out",
                                r, got, tries)
    BY <1>1, <1>2, <1>3, <2>3, <2>7, HistAside
  <2>8. CASE y # n /\ n \notin ChildSet(y)
    <3>1. Place(y)' = IF n \in Below(y) THEN "waits" ELSE "out"
      BY <1>6, <2>8
    <3>2. HistOK(y, status'[y], Mem(y)', IF n \in Below(y) THEN "waits" ELSE "out",
                 s, got, tries)
      BY <2>7, <2>8
    <3> QED
      BY <2>5, <2>8, <3>1, <3>2
  <2>9. CASE n \in ChildSet(y)
    <3>1. y # n /\ n \in Below(y)
      BY <1>7, <2>9
    <3>2. status'[y] = status[y] /\ Mem(y)' = Mem(y)
      BY <2>7, <3>1
    <3>3. HistOK(y, status[y], Mem(y), "waits", s, got, tries)
      <4>1. HistOK(y, status'[y], Mem(y)', IF n \in Below(y) THEN "waits" ELSE "out", s, got, tries)
        BY <2>7, <3>1
      <4> QED
        BY <3>1, <3>2, <4>1
    <3>4. NodeOK(y, status[y], Mem(y), TRUE, LiveIdx(y), DoneIdx(y), FALSE)
      <4>1. Locked(y) /\ ~Inside(y)
        BY <1>1, <3>1, OnPath DEF Inside
      <4> QED
        BY <1>1, <4>1, NodeInvIs DEF TreeInv
    <3>5. Mem(y) \in MemType(y)
      BY <1>1, MemFacts
    <3>6. tries' = IF \/ Kind(y) = "Loop" /\ s # "RUNNING"
                      \/ Kind(y) \in {"Repeat", "Retry"} /\ Port("param", y) # -1 /\ s \in Completed
                      \/ Kind(y) = "RunOnce" /\ s \in Completed
                   THEN tries + 1 ELSE tries
      BY <2>1, <2>5, <2>9, Zenon DEF Ended
    <3>7. got' = [got EXCEPT ![CurIdx(y, Mem(y))] = s]
      BY <2>5, <2>9
    <3> DEFINE s2 == status[y]
               m2 == Mem(y)
               L2 == LiveIdx(y)
               C2 == DoneIdx(y)
    <3>8. /\ HistOK(y, s2, m2, "waits", s, got, tries) /\ NodeOK(y, s2, m2, TRUE, L2, C2, FALSE)
          /\ m2 \in MemType(y) /\ got' = [got EXCEPT ![CurIdx(y, m2)] = s]
      BY <3>3, <3>4, <3>5, <3>7
    <3> HIDE DEF s2, m2, L2, C2
    <3>9. HistOK(y, s2, m2, "back", s, got', tries')
      BY <1>1, <2>4, <3>6, <3>8, HistBack
    <3>10. Place(y)' = "back"
      BY <1>6, <2>9
    <3> QED
      BY <3>2, <3>9, <3>10 DEF s2, m2
  <2> QED
    BY <2>6, <2>8, <2>9
<1> QED
  BY <1>10, <1>11, <1>12

-----------------------------------------------------------------------------
(* What is left to prove of the node that is ticked                        *)

\* fresh does not matter.
LEMMA FreshHist ==
  ASSUME NEW n, NEW m \in MemType(n), NEW f
  PROVE  /\ Settled(n, [m EXCEPT !.fresh = f]) = Settled(n, m)
         /\ CurIdx(n, [m EXCEPT !.fresh = f]) = CurIdx(n, m)
         /\ \A s, p, r, g, t : HistOK(n, s, m, p, r, g, t)
                                 => HistOK(n, s, [m EXCEPT !.fresh = f], p, r, g, t)
<1> DEFINE m1 == [m EXCEPT !.fresh = f]
<1>1. /\ m1.idx = m.idx /\ m1.skips = m.skips /\ m1.count = m.count /\ m1.done = m.done
      /\ m1.on = m.on /\ m1.hit = m.hit
  BY DEF MemType
<1> HIDE DEF m1
<1>2. Settled(n, m1) = Settled(n, m)
  BY <1>1 DEF Settled
<1>3. CurIdx(n, m1) = CurIdx(n, m)
  BY <1>1 DEF CurIdx
<1>4. ASSUME NEW s, NEW p, NEW r, NEW g, NEW t, HistOK(n, s, m, p, r, g, t)
      PROVE  HistOK(n, s, m1, p, r, g, t)
  <2>1. /\ OrderedHist(n, s, m1, p, g) <=> OrderedHist(n, s, m, p, g)
        /\ ReactiveHist(n, m1, p, g) <=> ReactiveHist(n, m, p, g)
        /\ BranchHist(n, s, m1, p, g) <=> BranchHist(n, s, m, p, g)
        /\ LoopHist(n, s, m1, p, r, t) <=> LoopHist(n, s, m, p, r, t)
        /\ QueueHist(n, s, m1, p, r, t) <=> QueueHist(n, s, m, p, r, t)
    BY <1>1 DEF OrderedHist, ReactiveHist, BranchHist, LoopHist, QueueHist
  <2>2. ParallelHist(n, s, m1, p, g) <=> ParallelHist(n, s, m, p, g)
    BY <1>1 DEF ParallelHist, Told
  <2> QED
    BY <1>1, <1>3, <1>4, <2>1, <2>2 DEF HistOK
<1> QED
  BY <1>2, <1>3, <1>4 DEF m1

\* tick() of n goes on to a child.
LEMMA ContinuesIs ==
  ASSUME NEW n, NEW s \in Statuses, NEW m \in MemType(n), NEW H \in SUBSET ChildSet(n),
         NEW i \in DOMAIN Children(n), Call(n, s, m, H, i), CurIdx(n, m) = i,
         n \notin DOMAIN mem => m = Blank, s \in Completed => status[n] \in Completed,
         DoneIdx(n) \ Index(n, H) \subseteq Settled(n, m),
         n = X /\ Asked => HistOK(n, s, m, "waits", None, got, tries)
  PROVE  Continues(n)
<1>1. DoneOK(n, m, DoneIdx(n) \ Index(n, H), FALSE)
  BY DEF DoneOK
<1>2. Leaves(n, s, m, H) /\ Calls(n, i)
  BY DEF Call
<1> QED
  BY <1>1, <1>2 DEF Continues

\* tick() of n returns.
LEMMA AnswersLeaves ==
  ASSUME tree \in DOMAIN Forest, NEW n \in Nodes,
         NEW s \in Results, NEW m \in MemType(n), NEW H \in SUBSET ChildSet(n),
         Leaves(n, s, m, H), Exits(s), n \notin DOMAIN mem => m = Blank,
         DoneIdx(n) \ Index(n, H) \subseteq Settled(n, m),
         n = X /\ Asked =>
           /\ HistOK(n, IF s = "SKIPPED" THEN status[n] ELSE s, m, "out", s, got, tries)
           /\ s \in Completed => Promised(s)
  PROVE  Answers(n)
<1>1. H # {n}
  <2>1. n \notin ChildSet(n)
    BY BelowFacts, TreeFacts
  <2> QED
    BY <2>1
<1>2. DoneOK(n, m, DoneIdx(n) \ Index(n, H), FALSE)
  BY DEF DoneOK
<1>3. (IF s # "SKIPPED" THEN s ELSE IF H = {n} THEN "IDLE" ELSE status[n])
      = IF s = "SKIPPED" THEN status[n] ELSE s
  BY <1>1
<1>4. n = X /\ Asked =>
         /\ HistOK(n, IF s # "SKIPPED" THEN s ELSE IF H = {n} THEN "IDLE" ELSE status[n], m,
                   "out", s, got, tries)
         /\ s \in Completed => Promised(s) \/ Preempt(n)
  BY <1>3, Zenon
<1> QED
  BY <1>1, <1>2, <1>4 DEF Answers

\* The same of Return(), which clears fresh.
LEMMA AnswersIs ==
  ASSUME tree \in DOMAIN Forest, NEW n \in Nodes,
         NEW s \in Results, NEW m \in MemType(n), NEW H \in SUBSET ChildSet(n),
         Return(n, s, m, H), n \notin DOMAIN mem => m = Blank,
         DoneIdx(n) \ Index(n, H) \subseteq Settled(n, m),
         n = X /\ Asked =>
           /\ HistOK(n, IF s = "SKIPPED" THEN status[n] ELSE s, m, "out", s, got, tries)
           /\ s \in Completed => Promised(s)
  PROVE  Answers(n)
<1> DEFINE m1 == [m EXCEPT !.fresh = FALSE]
<1>1. Leaves(n, s, m1, H) /\ Exits(s)
  BY Zenon DEF Return
<1>2. m1 \in MemType(n)
  BY DEF MemType
<1>3. n \notin DOMAIN mem => m1 = Blank
  <2>1. ASSUME m = Blank PROVE m1 = Blank
    <3>1. /\ m1.idx = 1 /\ m1.skips = 0 /\ m1.count = 0 /\ m1.done = {}
          /\ ~m1.on /\ ~m1.hit /\ ~m1.fresh
      BY <2>1 DEF Blank
    <3> HIDE DEF m1
    <3> QED
      BY <1>2, <3>1, BlankBut
  <2> QED
    BY <2>1
<1>4. Settled(n, m1) = Settled(n, m)
  BY FreshHist
<1>5. n = X /\ Asked =>
        /\ HistOK(n, IF s = "SKIPPED" THEN status[n] ELSE s, m1, "out", s, got, tries)
        /\ s \in Completed => Promised(s)
  BY FreshHist
<1> HIDE DEF m1
<1> QED
  BY <1>1, <1>2, <1>3, <1>4, <1>5, AnswersLeaves

\* What is known of the results of the children of n, and of the history of X.
LEMMA ToldHere ==
  ASSUME IInv, StartedInv, HistInv, NEW n, Inside(n)
  PROVE  /\ DoneIdx(n) \subseteq
              Settled(n, Mem(n)) \cup (IF ret \in Completed THEN {CurIdx(n, Mem(n))} ELSE {})
         /\ n = X /\ Asked =>
              /\ HistOK(n, status[n], Mem(n), IF ret = None THEN "entered" ELSE "back",
                        ret, got, tries)
              /\ ret = None => status[n] \in {"IDLE", "RUNNING"}
         /\ n = X => /\ \A i : Passed(i) <=> Passes(n, got, i)
                     /\ \A i : Decided(i) <=> Decides(n, got, i)
<1>1. TypeOK /\ TreeInv /\ n \in Nodes
  BY Here
<1>2. DoneOK(n, Mem(n), DoneIdx(n), Inside(n) /\ ret \in Completed)
  BY <1>1 DEF StartedInv
<1>3. DoneIdx(n) \subseteq
              Settled(n, Mem(n)) \cup (IF ret \in Completed THEN {CurIdx(n, Mem(n))} ELSE {})
  BY <1>2 DEF DoneOK
<1>4. Place(n) = IF ret = None THEN "entered" ELSE "back"
  BY <1>1, PlaceFacts
<1>5. n = X /\ Asked =>
        HistOK(n, status[n], Mem(n), IF ret = None THEN "entered" ELSE "back", ret, got, tries)
  BY <1>4 DEF HistInv
<1>6. n = X /\ Asked /\ ret = None => status[n] \in {"IDLE", "RUNNING"}
  BY <1>1, Started DEF StartedOrGoesOn, Asked
<1>7. n = X => \A i : Passed(i) <=> Passes(n, got, i)
  BY DEF Passed, Passes
<1>8. n = X => \A i : Decided(i) <=> Decides(n, got, i)
  BY <1>7 DEF Decided, Decides
<1> QED
  BY <1>3, <1>5, <1>6, <1>7, <1>8

-----------------------------------------------------------------------------
(* Control nodes                                                           *)

\* What a Sequence or Fallback, or a relative of theirs, or a reactive one may return.
LEMMA PromisedPass ==
  ASSUME Kind(X) \in Ordered \cup Reactives, NEW s \in Completed,
         IF s = Pass(X)
         THEN Passed(LastTry(X)) /\ (Kind(X) # "SequenceWithMemory" => \E i \in 1 .. N(X) : got[i] = s)
         ELSE Decided(LastTry(X)),
         Kind(X) = "TryCatch" => ((got[N(X)] \in {None, "RUNNING"}) <=> (s = "SUCCESS"))
  PROVE  Promised(s)
<1>1. /\ Kind(X) \notin {"Parallel", "ParallelAll", "IfThenElse", "WhileDoElse", "Switch",
                         "Inverter", "ForceSuccess", "ForceFailure", "KeepRunning", "Loop",
                         "RunOnce", "Precondition", "Updated", "Timeout"}
      /\ Kind(X) \notin Loops
  BY Kinds
<1>2. (IF s = Pass(X)
       THEN /\ Passed(LastTry(X))
            /\ Kind(X) # "SequenceWithMemory" => \E i \in 1 .. N(X) : got[i] = s
       ELSE Decided(LastTry(X)))
      /\ (Kind(X) = "TryCatch" => (got[N(X)] \in {None, "RUNNING"}) = (s = "SUCCESS"))
  OBVIOUS
<1> QED
  BY <1>1, <1>2, Zenon DEF Promised

\* Sequence and Fallback, and their relatives.
LEMMA OrderedTold ==
  ASSUME IInv, StartedInv, HistInv, NEW n, Inside(n), OrderedStep(n)
  PROVE  Continues(n) \/ Answers(n)
<1> DEFINE m == mem[n]
           L == LiveIdx(n)
           C == DoneIdx(n)
           last == LastTry(n)
           told == n = X /\ Asked
           Hist(s, m2, p) == OrderedHist(n, s, m2, p, got)
<1>1. /\ n \in Nodes /\ tree \in DOMAIN Forest /\ ret \in Results \cup {None}
      /\ status[n] \in Statuses /\ C \subseteq DOMAIN Children(n) /\ TypeOK
  BY Here
<1>2. Kind(n) \in Ordered
  BY DEF OrderedStep, OrderedTick, OrderedRunning, OrderedStop, OrderedPass, OrderedSkip,
         OrderedEnd, OrderedCaught, Entered, Back
<1>3. n \in DOMAIN mem /\ Mem(n) = m /\ m \in MemType(n)
  BY <1>2, Here DEF Ordered, WithMem, Timed, Sequences_, Fallbacks
<1>4. /\ DOMAIN Children(n) = 1 .. N(n) /\ N(n) \in Nat /\ N(n) >= 1
      /\ Kind(n) = "TryCatch" => N(n) >= 2
  <2>1. Kind(n) \in Controls
    BY <1>2 DEF Controls
  <2> QED
    BY <1>1, <2>1, ArityFacts
<1>5. last \in 1 .. N(n) /\ (Kind(n) = "TryCatch" => last = N(n) - 1)
      /\ (Kind(n) # "TryCatch" => last = N(n))
  BY <1>4 DEF LastTry
<1>6. /\ m.idx \in 1 .. N(n) /\ m.skips \in Nat /\ m.on \in BOOLEAN
  BY <1>3, <1>4 DEF MemType
<1>7. \A m2 : /\ CurIdx(n, m2) = IF Kind(n) = "TryCatch" /\ m2.on THEN N(n) ELSE m2.idx
              /\ Settled(n, m2) = IF Kind(n) = "TryCatch" /\ m2.on THEN {} ELSE 1 .. m2.idx - 1
  <2>1. Kind(n) \notin Parallels \cup {"IfThenElse", "WhileDoElse"}
    BY <1>2, Kinds
  <2> QED
    BY <1>2, <2>1 DEF CurIdx, Settled, Controls
<1>8. /\ Index(n, {}) = {} /\ Index(n, ChildSet(n)) = DOMAIN Children(n)
      /\ \A a \in Int : \A j \in DOMAIN Children(n) :
              j >= a => j \in Index(n, {Child(n, i) : i \in a .. N(n)})
      /\ \A a \in Nat \ {0} : {Child(n, i) : i \in a .. N(n)} \subseteq ChildSet(n)
  BY <1>1, IndexFacts
<1>9. C \subseteq Settled(n, m) \cup (IF ret \in Completed THEN {CurIdx(n, m)} ELSE {})
  BY <1>3, ToldHere
<1>10. told => HistOK(n, status[n], m, IF ret = None THEN "entered" ELSE "back", ret, got, tries)
  BY <1>3, ToldHere
<1>11. told => got \in [1 .. N(n) -> Results \cup {None}] /\ tries \in Nat
  BY <1>4, <1>10 DEF HistOK
<1>12. told => Hist(status[n], m, IF ret = None THEN "entered" ELSE "back")
  BY <1>2, <1>10, Zenon DEF HistOK
<1>13. ret # None => OrderedOK(n, status[n], m, TRUE, L, C) /\ status[n] = "RUNNING"
  <2>1. ASSUME ret # None
        PROVE  \/ NodeOK(n, status[n], m, TRUE, L, C, TRUE)
               \/ NodeOK(n, status[n], m, TRUE, L, C, FALSE)
    BY <1>3, <2>1, Here
  <2> QED
    BY <1>2, <2>1 DEF NodeOK, OrderedOK
<1>14. told /\ ret # None => got[CurIdx(n, m)] = ret
  <2>1. ASSUME told, ret # None PROVE HistOK(n, status[n], m, "back", ret, got, tries)
    BY <1>10, <2>1, Zenon
  <2> QED
    BY <2>1 DEF HistOK
<1>15. ASSUME told, NEW s, NEW m2, NEW p \in {"waits", "out"}, NEW r, Hist(s, m2, p)
       PROVE  HistOK(n, s, m2, p, r, got, tries)
  <2>1. /\ Kind(n) \notin Reactives \cup Parallels \cup {"IfThenElse", "WhileDoElse", "Switch"}
        /\ Kind(n) \notin Loops \cup {"Loop", "RunOnce", "Precondition", "Updated", "Timeout"}
    BY <1>2, Kinds
  <2>2. got \in [DOMAIN Children(n) -> Results \cup {None}] /\ tries \in Nat
    BY <1>4, <1>11, <1>15
  <2> QED
    BY <1>15, <2>1, <2>2 DEF HistOK
<1>16. told => /\ \A i : Passed(i) <=> Passes(n, got, i)
               /\ \A i : Decided(i) <=> Decides(n, got, i)
  BY ToldHere
<1>17. Stop(n) \in {"SUCCESS", "FAILURE"} /\ Pass(n) = (IF Stop(n) = "SUCCESS" THEN "FAILURE" ELSE "SUCCESS")
       /\ Pass(n) \in {"SUCCESS", "FAILURE"}
       /\ (Kind(n) = "TryCatch" => Stop(n) = "FAILURE")
  BY DEF Stop, Pass, Fallbacks
<1> HIDE DEF m, L, C, last, Hist, told
<1>18. ASSUME NEW m0 \in MemType(n), NEW i \in 1 .. N(n), CallNext(n, m0, i),
              IF m0.on THEN Kind(n) = "TryCatch" /\ i = N(n) ELSE C \subseteq 1 .. i - 1,
              m0.on => C = {},
              told => Hist("RUNNING", At(m0, i), "waits")
       PROVE  Continues(n)
  <2>1. PICK f \in BOOLEAN : Call(n, "RUNNING", [At(m0, i) EXCEPT !.fresh = f], {}, i)
    BY <1>18, Zenon DEF CallNext
  <2>2. At(m0, i) \in MemType(n) /\ At(m0, i).idx = i /\ At(m0, i).on = m0.on
    BY <1>4 DEF At, MemType
  <2> DEFINE m1 == [At(m0, i) EXCEPT !.fresh = f]
  <2>3. m1 \in MemType(n) /\ m1.idx = i /\ m1.on = m0.on
    BY <1>4 DEF At, MemType
  <2>4. told => HistOK(n, "RUNNING", m1, "waits", None, got, tries)
    <3>1. told => HistOK(n, "RUNNING", At(m0, i), "waits", None, got, tries)
      BY <1>15, <1>18
    <3> QED
      BY <2>2, <3>1, FreshHist
  <2>5. Call(n, "RUNNING", m1, {}, i)
    BY <2>1
  <2> HIDE DEF m1
  <2>6. CurIdx(n, m1) = i
    BY <1>7, <1>18, <2>3
  <2>7. C \ Index(n, {}) \subseteq Settled(n, m1)
    BY <1>7, <1>8, <1>18, <2>3
  <2>8. "RUNNING" \in Statuses /\ "RUNNING" \notin Completed /\ i \in DOMAIN Children(n)
        /\ {} \in SUBSET ChildSet(n)
    BY <1>4 DEF Statuses, Completed
  <2> QED
    BY <1>3, <2>3, <2>4, <2>5, <2>6, <2>7, <2>8, ContinuesIs DEF C, told
<1>19. ASSUME NEW s \in Results, NEW m0 \in MemType(n), NEW H \in SUBSET ChildSet(n),
              Return(n, s, m0, H), C \ Index(n, H) \subseteq Settled(n, m0),
              told => Hist(IF s = "SKIPPED" THEN status[n] ELSE s, m0, "out"),
              told /\ s \in Completed => Promised(s)
       PROVE  Answers(n)
  <2>1. told => HistOK(n, IF s = "SKIPPED" THEN status[n] ELSE s, m0, "out", s, got, tries)
    BY <1>15, <1>19
  <2> QED
    BY <1>1, <1>3, <1>19, <2>1, AnswersIs DEF C, told
<1>20. "RUNNING" \in Results /\ "SKIPPED" \in Results /\ "FAILURE" \in Results /\ {} \in SUBSET ChildSet(n)
       /\ Stop(n) \in Results /\ Pass(n) \in Results /\ Completed = {"SUCCESS", "FAILURE"}
  BY <1>17 DEF Results, Completed
<1>21. ASSUME told, NEW s \in Completed,
              IF s = Pass(n)
              THEN /\ Passes(n, got, last)
                   /\ Kind(n) # "SequenceWithMemory" => \E i \in 1 .. N(n) : got[i] = s
              ELSE Decides(n, got, last),
              Kind(n) = "TryCatch" => ((got[N(n)] \in {None, "RUNNING"}) <=> (s = "SUCCESS"))
       PROVE  Promised(s)
  BY <1>2, <1>16, <1>21, PromisedPass DEF told, last
\* The children before the current one have passed, and none after it was ticked.
<1>22. ASSUME told, ret # None, ~m.on
       PROVE  /\ m.idx <= last /\ Passes(n, got, m.idx - 1) /\ got[m.idx] = ret
              /\ \A j \in m.idx + 1 .. N(n) : got[j] = None
              /\ m.skips <= Cardinality(Skips(got, m.idx - 1))
              /\ Kind(n) # "SequenceWithMemory" => m.skips = Cardinality(Skips(got, m.idx - 1))
  <2>1. Hist(status[n], m, "back") /\ status[n] = "RUNNING"
    BY <1>12, <1>13, <1>22
  <2>2. got[m.idx] = ret
    BY <1>7, <1>14, <1>22
  <2> QED
    BY <1>22, <2>1, <2>2 DEF Hist, OrderedHist, last
<1>23. \A i \in Nat : i >= 1 /\ Passes(n, got, i - 1) /\ got[i] \in {Pass(n), "SKIPPED"} => Passes(n, got, i)
  BY DEF Passes
<1>24. \A i \in Nat : i >= 1 => /\ IsFiniteSet(Skips(got, i - 1)) /\ Cardinality(Skips(got, i - 1)) \in 0 .. i - 1
                                /\ Cardinality(Skips(got, i)) = Cardinality(Skips(got, i - 1))
                                                              + (IF got[i] = "SKIPPED" THEN 1 ELSE 0)
  <2> TAKE i \in Nat
  <2> HAVE i >= 1
  <2> DEFINE k == i - 1
  <2>1. k \in Nat /\ k + 1 = i
    OBVIOUS
  <2> HIDE DEF k
  <2>2. /\ IsFiniteSet(Skips(got, k)) /\ Cardinality(Skips(got, k)) \in 0 .. k
        /\ Cardinality(Skips(got, k + 1)) = Cardinality(Skips(got, k))
                                          + (IF got[k + 1] = "SKIPPED" THEN 1 ELSE 0)
    BY <2>1, SkipsFacts
  <2> QED
    BY <2>1, <2>2 DEF k
<1>25. CASE OrderedTick(n)
  <2> DEFINE m0 == IF status[n] # "IDLE" THEN m ELSE [m EXCEPT !.skips = 0, !.on = FALSE]
             i  == IF m0.on THEN N(n) ELSE m0.idx
  <2>1. CallNext(n, m0, i) /\ ret = None
    BY <1>25 DEF OrderedTick, Entered, m
  <2>2. NodeOK(n, status[n], m, FALSE, L, C, FALSE)
    BY <1>3, <2>1, Here DEF L, C
  <2>3. OrderedOK(n, status[n], m, FALSE, L, C)
    BY <1>2, <2>2 DEF NodeOK
  <2>4. /\ m0 \in MemType(n) /\ m0.idx = m.idx /\ (m0.on => m.on)
        /\ (status[n] # "IDLE" => m0 = m)
        /\ (status[n] = "IDLE" => m0.skips = 0 /\ ~m0.on)
    BY <1>3 DEF MemType
  <2> HIDE DEF m0
  <2>5. i \in 1 .. N(n)
    BY <1>4, <1>6, <2>4
  <2>6. m0.on => Kind(n) = "TryCatch" /\ i = N(n)
    BY <2>3, <2>4 DEF OrderedOK
  <2>7. C \subseteq Settled(n, m)
    BY <1>9, <2>1 DEF None, Completed
  <2>8. IF m0.on THEN Kind(n) = "TryCatch" /\ i = N(n) ELSE C \subseteq 1 .. i - 1
    <3>1. ~m0.on => C \subseteq 1 .. m.idx - 1
      BY <1>7, <2>4, <2>7
    <3> QED
      BY <2>4, <2>6, <3>1
  <2>9. m0.on => C = {}
    BY <1>7, <2>4, <2>6, <2>7
  <2>10. At(m0, i).idx = i /\ At(m0, i).on = m0.on /\ At(m0, i).skips = m0.skips
    BY <2>4 DEF At, MemType
  <2>11. ASSUME told
         PROVE  Hist("RUNNING", At(m0, i), "waits")
    <3>1. Hist(status[n], m, "entered") /\ status[n] \in {"IDLE", "RUNNING"}
      BY <1>12, <2>1, <2>11, ToldHere DEF told
    <3> DEFINE m1 == At(m0, i)
    <3>2. m1.idx = i /\ m1.on = m0.on /\ m1.skips = m0.skips
      BY <2>10
    <3> HIDE DEF m1
    <3>3. ASSUME status[n] = "RUNNING", ~m.on PROVE Hist("RUNNING", m1, "waits")
      <4>1. m1.idx = m.idx /\ ~m1.on /\ m1.skips = m.skips
        BY <2>4, <3>2, <3>3
      <4> QED
        BY <3>1, <3>3, <4>1 DEF Hist, OrderedHist
    <3>4. ASSUME status[n] = "RUNNING", m.on PROVE Hist("RUNNING", m1, "waits")
      <4>1. m1.on
        BY <2>4, <3>2, <3>4
      <4> QED
        BY <3>1, <3>4, <4>1 DEF Hist, OrderedHist
    <3>5. ASSUME status[n] = "IDLE", Kind(n) = "SequenceWithMemory" PROVE Hist("RUNNING", m1, "waits")
      <4>1. m1.idx = m.idx /\ ~m1.on /\ m1.skips = 0 /\ ~m.on
        BY <2>3, <2>4, <3>2, <3>5 DEF OrderedOK
      <4>2. 0 <= Cardinality(Skips(got, m.idx - 1))
        BY <1>6, <1>24
      <4> QED
        BY <3>1, <3>5, <4>1, <4>2 DEF Hist, OrderedHist
    <3>6. ASSUME status[n] = "IDLE", Kind(n) # "SequenceWithMemory" PROVE Hist("RUNNING", m1, "waits")
      <4>1. m.idx = 1 /\ m1.idx = 1 /\ ~m1.on /\ m1.skips = 0
        BY <2>3, <2>4, <3>2, <3>6 DEF OrderedOK
      <4>2. \A j \in DOMAIN Children(n) : got[j] = None
        <5>1. HistOK(n, status[n], m, "entered", ret, got, tries)
          BY <1>10, <2>1, <2>11
        <5>2. Kind(n) # "RunOnce"
          BY <1>2, Kinds
        <5> QED
          BY <3>6, <5>1, <5>2 DEF HistOK
      <4>3. Passes(n, got, 0) /\ Cardinality(Skips(got, 0)) = 0
        BY SkipsFacts DEF Passes
      <4>4. \A j \in m1.idx + 1 .. N(n) : got[j] = None
        BY <1>4, <4>1, <4>2
      <4>5. m1.idx - 1 = 0 /\ m1.idx <= last
        BY <1>5, <4>1
      <4> QED
        BY <4>1, <4>3, <4>4, <4>5 DEF Hist, OrderedHist, last
    <3> QED
      BY <3>1, <3>3, <3>4, <3>5, <3>6 DEF m1
  <2> QED
    BY <1>18, <2>1, <2>4, <2>5, <2>8, <2>9, <2>11
<1>26. CASE OrderedRunning(n)
  <2>1. Return(n, "RUNNING", m, {}) /\ ret = "RUNNING" /\ ret # None
    BY <1>26 DEF OrderedRunning, Back, m
  <2>2. C \ Index(n, {}) \subseteq Settled(n, m)
    BY <1>9, <2>1, <1>20
  <2>3. ASSUME told PROVE Hist("RUNNING", m, "out")
    <3>1. Hist("RUNNING", m, "back")
      BY <1>12, <1>13, <2>1, <2>3
    <3>2. ~m.on => got[m.idx] = "RUNNING"
      BY <1>22, <2>1, <2>3
    <3> QED
      BY <1>17, <3>1, <3>2 DEF Hist, OrderedHist
  <2> QED
    BY <1>3, <1>19, <1>20, <2>1, <2>2, <2>3
<1>27. CASE OrderedStop(n)
  <2>1. /\ ret = Stop(n) /\ ret # None /\ ~m.on
        /\ CASE Kind(n) = "SequenceWithMemory" ->
                 Return(n, Stop(n), m, {Child(n, j) : j \in m.idx .. N(n)})
             [] Kind(n) = "TryCatch" ->
                 Call(n, "RUNNING", [At(m, 1) EXCEPT !.on = TRUE], ChildSet(n), N(n))
             [] OTHER ->
                 Return(n, Stop(n), At(m, 1), ChildSet(n))
    BY <1>27 DEF OrderedStop, Back, m
  <2>2. C \subseteq 1 .. m.idx
    BY <1>6, <1>7, <1>9, <2>1
  <2>3. ASSUME told PROVE Decides(n, got, last)
    <3>1. /\ m.idx <= last /\ got[m.idx] = Stop(n) /\ Passes(n, got, m.idx - 1)
          /\ \A j \in m.idx + 1 .. N(n) : got[j] = None
      BY <1>22, <2>1, <2>3
    <3>2. m.idx \in 1 .. last /\ last \in 1 .. N(n)
      BY <1>5, <1>6, <3>1
    <3>3. \A j \in m.idx + 1 .. last : j \in m.idx + 1 .. N(n)
      BY <1>4, <1>6, <3>2
    <3> QED
      BY <3>1, <3>2, <3>3 DEF Decides
  <2>4. ASSUME told, Kind(n) # "TryCatch" PROVE Promised(Stop(n))
    BY <1>17, <1>20, <1>21, <2>3, <2>4
  <2>5. CASE Kind(n) = "SequenceWithMemory"
    <3>1. Return(n, Stop(n), m, {Child(n, j) : j \in m.idx .. N(n)})
      BY <2>1, <2>5
    <3>2. {Child(n, j) : j \in m.idx .. N(n)} \in SUBSET ChildSet(n)
      BY <1>8, <1>6
    <3>3. C \ Index(n, {Child(n, j) : j \in m.idx .. N(n)}) \subseteq Settled(n, m)
      <4>1. \A j \in C : j \in 1 .. m.idx /\ j \in DOMAIN Children(n)
        BY <1>1, <2>2 DEF C
      <4>2. \A j \in C : j >= m.idx => j \in Index(n, {Child(n, k) : k \in m.idx .. N(n)})
        BY <1>6, <1>8, <4>1
      <4>3. Settled(n, m) = 1 .. m.idx - 1
        BY <1>7, <2>5
      <4>4. \A j \in C : j < m.idx => j \in Settled(n, m)
        BY <1>6, <4>1, <4>3
      <4>5. \A j \in C : j >= m.idx \/ j < m.idx
        BY <1>6, <4>1
      <4> QED
        BY <4>2, <4>4, <4>5
    <3>4. ASSUME told PROVE Hist(Stop(n), m, "out")
      <4>1. /\ m.idx <= last /\ Passes(n, got, m.idx - 1) /\ got[m.idx] = ret
            /\ \A j \in m.idx + 1 .. N(n) : got[j] = None
            /\ m.skips <= Cardinality(Skips(got, m.idx - 1))
        BY <1>22, <2>1, <3>4
      <4> QED
        BY <1>17, <2>1, <2>5, <4>1 DEF Hist, OrderedHist, last
    <3>5. Stop(n) # "SKIPPED"
      BY <1>17
    <3> QED
      BY <1>3, <1>19, <1>20, <2>4, <2>5, <3>1, <3>2, <3>3, <3>4, <3>5
  <2>6. CASE Kind(n) = "TryCatch"
    <3> DEFINE m1 == [At(m, 1) EXCEPT !.on = TRUE]
    <3>1. Call(n, "RUNNING", m1, ChildSet(n), N(n))
      BY <2>1, <2>6
    <3>2. m1 \in MemType(n) /\ m1.on /\ m1.idx = 1
      BY <1>3 DEF At, MemType
    <3> HIDE DEF m1
    <3>3. CurIdx(n, m1) = N(n) /\ N(n) \in DOMAIN Children(n)
      BY <1>4, <1>7, <2>6, <3>2
    <3>4. told => HistOK(n, "RUNNING", m1, "waits", None, got, tries)
      <4>1. told => Hist("RUNNING", m1, "waits")
        BY <2>3, <2>6, <3>2 DEF Hist, OrderedHist, last
      <4> QED
        BY <1>15, <4>1
    <3>5. C \ Index(n, ChildSet(n)) \subseteq Settled(n, m1)
      BY <1>1, <1>8
    <3>6. "RUNNING" \in Statuses /\ "RUNNING" \notin Completed
      BY DEF Statuses, Completed
    <3> QED
      BY <1>3, <3>1, <3>2, <3>3, <3>4, <3>5, <3>6, ContinuesIs DEF C, told
  <2>7. CASE Kind(n) # "SequenceWithMemory" /\ Kind(n) # "TryCatch"
    <3>1. Return(n, Stop(n), At(m, 1), ChildSet(n))
      BY <2>1, <2>7
    <3>2. At(m, 1) \in MemType(n)
      BY <1>3 DEF At, MemType
    <3>3. Hist(Stop(n), At(m, 1), "out") /\ Stop(n) # "SKIPPED"
      BY <1>17, <2>7 DEF Hist, OrderedHist
    <3>4. C \ Index(n, ChildSet(n)) \subseteq Settled(n, At(m, 1))
      BY <1>1, <1>8
    <3> QED
      BY <1>19, <1>20, <2>4, <2>7, <3>1, <3>2, <3>3, <3>4
  <2> QED
    BY <2>5, <2>6, <2>7
\* The next child has its turn.
<1>28. ASSUME ret \in {Pass(n), "SKIPPED"}, ret # None, ~m.on, m.idx < last, NEW f \in MemType(n),
              f.idx = m.idx, f.on = m.on, f.skips = m.skips + (IF ret = "SKIPPED" THEN 1 ELSE 0)
       PROVE  /\ m.idx + 1 \in 1 .. N(n) /\ C \subseteq 1 .. m.idx
              /\ \A p \in {"waits", "out"} : told => Hist("RUNNING", At(f, m.idx + 1), p)
  <2>1. m.idx + 1 \in 1 .. N(n) /\ m.idx + 1 <= last /\ m.idx + 1 \in 1 .. last
    BY <1>4, <1>5, <1>6, <1>28
  <2>2. C \subseteq 1 .. m.idx
    BY <1>6, <1>7, <1>9, <1>28
  <2>3. ASSUME told, NEW p \in {"waits", "out"}
        PROVE  Hist("RUNNING", At(f, m.idx + 1), p)
    <3> DEFINE m1 == At(f, m.idx + 1)
    <3>1. m1.idx = m.idx + 1 /\ ~m1.on /\ m1.skips = f.skips
      BY <1>28 DEF At, MemType
    <3> HIDE DEF m1
    <3>2. /\ Passes(n, got, m.idx - 1) /\ got[m.idx] = ret
          /\ \A j \in m.idx + 1 .. N(n) : got[j] = None
          /\ m.skips <= Cardinality(Skips(got, m.idx - 1))
          /\ Kind(n) # "SequenceWithMemory" => m.skips = Cardinality(Skips(got, m.idx - 1))
      BY <1>22, <1>28, <2>3
    <3>3. Passes(n, got, m1.idx - 1)
      <4>1. Passes(n, got, m.idx) /\ m1.idx - 1 = m.idx
        BY <1>6, <1>23, <1>28, <3>1, <3>2
      <4> QED
        BY <4>1
    <3>4. \A j \in m1.idx + 1 .. N(n) : got[j] = None
      BY <1>6, <3>1, <3>2
    <3>5. got[m1.idx] = None
      BY <1>6, <2>1, <3>1, <3>2
    <3>6. /\ m1.skips <= Cardinality(Skips(got, m1.idx - 1))
          /\ Kind(n) # "SequenceWithMemory" => m1.skips = Cardinality(Skips(got, m1.idx - 1))
      <4>1. Cardinality(Skips(got, m.idx)) = Cardinality(Skips(got, m.idx - 1))
                                           + (IF ret = "SKIPPED" THEN 1 ELSE 0)
        BY <1>6, <1>24, <3>2
      <4>2. m1.idx - 1 = m.idx /\ Cardinality(Skips(got, m.idx - 1)) \in Int
        BY <1>6, <1>24, <3>1
      <4> QED
        BY <1>6, <1>28, <3>1, <3>2, <4>1, <4>2
    <3>7. None \notin {Pass(n), "SKIPPED"}
      BY <1>17 DEF None
    <3>8. Hist("RUNNING", m1, p)
      BY <2>1, <3>1, <3>3, <3>4, <3>5, <3>6, <3>7 DEF Hist, OrderedHist, last
    <3> QED
      BY <3>8 DEF m1
  <2> QED
    BY <2>1, <2>2, <2>3
<1>29. CASE OrderedPass(n)
  <2>1. /\ ret = Pass(n) /\ ret # None /\ ~m.on /\ m.idx < last
        /\ IF m.fresh THEN Return(n, "RUNNING", At(m, m.idx + 1), {})
           ELSE CallNext(n, m, m.idx + 1)
    BY <1>29 DEF OrderedPass, Back, m, last
  <2>2. m.skips = m.skips + (IF ret = "SKIPPED" THEN 1 ELSE 0)
    BY <1>6, <1>17, <2>1
  <2>3. /\ m.idx + 1 \in 1 .. N(n) /\ C \subseteq 1 .. m.idx
        /\ \A p \in {"waits", "out"} : told => Hist("RUNNING", At(m, m.idx + 1), p)
    BY <1>3, <1>28, <2>1, <2>2
  <2>4. (m.idx + 1) - 1 = m.idx
    BY <1>6
  <2>5. CASE m.fresh
    <3>1. At(m, m.idx + 1) \in MemType(n) /\ At(m, m.idx + 1).idx = m.idx + 1 /\ ~At(m, m.idx + 1).on
      BY <1>3, <1>4, <2>1, <2>3 DEF At, MemType
    <3>2. C \ Index(n, {}) \subseteq Settled(n, At(m, m.idx + 1))
      BY <1>7, <1>8, <2>3, <2>4, <3>1
    <3> QED
      BY <1>19, <1>20, <2>1, <2>3, <2>5, <3>1, <3>2
  <2>6. CASE ~m.fresh
    BY <1>3, <1>18, <2>1, <2>3, <2>4, <2>6
  <2> QED
    BY <2>5, <2>6
<1>30. CASE OrderedSkip(n)
  <2> DEFINE m0 == [m EXCEPT !.skips = @ + 1]
  <2>1. ret = "SKIPPED" /\ ret # None /\ ~m.on /\ m.idx < last /\ CallNext(n, m0, m.idx + 1)
    BY <1>30 DEF OrderedSkip, Back, m, last
  <2>2. m0 \in MemType(n) /\ m0.on = m.on /\ m0.idx = m.idx /\ m0.skips = m.skips + 1
    BY <1>3 DEF MemType
  <2> HIDE DEF m0
  <2>3. /\ m.idx + 1 \in 1 .. N(n) /\ C \subseteq 1 .. m.idx
        /\ \A p \in {"waits", "out"} : told => Hist("RUNNING", At(m0, m.idx + 1), p)
    BY <1>28, <2>1, <2>2
  <2>4. (m.idx + 1) - 1 = m.idx
    BY <1>6
  <2> QED
    BY <1>18, <2>1, <2>2, <2>3, <2>4
<1>31. CASE OrderedEnd(n)
  <2> DEFINE skips == m.skips + (IF ret = "SKIPPED" THEN 1 ELSE 0)
             s == IF skips = last THEN "SKIPPED" ELSE Pass(n)
  <2>1. /\ ret \in {Pass(n), "SKIPPED"} /\ ret # None /\ ~m.on /\ m.idx = last
        /\ Return(n, s, Blank, ChildSet(n))
    BY <1>31 DEF OrderedEnd, Back, m, last
  <2>2. Blank \in MemType(n) /\ ~Blank.on /\ Blank.idx = 1 /\ Blank.skips = 0
    BY DEF Blank, MemType
  <2>3. ASSUME told PROVE Passes(n, got, last)
    BY <1>6, <1>22, <1>23, <2>1, <2>3
  <2>4. ASSUME told PROVE Hist(IF s = "SKIPPED" THEN status[n] ELSE s, Blank, "out")
    BY <2>2, <2>3, <2>4 DEF Hist, OrderedHist, last
  <2>5. ASSUME told, s \in Completed PROVE Promised(s)
    <3>1. s = Pass(n) /\ skips # last
      BY <1>20, <2>5
    <3>2. /\ got[m.idx] = ret /\ \A j \in m.idx + 1 .. N(n) : got[j] = None
          /\ Kind(n) # "SequenceWithMemory" => m.skips = Cardinality(Skips(got, m.idx - 1))
      BY <1>22, <2>1, <2>5
    <3>3. ASSUME Kind(n) # "SequenceWithMemory"
          PROVE  \E i \in 1 .. N(n) : got[i] = s
      <4>1. Cardinality(Skips(got, last)) = skips
        <5>1. Cardinality(Skips(got, m.idx)) = Cardinality(Skips(got, m.idx - 1))
                                             + (IF ret = "SKIPPED" THEN 1 ELSE 0)
          BY <1>6, <1>24, <3>2
        <5> QED
          BY <2>1, <3>2, <3>3, <5>1
      <4>2. Skips(got, last) # 1 .. last
        <5>1. last \in Nat /\ Cardinality(1 .. last) = last
          BY <1>5, FS_Interval
        <5> QED
          BY <3>1, <4>1, <5>1
      <4>3. PICK j \in 1 .. last : got[j] # "SKIPPED"
        BY <4>2 DEF Skips
      <4>4. got[j] = Pass(n)
        BY <2>3, <2>5, <4>3 DEF Passes
      <4>5. j \in 1 .. N(n) /\ got[j] = s
        <5>1. j \in 1 .. N(n)
          BY <1>4, <1>5, <4>3
        <5> QED
          BY <3>1, <4>4, <5>1
      <4> HIDE DEF s
      <4> QED
        BY <4>5
    <3>4. Kind(n) = "TryCatch" => ((got[N(n)] \in {None, "RUNNING"}) <=> (s = "SUCCESS"))
      BY <1>4, <1>5, <1>17, <2>1, <3>1, <3>2
    <3>5. IF s = Pass(n)
          THEN /\ Passes(n, got, last)
               /\ Kind(n) # "SequenceWithMemory" => \E i \in 1 .. N(n) : got[i] = s
          ELSE Decides(n, got, last)
      BY <2>3, <2>5, <3>1, <3>3
    <3> HIDE DEF s
    <3> QED
      BY <1>21, <2>5, <3>4, <3>5
  <2>6. s \in Results
    BY <1>20
  <2>7. C \ Index(n, ChildSet(n)) \subseteq Settled(n, Blank)
    BY <1>1, <1>8
  <2> HIDE DEF s
  <2> QED
    BY <1>19, <2>1, <2>2, <2>4, <2>5, <2>6, <2>7
<1>32. CASE OrderedCaught(n)
  <2> DEFINE m0 == [At(m, 1) EXCEPT !.on = FALSE]
  <2>1. ret # "RUNNING" /\ ret # None /\ m.on /\ Return(n, "FAILURE", m0, ChildSet(n))
    BY <1>32 DEF OrderedCaught, Back, m
  <2>2. m0 \in MemType(n)
    BY <1>3 DEF At, MemType
  <2> HIDE DEF m0
  <2>3. Kind(n) = "TryCatch"
    BY <1>13, <2>1 DEF OrderedOK
  <2>4. Hist("FAILURE", m0, "out")
    BY <2>3 DEF Hist, OrderedHist
  <2>5. ASSUME told PROVE Promised("FAILURE")
    <3>1. Hist("RUNNING", m, "back") /\ got[N(n)] = ret
      BY <1>7, <1>12, <1>13, <1>14, <2>1, <2>3, <2>5
    <3>2. Decides(n, got, last)
      BY <2>1, <3>1 DEF Hist, OrderedHist, last
    <3>3. Pass(n) # "FAILURE" /\ "FAILURE" \in Completed
      BY <1>17, <1>20, <2>3
    <3>4. ~(got[N(n)] \in {None, "RUNNING"})
      BY <2>1, <3>1
    <3> QED
      BY <1>21, <2>5, <3>2, <3>3, <3>4
  <2>6. C \ Index(n, ChildSet(n)) \subseteq Settled(n, m0)
    BY <1>1, <1>8
  <2>7. ChildSet(n) \in SUBSET ChildSet(n)
    OBVIOUS
  <2> QED
    BY <1>19, <1>20, <2>1, <2>2, <2>4, <2>5, <2>6, <2>7
<1> QED
  BY <1>25, <1>26, <1>27, <1>29, <1>30, <1>31, <1>32 DEF OrderedStep

\* tick() of n returns, and resets all children.
LEMMA AnswersAll ==
  ASSUME tree \in DOMAIN Forest, NEW n \in Nodes, NEW s \in Results, NEW m \in MemType(n),
         Return(n, s, m, ChildSet(n)), n \notin DOMAIN mem => m = Blank,
         n = X /\ Asked =>
           /\ HistOK(n, IF s = "SKIPPED" THEN status[n] ELSE s, m, "out", s, got, tries)
           /\ s \in Completed => Promised(s)
  PROVE  Answers(n)
<1>1. DoneIdx(n) \ Index(n, ChildSet(n)) \subseteq Settled(n, m)
  BY IndexFacts DEF DoneIdx
<1>2. ChildSet(n) \in SUBSET ChildSet(n)
  OBVIOUS
<1> QED
  BY <1>1, <1>2, AnswersIs

\* ReactiveSequence and ReactiveFallback.
LEMMA ReactiveTold ==
  ASSUME IInv, StartedInv, HistInv, NEW n, Inside(n), ReactiveStep(n)
  PROVE  Continues(n) \/ Answers(n)
<1> DEFINE m == mem[n]
           C == DoneIdx(n)
           told == n = X /\ Asked
<1>1. /\ n \in Nodes /\ tree \in DOMAIN Forest /\ ret \in Results \cup {None}
      /\ C \subseteq DOMAIN Children(n)
  BY Here
<1>2. Kind(n) \in Reactives
  BY DEF ReactiveStep, ReactiveTick, ReactiveRunning, ReactiveStop, ReactiveNext, Entered, Back
<1>3. n \in DOMAIN mem /\ Mem(n) = m /\ m \in MemType(n)
  BY <1>2, Here DEF WithMem, Reactives
<1>4. /\ DOMAIN Children(n) = 1 .. N(n) /\ N(n) \in Nat /\ N(n) >= 1 /\ 1 \in DOMAIN Children(n)
      /\ "RUNNING" \in Results /\ "RUNNING" \in Statuses /\ "RUNNING" \notin Completed
      /\ "SKIPPED" \notin Completed /\ None \notin Results
  BY <1>2, Ticked DEF Controls
<1>5. /\ LastTry(n) = N(n)
      /\ Kind(n) \notin Ordered \cup Parallels \cup {"IfThenElse", "WhileDoElse", "Switch"}
      /\ Kind(n) \notin Loops \cup {"Loop", "RunOnce", "Precondition", "Updated", "Timeout"}
      /\ Kind(n) \notin {"TryCatch", "SequenceWithMemory"}
  BY <1>2, Kinds DEF LastTry
<1>6. \A m2 : CurIdx(n, m2) = m2.idx /\ Settled(n, m2) = 1 .. m2.idx - 1
  BY <1>2, <1>5 DEF CurIdx, Settled, Controls
<1>7. Blank \in MemType(n) /\ Blank.idx = 1 /\ Blank.skips = 0
  BY BlankFacts
<1>8. C \subseteq Settled(n, m) \cup (IF ret \in Completed THEN {m.idx} ELSE {})
  BY <1>3, <1>6, ToldHere
<1>9. told => HistOK(n, status[n], m, IF ret = None THEN "entered" ELSE "back", ret, got, tries)
  BY <1>3, ToldHere
<1>10. told => got \in [DOMAIN Children(n) -> Results \cup {None}] /\ tries \in Nat
  BY <1>9 DEF HistOK
<1>11. m.idx \in 1 .. N(n) /\ m.skips \in Nat
  BY <1>3, <1>4 DEF MemType
<1>12. ret = None => m = Blank
  <2>1. ASSUME ret = None PROVE NodeOK(n, status[n], m, FALSE, LiveIdx(n), C, FALSE)
    BY <1>3, <2>1, Here
  <2> QED
    BY <1>2, <2>1 DEF NodeOK, ReactiveOK
<1>13. ASSUME told, ret # None
       PROVE  /\ Passes(n, got, m.idx - 1) /\ got[m.idx] = ret
              /\ \A j \in m.idx + 1 .. N(n) : got[j] = None
              /\ m.skips = Cardinality(Skips(got, m.idx - 1))
  <2>1. HistOK(n, status[n], m, "back", ret, got, tries)
    BY <1>9, <1>13, Zenon
  <2>2. ReactiveHist(n, m, "back", got) /\ got[m.idx] = ret
    BY <1>2, <1>6, <2>1 DEF HistOK
  <2> QED
    BY <2>2 DEF ReactiveHist
<1>14. told => /\ \A i : Passed(i) <=> Passes(n, got, i)
               /\ \A i : Decided(i) <=> Decides(n, got, i)
  BY ToldHere
<1>15. Stop(n) \in Completed /\ Pass(n) \in Completed /\ Stop(n) # Pass(n)
       /\ Completed \subseteq Results /\ "SKIPPED" \in Results
  BY DEF Stop, Pass, Completed, Results
<1> HIDE DEF m, C, told
<1>16. ASSUME told, NEW s, NEW m2, NEW p \in {"waits", "out"}, NEW r, ReactiveHist(n, m2, p, got)
       PROVE  HistOK(n, s, m2, p, r, got, tries)
  BY <1>5, <1>10, <1>16 DEF HistOK
<1>17. ASSUME NEW s \in Results, Return(n, s, Blank, ChildSet(n)),
              told /\ s \in Completed =>
                IF s = Pass(n) THEN Passes(n, got, N(n)) /\ \E i \in 1 .. N(n) : got[i] = s
                ELSE Decides(n, got, N(n))
       PROVE  Answers(n)
  <2>1. ASSUME told PROVE HistOK(n, IF s = "SKIPPED" THEN status[n] ELSE s, Blank, "out", s, got, tries)
    <3>1. ReactiveHist(n, Blank, "out", got)
      BY DEF ReactiveHist
    <3> QED
      BY <1>16, <2>1, <3>1
  <2>2. ASSUME told, s \in Completed PROVE Promised(s)
    <3>1. IF s = Pass(X) THEN Passed(LastTry(X)) /\ \E i \in 1 .. N(X) : got[i] = s
          ELSE Decided(LastTry(X))
      BY <1>5, <1>14, <1>17, <2>2 DEF told
    <3> QED
      BY <1>2, <1>5, <2>2, <3>1, PromisedPass DEF told
  <2> QED
    BY <1>1, <1>3, <1>7, <1>17, <2>1, <2>2, AnswersAll DEF told
<1>18. CASE ReactiveTick(n)
  <2>1. Call(n, "RUNNING", Blank, {}, 1) /\ ret = None
    BY <1>18 DEF ReactiveTick, Entered
  <2>2. C \ Index(n, {}) \subseteq Settled(n, Blank)
    BY <1>4, <1>8, <1>12, <1>15, <2>1
  <2>3. ASSUME told PROVE HistOK(n, "RUNNING", Blank, "waits", None, got, tries)
    <3>1. HistOK(n, status[n], m, "entered", ret, got, tries)
      BY <1>9, <2>1, <2>3, Zenon
    <3>2. \A j \in DOMAIN Children(n) : got[j] = None
      BY <1>2, <3>1 DEF HistOK
    <3>3. Passes(n, got, 0) /\ Cardinality(Skips(got, 0)) = 0
      BY SkipsFacts DEF Passes
    <3>4. \A j \in 2 .. N(n) : got[j] = None
      BY <1>4, <3>2
    <3>5. ReactiveHist(n, Blank, "waits", got)
      BY <1>7, <3>3, <3>4 DEF ReactiveHist
    <3> QED
      BY <1>16, <2>3, <3>5
  <2> QED
    BY <1>1, <1>3, <1>4, <1>6, <1>7, <2>1, <2>2, <2>3, ContinuesIs DEF C, told
<1>19. CASE ReactiveRunning(n)
  <2> DEFINE H == ChildSet(n) \ {Child(n, m.idx)}
  <2>1. Return(n, "RUNNING", Blank, H) /\ ret = "RUNNING"
    BY <1>19 DEF ReactiveRunning, Back, m
  <2>2. Index(n, H) = DOMAIN Children(n) \ {m.idx} /\ H \in SUBSET ChildSet(n)
    BY <1>1, <1>4, <1>11, IndexFacts
  <2> HIDE DEF H
  <2>3. C \ Index(n, H) \subseteq Settled(n, Blank)
    BY <1>1, <1>4, <1>6, <1>8, <1>11, <2>1, <2>2
  <2>4. ASSUME told PROVE HistOK(n, "RUNNING", Blank, "out", "RUNNING", got, tries)
    <3>1. ReactiveHist(n, Blank, "out", got)
      BY DEF ReactiveHist
    <3> QED
      BY <1>16, <2>4, <3>1
  <2> QED
    BY <1>1, <1>3, <1>4, <1>7, <2>1, <2>2, <2>3, <2>4, AnswersIs DEF C, told
<1>20. CASE ReactiveStop(n)
  <2>1. Return(n, Stop(n), Blank, ChildSet(n)) /\ ret = Stop(n) /\ ret # None
    BY <1>20 DEF ReactiveStop, Back
  <2>2. ASSUME told PROVE Decides(n, got, N(n))
    BY <1>11, <1>13, <2>1, <2>2 DEF Decides
  <2> QED
    BY <1>15, <1>17, <2>1, <2>2
<1>21. CASE ReactiveNext(n)
  <2> DEFINE H == IF ret = "SKIPPED" THEN {Child(n, m.idx)} ELSE {}
             k == m.skips + (IF ret = "SKIPPED" THEN 1 ELSE 0)
             m1 == [At(m, m.idx + 1) EXCEPT !.skips = k]
  <2>1. /\ ret # None /\ ret \in {Pass(n), "SKIPPED"}
        /\ IF m.idx < N(n) THEN Call(n, "RUNNING", m1, H, m.idx + 1)
           ELSE Return(n, IF k = N(n) THEN "SKIPPED" ELSE Pass(n), Blank, ChildSet(n))
    BY <1>21 DEF ReactiveNext, Back, m
  <2>2. ASSUME told
        PROVE  Passes(n, got, m.idx) /\ k = Cardinality(Skips(got, m.idx))
    <3>1. Passes(n, got, m.idx)
      BY <1>11, <1>13, <2>1, <2>2 DEF Passes
    <3> DEFINE i == m.idx - 1
    <3>2. i \in Nat /\ i + 1 = m.idx
      BY <1>11
    <3>3. Cardinality(Skips(got, i)) = m.skips /\ got[i + 1] = ret
      BY <1>13, <2>1, <2>2, <3>2
    <3> HIDE DEF i
    <3>4. Cardinality(Skips(got, i + 1)) = m.skips + (IF ret = "SKIPPED" THEN 1 ELSE 0)
      BY <3>2, <3>3, SkipsFacts
    <3> QED
      BY <3>1, <3>2, <3>4
  <2>3. k \in Nat
    BY <1>11
  <2> HIDE DEF k
  <2>4. CASE m.idx < N(n)
    <3>1. m.idx + 1 \in 1 .. N(n)
      BY <1>4, <1>11, <2>4
    <3>2. m1 \in MemType(n) /\ m1.idx = m.idx + 1 /\ m1.skips = k
      BY <1>3, <1>4, <2>3, <3>1 DEF At, MemType
    <3>3. H \in SUBSET ChildSet(n)
      BY <1>1, <1>4, <1>11, TreeFacts
    <3> HIDE DEF m1, H
    <3>4. (m.idx + 1) - 1 = m.idx
      BY <1>11
    <3>5. C \ Index(n, H) \subseteq Settled(n, m1)
      BY <1>6, <1>8, <1>11, <3>2, <3>4
    <3>6. ASSUME told PROVE HistOK(n, "RUNNING", m1, "waits", None, got, tries)
      <4>1. \A j \in m1.idx + 1 .. N(n) : got[j] = None
        BY <1>11, <1>13, <2>1, <3>2, <3>6
      <4>2. m1.idx - 1 = m.idx
        BY <3>2, <3>4
      <4>3. ReactiveHist(n, m1, "waits", got)
        BY <2>2, <3>2, <3>6, <4>1, <4>2 DEF ReactiveHist
      <4> QED
        BY <1>16, <3>6, <4>3
    <3> QED
      BY <1>1, <1>3, <1>4, <1>6, <2>1, <2>4, <3>1, <3>2, <3>3, <3>5, <3>6, ContinuesIs DEF C, told
  <2>5. CASE ~(m.idx < N(n))
    <3>1. m.idx = N(n)
      BY <1>4, <1>11, <2>5
    <3> DEFINE s == IF k = N(n) THEN "SKIPPED" ELSE Pass(n)
    <3>2. Return(n, s, Blank, ChildSet(n))
      BY <2>1, <2>5
    <3>3. s \in Results /\ (s \in Completed => s = Pass(n) /\ k # N(n))
      BY <1>4, <1>15
    <3> HIDE DEF s
    <3>4. ASSUME told, s \in Completed
          PROVE  Passes(n, got, N(n)) /\ \E i \in 1 .. N(n) : got[i] = s
      <4>1. Passes(n, got, N(n)) /\ Cardinality(Skips(got, N(n))) # N(n)
        BY <2>2, <3>1, <3>3, <3>4
      <4>2. Skips(got, N(n)) # 1 .. N(n)
        <5>1. Cardinality(1 .. N(n)) = N(n)
          BY <1>4, FS_Interval
        <5> QED
          BY <4>1, <5>1
      <4>3. PICK j \in 1 .. N(n) : got[j] # "SKIPPED"
        BY <4>2 DEF Skips
      <4>4. got[j] = s
        BY <3>3, <3>4, <4>1, <4>3 DEF Passes
      <4> QED
        BY <4>1, <4>4
    <3> QED
      BY <1>17, <3>2, <3>3, <3>4
  <2> QED
    BY <2>4, <2>5
<1> QED
  BY <1>18, <1>19, <1>20, <1>21 DEF ReactiveStep

\* The counters of a Parallel after the result of a child, and the history.
LEMMA CountedTold ==
  ASSUME NEW n, N(n) \in Nat, NEW m \in MemType(n), m.idx \in 1 .. N(n), NEW g, ret \in Results,
         ParallelHist(n, "RUNNING", m, "back", g), g[m.idx] = ret
  PROVE  /\ Counted(m).done = {j \in 1 .. N(n) : g[j] \in Completed}
         /\ Counted(m).count = Cardinality({j \in 1 .. N(n) : g[j] = "FAILURE"})
         /\ Counted(m).skips = Cardinality(Skips(g, m.idx))
         /\ \A j \in 1 .. m.idx : g[j] # None
<1> DEFINE T == {j \in 1 .. N(n) : j # m.idx}
           F == {j \in T : g[j] = "FAILURE"}
<1>1. /\ m.done = {j \in T : g[j] \in Completed} /\ m.count = Cardinality(F)
      /\ m.skips = Cardinality(Skips(g, m.idx - 1))
      /\ \A j \in 1 .. m.idx - 1 : g[j] # None
  <2>1. Told(n, m, "back") = T
    BY DEF Told
  <2> QED
    BY <2>1 DEF ParallelHist
<1>2. /\ Counted(m).done = IF ret \in Completed THEN m.done \cup {m.idx} ELSE m.done
      /\ Counted(m).skips = IF ret = "SKIPPED" THEN m.skips + 1 ELSE m.skips
  BY CountedIs DEF N
<1>3. Counted(m).count = IF ret = "FAILURE" THEN m.count + 1 ELSE m.count
  BY DEF Counted, MemType
<1>4. Counted(m).done = {j \in 1 .. N(n) : g[j] \in Completed}
  <2>1. \A j : j \in 1 .. N(n) <=> j \in T \/ j = m.idx
    OBVIOUS
  <2>2. \A j : j \in m.done <=> j \in T /\ g[j] \in Completed
    BY <1>1
  <2> HIDE DEF T
  <2>3. \A j : j \in Counted(m).done <=> j \in 1 .. N(n) /\ g[j] \in Completed
    BY <1>2, <2>1, <2>2
  <2> QED
    BY <2>3
<1>5. Counted(m).count = Cardinality({j \in 1 .. N(n) : g[j] = "FAILURE"})
  <2>1. CASE ret = "FAILURE"
    <3>1. {j \in 1 .. N(n) : g[j] = "FAILURE"} = F \cup {m.idx}
      BY <2>1
    <3>2. Cardinality(F \cup {m.idx}) = Cardinality(F) + 1
      BY OneMore
    <3> HIDE DEF F
    <3> QED
      BY <1>1, <1>3, <2>1, <3>1, <3>2
  <2>2. CASE ret # "FAILURE"
    <3>1. {j \in 1 .. N(n) : g[j] = "FAILURE"} = F
      BY <2>2
    <3> HIDE DEF F
    <3> QED
      BY <1>1, <1>3, <2>2, <3>1
  <2> QED
    BY <2>1, <2>2
<1>6. Counted(m).skips = Cardinality(Skips(g, m.idx))
  <2> DEFINE i == m.idx - 1
  <2>1. i \in Nat /\ i + 1 = m.idx /\ m.skips = Cardinality(Skips(g, i)) /\ m.skips \in Nat
    BY <1>1 DEF MemType
  <2> HIDE DEF i
  <2>2. Cardinality(Skips(g, i + 1)) = m.skips + (IF g[i + 1] = "SKIPPED" THEN 1 ELSE 0)
    BY <2>1, SkipsFacts
  <2> QED
    BY <1>2, <2>1, <2>2
<1>7. \A j \in 1 .. m.idx : g[j] # None
  <2>1. \A j \in 1 .. m.idx : j \in 1 .. m.idx - 1 \/ j = m.idx
    OBVIOUS
  <2>2. ret # None
    BY DEF Results, Completed, None
  <2> QED
    BY <1>1, <2>1, <2>2
<1> QED
  BY <1>4, <1>5, <1>6, <1>7

\* Children that have completed are none that were skipped.
LEMMA SkipsBetween ==
  ASSUME NEW g, NEW a \in Nat, NEW b \in Nat, a <= b, \A j \in a + 1 .. b : g[j] \in Completed
  PROVE  Skips(g, b) = Skips(g, a)
<1>1. "SKIPPED" \notin Completed
  BY DEF Completed
<1>2. \A j \in 1 .. b : j \in 1 .. a \/ j \in a + 1 .. b
  OBVIOUS
<1>3. \A j \in 1 .. a : j \in 1 .. b
  OBVIOUS
<1> QED
  BY <1>1, <1>2, <1>3 DEF Skips

\* The results of the n children are SUCCESS, FAILURE or others.
LEMMA CompletedCount ==
  ASSUME NEW g, NEW k \in Nat
  PROVE  LET S(s) == {j \in 1 .. k : g[j] = s}
             D    == {j \in 1 .. k : g[j] \in Completed} IN
         /\ Cardinality(S("SUCCESS")) \in Nat /\ Cardinality(S("FAILURE")) \in Nat
         /\ Cardinality(S("SKIPPED")) \in Nat
         /\ Cardinality(D) = Cardinality(S("SUCCESS")) + Cardinality(S("FAILURE"))
         /\ Skips(g, k) = S("SKIPPED")
         /\ Cardinality(S("SKIPPED")) + Cardinality(D) >= k
              => \A j \in 1 .. k : g[j] \in Completed \cup {"SKIPPED"}
<1> DEFINE S(s) == {j \in 1 .. k : g[j] = s}
           D    == {j \in 1 .. k : g[j] \in Completed}
<1>1. IsFiniteSet(1 .. k) /\ Cardinality(1 .. k) = k
  BY FS_Interval
<1>2. IsFiniteSet(D) /\ Cardinality(D) \in Nat /\ \A s : IsFiniteSet(S(s)) /\ Cardinality(S(s)) \in Nat
  <2>1. \A s : S(s) \in SUBSET (1 .. k)
    OBVIOUS
  <2>2. D \in SUBSET (1 .. k)
    OBVIOUS
  <2> HIDE DEF S, D
  <2> QED
    BY <1>1, <2>1, <2>2, FS_Subset, FS_CardinalityType
<1>3. D = S("SUCCESS") \cup S("FAILURE") /\ S("SUCCESS") \cap S("FAILURE") = {}
  BY DEF Completed
<1>4. D \cap S("SKIPPED") = {}
  BY DEF Completed
<1>5. S("SKIPPED") \cup D \in SUBSET (1 .. k)
  OBVIOUS
<1>6. ASSUME S("SKIPPED") \cup D = 1 .. k, NEW j \in 1 .. k
      PROVE  g[j] \in Completed \cup {"SKIPPED"}
  BY <1>6
<1>7. Skips(g, k) = S("SKIPPED")
  BY DEF Skips
<1> HIDE DEF S, D
<1>8. Cardinality({}) = 0
  BY FS_EmptySet
<1>9. Cardinality(D) = Cardinality(S("SUCCESS")) + Cardinality(S("FAILURE"))
  <2> DEFINE a == S("SUCCESS")
             b == S("FAILURE")
  <2>1. IsFiniteSet(a) /\ IsFiniteSet(b) /\ D = a \cup b /\ a \cap b = {}
        /\ Cardinality(a) \in Nat /\ Cardinality(b) \in Nat
    BY <1>2, <1>3
  <2> HIDE DEF a, b
  <2>2. Cardinality(a \cup b) = Cardinality(a) + Cardinality(b) - Cardinality(a \cap b)
    BY <2>1, FS_Union
  <2>3. Cardinality(a \cap b) = 0 /\ Cardinality(D) = Cardinality(a \cup b)
    BY <1>8, <2>1, Zenon
  <2>4. Cardinality(D) = Cardinality(a) + Cardinality(b)
    BY <2>1, <2>2, <2>3
  <2> QED
    BY <2>4 DEF a, b
<1>10. Cardinality(S("SKIPPED") \cup D) = Cardinality(S("SKIPPED")) + Cardinality(D)
  <2>1. S("SKIPPED") \cap D = {}
    BY <1>4
  <2> QED
    BY <1>2, <1>8, <2>1, FS_Union
<1>11. ASSUME Cardinality(S("SKIPPED")) + Cardinality(D) >= k
       PROVE  S("SKIPPED") \cup D = 1 .. k
  <2>1. Cardinality(S("SKIPPED") \cup D) <= k
        /\ (Cardinality(1 .. k) = Cardinality(S("SKIPPED") \cup D) => 1 .. k = S("SKIPPED") \cup D)
    BY <1>1, <1>5, FS_Subset
  <2> QED
    BY <1>1, <1>2, <1>10, <1>11, <2>1
<1> QED
  BY <1>2, <1>6, <1>7, <1>9, <1>11 DEF S, D

\* What a Parallel may return, and a ParallelAll.
LEMMA PromisedParallel ==
  ASSUME NEW s \in Completed,
         Kind(X) = "Parallel" =>
           IF s = "SUCCESS"
           THEN Count(s) + (IF Port("param", X).success < 0 THEN Count("SKIPPED") ELSE 0)
                  >= Threshold(X, "success")
           ELSE N(X) - Count(s) < Threshold(X, "success") \/ Count(s) = Threshold(X, "failure"),
         Kind(X) = "ParallelAll" =>
           /\ \A i \in 1 .. N(X) : got[i] \notin {None, "RUNNING"}
           /\ (s = "FAILURE") = (Count("FAILURE") >= Threshold(X, "failure")),
         Kind(X) \in Parallels
  PROVE  Promised(s)
<1>1. /\ Kind(X) \notin {"IfThenElse", "WhileDoElse", "Switch",
                         "Inverter", "ForceSuccess", "ForceFailure", "KeepRunning", "Loop",
                         "RunOnce", "Precondition", "Updated", "Timeout"}
      /\ Kind(X) \notin Loops /\ Kind(X) \notin Ordered \cup Reactives
  BY Kinds
<1>2. CASE Kind(X) = "Parallel"
  <2>1. Kind(X) # "ParallelAll"
    BY <1>2
  <2> QED
    BY <1>1, <1>2, <2>1, Zenon DEF Promised
<1>3. CASE Kind(X) = "ParallelAll"
  <2>1. Kind(X) # "Parallel"
    BY <1>3
  <2> QED
    BY <1>1, <1>3, <2>1, Zenon DEF Promised
<1> QED
  BY <1>2, <1>3, Kinds

\* Parallel and ParallelAll, but for an exception.
LEMMA ParallelTold ==
  ASSUME IInv, StartedInv, HistInv, NEW n, Inside(n), ParallelStep(n), ret' # "EXCEPTION"
  PROVE  Continues(n) \/ Answers(n)
<1> DEFINE m == mem[n]
           C == DoneIdx(n)
           told == n = X /\ Asked
           k == N(n)
           S(s) == {j \in 1 .. k : got[j] = s}
           D    == {j \in 1 .. k : got[j] \in Completed}
           rest == Pending(n, Counted(m), m.idx)
           c == Counted(m)
           idle == [At(c, 1) EXCEPT !.skips = 0]
<1>1. /\ n \in Nodes /\ tree \in DOMAIN Forest /\ ret \in Results \cup {None}
      /\ C \subseteq DOMAIN Children(n)
  BY Here
<1>2. Kind(n) \in Parallels
  BY DEF ParallelStep, ParallelThrow, ParallelTick, ParallelBack, ParallelAllBack, Entered, Back, Parallels
<1>3. n \in DOMAIN mem /\ Mem(n) = m /\ m \in MemType(n)
  BY <1>2, Here DEF WithMem, Parallels
<1>4. /\ DOMAIN Children(n) = 1 .. k /\ k \in Nat /\ k >= 1 /\ k = Len(Children(n))
      /\ "RUNNING" \in Results /\ "RUNNING" \in Statuses /\ "RUNNING" \notin Completed
      /\ "SKIPPED" \notin Completed /\ None \notin Results /\ None \notin Completed
      /\ "SKIPPED" \in Results /\ "SUCCESS" \in Results /\ "FAILURE" \in Results
  <2>1. /\ DOMAIN Children(n) = 1 .. k /\ k \in Nat /\ k >= 1
        /\ "RUNNING" \in Statuses /\ "RUNNING" \notin Completed
        /\ "SKIPPED" \notin Completed /\ None \notin Results
    BY <1>2, Ticked DEF Controls
  <2> QED
    BY <2>1 DEF N, Results, Completed
<1>5. /\ Kind(n) \notin Ordered \cup Reactives \cup {"IfThenElse", "WhileDoElse", "Switch"}
      /\ Kind(n) \notin Loops \cup {"Loop", "RunOnce", "Precondition", "Updated", "Timeout"}
      /\ Kind(n) \notin {"TryCatch", "SequenceWithMemory"}
  BY <1>2, Kinds
<1>6. \A m2 : CurIdx(n, m2) = m2.idx /\ Settled(n, m2) = m2.done
  BY <1>2, <1>5 DEF CurIdx, Settled, Controls
<1>7. Blank \in MemType(n) /\ Blank.idx = 1 /\ Blank.done = {} /\ Blank.count = 0
  BY BlankFacts
<1>8. C \subseteq m.done \cup (IF ret \in Completed THEN {m.idx} ELSE {})
  BY <1>3, <1>6, ToldHere
<1>9. told => /\ HistOK(n, status[n], m, IF ret = None THEN "entered" ELSE "back", ret, got, tries)
              /\ ret = None => status[n] \in {"IDLE", "RUNNING"}
  BY <1>3, ToldHere
<1>10. told => got \in [DOMAIN Children(n) -> Results \cup {None}] /\ tries \in Nat
  BY <1>9 DEF HistOK
<1>11. m.idx \in 1 .. k /\ m.skips \in Nat /\ m.done \in SUBSET (1 .. k) /\ m.count \in Nat
  BY <1>3, <1>4 DEF MemType
<1>12. ret # None => status[n] = "RUNNING"
  <2>1. ASSUME ret # None
        PROVE  \/ NodeOK(n, status[n], m, TRUE, LiveIdx(n), C, TRUE)
               \/ NodeOK(n, status[n], m, TRUE, LiveIdx(n), C, FALSE)
    BY <1>3, <2>1, Here
  <2> QED
    BY <1>2, <2>1 DEF NodeOK, ParallelOK
<1>13. \A m2 : Told(n, m2, "waits") = 1 .. k /\ Told(n, m2, "out") = 1 .. k /\ Told(n, m2, "entered") = 1 .. k
  BY DEF Told
<1>14. /\ Cardinality(S("SUCCESS")) \in Nat /\ Cardinality(S("FAILURE")) \in Nat
       /\ Cardinality(S("SKIPPED")) \in Nat
       /\ Cardinality(D) = Cardinality(S("SUCCESS")) + Cardinality(S("FAILURE"))
       /\ Skips(got, k) = S("SKIPPED")
       /\ Cardinality(S("SKIPPED")) + Cardinality(D) >= k
            => \A j \in 1 .. k : got[j] \in Completed \cup {"SKIPPED"}
  BY <1>4, CompletedCount
<1>15. told => \A s : Count(s) = Cardinality(S(s))
  BY <1>4 DEF Count
<1>16. ret # None => /\ c \in MemType(n) /\ c.idx = m.idx
                     /\ C \subseteq c.done
                     /\ c.skips \in Nat /\ c.count \in Nat
  BY <1>4, <1>3, <1>8, <1>11, CountedIs DEF MemType
\* What the counters are when a child has returned.
<1>17. ASSUME told, ret # None
       PROVE  /\ c.done = D /\ c.count = Cardinality(S("FAILURE"))
              /\ c.skips = Cardinality(Skips(got, m.idx))
              /\ \A j \in 1 .. m.idx : got[j] # None
  <2>1. HistOK(n, status[n], m, "back", ret, got, tries)
    BY <1>9, <1>17, Zenon
  <2>2. ParallelHist(n, status[n], m, "back", got) /\ got[m.idx] = ret
    BY <1>2, <1>6, <2>1 DEF HistOK
  <2>3. ret \in Results /\ status[n] = "RUNNING"
    BY <1>1, <1>12, <1>17
  <2>4. ParallelHist(n, "RUNNING", m, "back", got)
    BY <2>2, <2>3
  <2>5. k \in Nat /\ m \in MemType(n) /\ m.idx \in 1 .. k /\ ret \in Results /\ got[m.idx] = ret
    BY <1>3, <1>4, <1>11, <2>2, <2>3
  <2> HIDE DEF m
  <2>6. Counted(m).done = {j \in 1 .. N(n) : got[j] \in Completed}
    BY <2>4, <2>5, CountedTold
  <2>7. Counted(m).count = Cardinality({j \in 1 .. N(n) : got[j] = "FAILURE"})
    BY <2>4, <2>5, CountedTold
  <2>8. Counted(m).skips = Cardinality(Skips(got, m.idx))
    BY <2>4, <2>5, CountedTold
  <2>9. \A j \in 1 .. m.idx : got[j] # None
    <3>1. \A j \in 1 .. m.idx - 1 : got[j] # None
      BY <2>4 DEF ParallelHist
    <3>2. got[m.idx] # None /\ m.idx \in Nat
      BY <1>4, <2>5
    <3>3. \A j \in 1 .. m.idx : j \in 1 .. m.idx - 1 \/ j = m.idx
      BY <3>2
    <3> QED
      BY <3>1, <3>2, <3>3
  <2> QED
    BY <2>6, <2>7, <2>8, <2>9, Zenon
<1> HIDE DEF m, C, told, S, D, c
<1>18. ASSUME told, NEW s, NEW m2, NEW p \in {"waits", "out"}, NEW r, ParallelHist(n, s, m2, p, got)
       PROVE  HistOK(n, s, m2, p, r, got, tries)
  BY <1>5, <1>10, <1>18 DEF HistOK
\* The next child that has not completed.
<1>19. ASSUME NEW m0 \in MemType(n), NEW i0 \in 0 .. k,
              Pending(n, m0, i0) # {},
              C \subseteq m0.done,
              Call(n, "RUNNING", At(m0, First(Pending(n, m0, i0))), {}, First(Pending(n, m0, i0))),
              told => /\ m0.done = D /\ m0.count = Cardinality(S("FAILURE"))
                      /\ m0.skips = Cardinality(Skips(got, i0))
                      /\ \A j \in 1 .. i0 : got[j] # None
       PROVE  Continues(n)
  <2> DEFINE P == Pending(n, m0, i0)
             i == First(P)
             m1 == At(m0, i)
  <2>1. P \in SUBSET Nat /\ P # {} /\ \A j : j \in P <=> j \in i0 + 1 .. k /\ j \notin m0.done
    BY <1>4, <1>19 DEF Pending
  <2> HIDE DEF P
  <2>2. i \in P /\ \A j \in P : i <= j
    BY <2>1, FirstIs
  <2> HIDE DEF i
  <2>3. i \in 1 .. k /\ i >= i0 + 1 /\ \A j \in i0 + 1 .. i - 1 : j \in m0.done
    <3>1. i \in i0 + 1 .. k
      BY <2>1, <2>2
    <3>2. ASSUME NEW j \in i0 + 1 .. i - 1 PROVE j \in m0.done
      <4>1. j \in i0 + 1 .. k /\ ~(i <= j)
        BY <1>4, <3>1
      <4> QED
        BY <2>1, <2>2, <4>1
    <3> QED
      BY <1>4, <3>1, <3>2
  <2>4. m1 \in MemType(n) /\ m1.idx = i /\ m1.done = m0.done /\ m1.count = m0.count /\ m1.skips = m0.skips
    BY <1>4, <2>3 DEF At, MemType
  <2>5. Call(n, "RUNNING", m1, {}, i)
    BY <1>19 DEF i, P
  <2> HIDE DEF m1
  <2>6. ASSUME told PROVE HistOK(n, "RUNNING", m1, "waits", None, got, tries)
    <3>1. \A j \in i0 + 1 .. i - 1 : got[j] \in Completed
      BY <1>19, <2>3, <2>6 DEF D
    <3>2. Skips(got, i - 1) = Skips(got, i0)
      <4> DEFINE b == i - 1
      <4>1. b \in Nat /\ i0 <= b /\ i0 \in Nat /\ \A j \in i0 + 1 .. b : got[j] \in Completed
        BY <1>4, <2>3, <3>1
      <4> HIDE DEF b
      <4> QED
        BY <4>1, SkipsBetween DEF b
    <3>3. \A j \in 1 .. i - 1 : got[j] # None
      <4>1. \A j \in 1 .. i - 1 : j \in 1 .. i0 \/ j \in i0 + 1 .. i - 1
        BY <1>4, <2>3
      <4> QED
        BY <1>4, <1>19, <2>6, <3>1, <4>1
    <3>4. /\ m1.done = D /\ m1.count = Cardinality(S("FAILURE"))
          /\ m1.skips = Cardinality(Skips(got, m1.idx - 1))
          /\ \A j \in 1 .. m1.idx - 1 : got[j] # None
      BY <1>19, <2>4, <2>6, <3>2, <3>3
    <3>5. ParallelHist(n, "RUNNING", m1, "waits", got)
      BY <1>13, <3>4 DEF ParallelHist, D, S
    <3> QED
      BY <1>18, <2>6, <3>5
  <2>7. C \ Index(n, {}) \subseteq Settled(n, m1)
    BY <1>6, <1>19, <2>4
  <2>8. i \in DOMAIN Children(n) /\ CurIdx(n, m1) = i
    BY <1>4, <1>6, <2>3, <2>4
  <2> QED
    BY <1>1, <1>3, <1>4, <2>4, <2>5, <2>6, <2>7, <2>8, ContinuesIs DEF C, told
<1>20. ASSUME NEW s \in {"SUCCESS", "FAILURE"}, Return(n, s, Blank, ChildSet(n)), told => Promised(s)
       PROVE  Answers(n)
  <2>1. s \in Results /\ s # "SKIPPED"
    BY <1>4
  <2>2. ASSUME told PROVE HistOK(n, s, Blank, "out", s, got, tries)
    <3>1. ParallelHist(n, s, Blank, "out", got)
      BY <1>20 DEF ParallelHist
    <3> QED
      BY <1>18, <2>2, <3>1
  <2> QED
    BY <1>1, <1>3, <1>7, <1>20, <2>1, <2>2, AnswersAll DEF told
<1>21. ASSUME NEW s \in {"SKIPPED", "RUNNING"}, ret # None, Return(n, s, idle, {})
       PROVE  Answers(n)
  <2>1. idle \in MemType(n) /\ idle.done = c.done /\ idle.count = c.count
    BY <1>16, <1>21 DEF At, MemType
  <2>2. Return(n, s, idle, {}) /\ s \in Results /\ s \notin Completed
    BY <1>4, <1>21
  <2> HIDE DEF idle
  <2>3. ASSUME told PROVE HistOK(n, IF s = "SKIPPED" THEN status[n] ELSE s, idle, "out", s, got, tries)
    <3>1. idle.done = D /\ idle.count = Cardinality(S("FAILURE"))
      BY <1>17, <1>21, <2>1, <2>3
    <3>2. ParallelHist(n, IF s = "SKIPPED" THEN status[n] ELSE s, idle, "out", got)
      BY <1>13, <3>1 DEF ParallelHist, D, S
    <3> QED
      BY <1>18, <2>3, <3>2
  <2>4. C \ Index(n, {}) \subseteq Settled(n, idle)
    BY <1>6, <1>16, <1>21, <2>1
  <2>5. {} \in SUBSET ChildSet(n)
    OBVIOUS
  <2> QED
    BY <1>1, <1>3, <2>1, <2>2, <2>3, <2>4, <2>5, AnswersIs DEF C, told
<1>22. ASSUME told, ret # None, rest = {} PROVE c.skips = Cardinality(S("SKIPPED"))
  <2>1. \A j \in m.idx + 1 .. k : j \in c.done
    BY <1>22 DEF Pending, c
  <2>2. \A j \in m.idx + 1 .. k : got[j] \in Completed
    BY <1>17, <1>22, <2>1 DEF D
  <2>3. m.idx \in Nat /\ m.idx <= k
    BY <1>4, <1>11
  <2>4. Skips(got, k) = Skips(got, m.idx)
    BY <1>4, <2>2, <2>3, SkipsBetween
  <2>5. c.skips = Cardinality(Skips(got, m.idx))
    BY <1>17, <1>22
  <2>6. Skips(got, m.idx) = S("SKIPPED")
    BY <1>14, <2>4
  <2> QED
    BY <2>5, <2>6
\* The counter of the skipped ones never exceeds what was skipped.
<1>23. ASSUME told, ret # None PROVE c.skips <= Cardinality(S("SKIPPED"))
  <2>1. Skips(got, m.idx) \subseteq Skips(got, k)
    BY <1>4, <1>11 DEF Skips
  <2>2. IsFiniteSet(Skips(got, k))
    BY <1>4, SkipsFacts
  <2>3. Cardinality(Skips(got, m.idx)) <= Cardinality(Skips(got, k))
    BY <2>1, <2>2, FS_Subset
  <2> QED
    BY <1>14, <1>17, <1>23, <2>3
<1>24. CASE ParallelTick(n)
  <2> DEFINE m0 == [m EXCEPT !.skips = 0]
             P  == Pending(n, m, 0)
  <2>1. Call(n, "RUNNING", [At(m, First(P)) EXCEPT !.skips = 0], {}, First(P)) /\ ret = None
    BY <1>24 DEF ParallelTick, Entered, m
  <2>2. NodeOK(n, status[n], m, FALSE, LiveIdx(n), C, FALSE)
    BY <1>3, <2>1, Here DEF C
  <2>3. ParallelOK(n, status[n], m, FALSE, LiveIdx(n), C)
    BY <1>2, <2>2 DEF NodeOK
  <2>4. P # {}
    <3>1. m.done # 1 .. k
      BY <2>3 DEF ParallelOK
    <3>2. PICK j \in 1 .. k : j \notin m.done
      BY <1>11, <3>1
    <3>3. j \in P
      BY <1>4, <3>2 DEF Pending
    <3> QED
      BY <3>3
  <2>5. m0 \in MemType(n) /\ m0.done = m.done /\ m0.count = m.count /\ m0.skips = 0
    BY <1>3 DEF MemType
  <2>6. P = Pending(n, m0, 0)
    BY <2>5 DEF Pending
  <2>7. [At(m, First(P)) EXCEPT !.skips = 0] = At(m0, First(P))
    <3> HIDE DEF P
    <3> QED
      BY <1>3 DEF At, MemType
  <2>8. C \subseteq m0.done
    BY <1>4, <1>8, <2>1, <2>5
  <2>9. ASSUME told
        PROVE  /\ m0.done = D /\ m0.count = Cardinality(S("FAILURE"))
               /\ m0.skips = Cardinality(Skips(got, 0))
               /\ \A j \in 1 .. 0 : got[j] # None
    <3>1. HistOK(n, status[n], m, "entered", ret, got, tries) /\ status[n] \in {"IDLE", "RUNNING"}
      BY <1>9, <2>1, <2>9, Zenon
    <3>2. Cardinality(Skips(got, 0)) = 0
      BY SkipsFacts
    <3>3. CASE status[n] = "RUNNING"
      <4>1. ParallelHist(n, "RUNNING", m, "entered", got)
        BY <1>2, <3>1, <3>3 DEF HistOK
      <4>2. m.done = D /\ m.count = Cardinality(S("FAILURE"))
        BY <1>13, <4>1 DEF ParallelHist, D, S
      <4> QED
        BY <2>5, <3>2, <4>2
    <3>4. CASE status[n] = "IDLE"
      <4>1. \A j \in DOMAIN Children(n) : got[j] = None
        BY <1>5, <3>1, <3>4 DEF HistOK
      <4>2. D = {} /\ S("FAILURE") = {}
        <5>1. None # "FAILURE"
          BY DEF None
        <5> QED
          BY <1>4, <4>1, <5>1 DEF D, S
      <4>3. m.done = {} /\ m.count = 0
        BY <1>7, <2>3, <3>4 DEF ParallelOK
      <4>4. Cardinality(S("FAILURE")) = 0
        BY <4>2, FS_EmptySet
      <4> QED
        BY <2>5, <3>2, <4>2, <4>3, <4>4
    <3> QED
      BY <3>1, <3>3, <3>4
  <2>10. 0 \in 0 .. k
    BY <1>4
  <2> HIDE DEF m0
  <2>11. Call(n, "RUNNING", At(m0, First(Pending(n, m0, 0))), {}, First(Pending(n, m0, 0)))
    BY <2>1, <2>6, <2>7
  <2>12. Pending(n, m0, 0) # {}
    BY <2>4, <2>6
  <2> QED
    BY <1>19, <2>5, <2>8, <2>9, <2>10, <2>11, <2>12
<1>25. ASSUME ret # None, rest # {},
              Call(n, "RUNNING", At(c, First(rest)), {}, First(rest))
       PROVE  Continues(n)
  <2>1. rest = Pending(n, c, m.idx)
    BY DEF c
  <2>2. m.idx \in 0 .. k
    BY <1>4, <1>11
  <2> HIDE DEF rest
  <2> QED
    BY <1>16, <1>17, <1>19, <1>25, <2>1, <2>2
<1>26. Kind(n) = "Parallel" => Threshold(n, "success") \in Int /\ Threshold(n, "failure") \in Int
  <2>1. Kind(n) = "Parallel" => Port("param", n).success \in Int /\ Port("param", n).failure \in Int
    BY <1>1, <1>2, ArityFacts
  <2> QED
    BY <1>4, <2>1 DEF Threshold
<1>27. CASE ParallelBack(n)
  <2>1. ret # None /\ Kind(n) = "Parallel" /\ c.idx = m.idx
    BY <1>16, <1>27 DEF ParallelBack, Back
  <2>2. rest = Pending(n, c, c.idx)
    BY <2>1 DEF c
  <2>3. /\ ret # None
        /\ CASE Succeeds(n, c) -> Return(n, "SUCCESS", Blank, ChildSet(n))
             [] ~Succeeds(n, c) /\ Fails(n, c) -> Return(n, "FAILURE", Blank, ChildSet(n))
             [] ~Succeeds(n, c) /\ ~Fails(n, c) /\ rest # {} ->
                  Call(n, "RUNNING", At(c, First(rest)), {}, First(rest))
             [] OTHER -> Return(n, IF c.skips = N(n) THEN "SKIPPED" ELSE "RUNNING", idle, {})
    <3> HIDE DEF rest
    <3> QED
      BY <1>27, <2>1, <2>2 DEF ParallelBack, m, c
  <2>4. told => /\ Count("SUCCESS") = Cardinality(D) - c.count /\ c.done = D
                /\ Count("FAILURE") = c.count
                /\ Count("SKIPPED") \in Nat /\ c.skips <= Count("SKIPPED")
                /\ Count("SUCCESS") \in Nat
    <3>1. told => /\ Count("SUCCESS") = Cardinality(S("SUCCESS"))
                  /\ Count("FAILURE") = Cardinality(S("FAILURE"))
                  /\ Count("SKIPPED") = Cardinality(S("SKIPPED"))
      BY <1>15
    <3> QED
      BY <1>14, <1>17, <1>23, <2>1, <3>1
  <2> HIDE DEF rest
  <2>5. CASE Succeeds(n, c)
    <3>1. ASSUME told PROVE Promised("SUCCESS")
      <4> DEFINE q == Threshold(n, "success")
                 succ == Count("SUCCESS")
                 skip == Count("SKIPPED")
      <4>1. \/ succ >= q
            \/ Port("param", n).success < 0 /\ succ + c.skips >= q
        BY <2>4, <2>5, <3>1 DEF Succeeds
      <4>2. succ \in Nat /\ skip \in Nat /\ c.skips \in Nat /\ c.skips <= skip /\ q \in Int
        BY <1>16, <1>26, <2>1, <2>4, <3>1
      <4>3. succ + (IF Port("param", n).success < 0 THEN skip ELSE 0) >= q
        <5> HIDE DEF q, succ, skip
        <5> QED
          BY <4>1, <4>2
      <4>4. Count("SUCCESS") + (IF Port("param", X).success < 0 THEN Count("SKIPPED") ELSE 0)
              >= Threshold(X, "success")
        BY <3>1, <4>3 DEF told
      <4>5. Kind(X) = "Parallel" /\ Kind(X) \notin Ordered \cup Reactives
        BY <1>5, <2>1, <3>1 DEF told
      <4> QED
        BY <1>4, <4>4, <4>5, PromisedParallel DEF Parallels, Completed
    <3>2. Return(n, "SUCCESS", Blank, ChildSet(n))
      BY <2>3, <2>5
    <3> QED
      BY <1>20, <3>1, <3>2
  <2>6. CASE ~Succeeds(n, c) /\ Fails(n, c)
    <3>1. ASSUME told PROVE Promised("FAILURE")
      <4>1. \/ N(X) - Count("FAILURE") < Threshold(X, "success")
            \/ Count("FAILURE") = Threshold(X, "failure")
        <5>1. \/ N(n) - c.count < Threshold(n, "success")
              \/ c.count = Threshold(n, "failure")
          BY <2>6 DEF Fails
        <5> QED
          BY <2>4, <3>1, <5>1 DEF told
      <4>2. Kind(X) = "Parallel" /\ Kind(X) \notin Ordered \cup Reactives /\ "FAILURE" # "SUCCESS"
        BY <1>5, <2>1, <3>1 DEF told
      <4> QED
        BY <1>4, <4>1, <4>2, PromisedParallel DEF Parallels, Completed
    <3>2. Return(n, "FAILURE", Blank, ChildSet(n))
      BY <2>3, <2>6
    <3> QED
      BY <1>20, <3>1, <3>2
  <2>7. CASE ~Succeeds(n, c) /\ ~Fails(n, c) /\ rest # {}
    BY <1>25, <2>1, <2>3, <2>7
  <2>8. CASE ~Succeeds(n, c) /\ ~Fails(n, c) /\ rest = {}
    <3>1. PICK s \in {"SKIPPED", "RUNNING"} : Return(n, s, idle, {})
      BY <2>3, <2>8
    <3> QED
      BY <1>21, <2>1, <3>1
  <2> QED
    BY <2>5, <2>6, <2>7, <2>8
<1>28. CASE ParallelAllBack(n)
  <2> DEFINE all == c.skips + Cardinality(c.done) >= N(n)
             s == IF c.count >= Threshold(n, "failure") THEN "FAILURE" ELSE "SUCCESS"
  <2>1. ret # None /\ Kind(n) = "ParallelAll" /\ c.idx = m.idx
    BY <1>16, <1>28 DEF ParallelAllBack, Back
  <2>2. rest = Pending(n, c, c.idx)
    BY <2>1 DEF c
  <2>3. /\ ret # None
        /\ CASE rest # {} -> Call(n, "RUNNING", At(c, First(rest)), {}, First(rest))
             [] rest = {} /\ c.skips = N(n) -> Return(n, "SKIPPED", idle, {})
             [] rest = {} /\ c.skips # N(n) /\ all -> Return(n, s, Blank, ChildSet(n))
             [] OTHER -> Return(n, "RUNNING", idle, {})
    <3> HIDE DEF rest
    <3> QED
      BY <1>28, <2>1, <2>2 DEF ParallelAllBack, m, c
  <2>4. CASE rest # {}
    BY <1>25, <2>1, <2>3, <2>4
  <2>5. CASE rest = {} /\ c.skips = N(n)
    <3>1. Return(n, "SKIPPED", idle, {})
      BY <2>3, <2>5
    <3> QED
      BY <1>21, <2>1, <3>1
  <2>6. CASE rest = {} /\ c.skips # N(n) /\ all
    <3>1. Return(n, s, Blank, ChildSet(n)) /\ s \in {"SUCCESS", "FAILURE"}
      BY <2>3, <2>6
    <3>2. (s = "FAILURE") = (c.count >= Threshold(n, "failure"))
      OBVIOUS
    <3> HIDE DEF s
    <3>3. ASSUME told PROVE Promised(s)
      <4>1. c.skips = Cardinality(S("SKIPPED")) /\ c.done = D
        BY <1>17, <1>22, <2>1, <2>6, <3>3
      <4>2. \A j \in 1 .. k : got[j] \in Completed \cup {"SKIPPED"}
        BY <1>14, <2>6, <4>1
      <4>3. \A j \in 1 .. N(X) : got[j] \notin {None, "RUNNING"}
        <5>1. None # "SKIPPED"
          BY DEF None
        <5> QED
          BY <1>4, <3>3, <4>2, <5>1 DEF told
      <4>4. Count("FAILURE") = c.count
        BY <1>15, <1>17, <2>1, <3>3
      <4>5. (s = "FAILURE") = (Count("FAILURE") >= Threshold(X, "failure"))
        BY <3>2, <3>3, <4>4 DEF told
      <4>6. Kind(X) = "ParallelAll" /\ Kind(X) \notin Ordered \cup Reactives
        BY <1>5, <2>1, <3>3 DEF told
      <4> QED
        BY <3>1, <4>3, <4>5, <4>6, PromisedParallel DEF Parallels, Completed
    <3> QED
      BY <1>20, <3>1, <3>3
  <2>7. CASE rest = {} /\ c.skips # N(n) /\ ~all
    <3>1. Return(n, "RUNNING", idle, {})
      BY <2>3, <2>7
    <3> QED
      BY <1>21, <2>1, <3>1
  <2> QED
    BY <2>4, <2>5, <2>6, <2>7
<1>29. ~ParallelThrow(n)
  BY DEF ParallelThrow, Throw
<1> QED
  BY <1>24, <1>27, <1>28, <1>29 DEF ParallelStep

\* IfThenElse and WhileDoElse, but for an exception.
LEMMA BranchTold ==
  ASSUME IInv, StartedInv, HistInv, NEW n, Inside(n), BranchStep(n), ret' # "EXCEPTION",
         Kind(n) # "Switch"
  PROVE  Continues(n) \/ Answers(n)
<1> DEFINE m == mem[n]
           C == DoneIdx(n)
           told == n = X /\ Asked
<1>1. /\ n \in Nodes /\ tree \in DOMAIN Forest /\ ret \in Results \cup {None}
      /\ C \subseteq DOMAIN Children(n)
  BY Here
<1>2. \/ BranchTick(n) \/ BranchChoose(n) \/ BranchNoElse(n) \/ BranchRunning(n) \/ BranchDone(n)
  <2>1. ~BranchThrow(n)
    BY DEF BranchThrow, Throw
  <2>2. ~SwitchTick(n) /\ ~SwitchBack(n)
    BY DEF SwitchTick, SwitchBack, Entered, Back
  <2> QED
    BY <2>1, <2>2 DEF BranchStep
<1>3. Kind(n) \in {"IfThenElse", "WhileDoElse"}
  BY <1>2 DEF BranchTick, BranchChoose, BranchNoElse, BranchRunning, BranchDone, Entered, Back
<1>4. n \in DOMAIN mem /\ Mem(n) = m /\ m \in MemType(n)
  BY <1>3, Here DEF WithMem, Branches
<1>5. /\ DOMAIN Children(n) = 1 .. N(n) /\ N(n) \in 2 .. 3 /\ 1 \in 1 .. N(n) /\ 2 \in 1 .. N(n)
      /\ "RUNNING" \in Results /\ "RUNNING" \in Statuses /\ "RUNNING" \notin Completed
      /\ "SKIPPED" \notin Completed /\ None \notin Results /\ "FAILURE" \in Results
      /\ Completed \subseteq Results /\ None \notin Completed
  <2>1. /\ DOMAIN Children(n) = 1 .. N(n) /\ N(n) \in 2 .. 3
    BY <1>1, <1>3, ArityFacts
  <2> QED
    BY <1>3, <2>1, Ticked DEF Controls, Branches, Completed
<1>6. /\ Kind(n) \notin Ordered \cup Reactives \cup Parallels \cup {"Switch", "TryCatch"}
      /\ Kind(n) \notin Loops \cup {"Loop", "RunOnce", "Precondition", "Updated", "Timeout"}
  BY <1>3, Kinds
<1>7. \A m2 : CurIdx(n, m2) = m2.idx
  BY <1>3, <1>6 DEF CurIdx, Controls, Branches
<1>8. \A m2 : Settled(n, m2) = IF Kind(n) = "WhileDoElse" \/ m2.idx > 1 \/ N(n) = 2 THEN {1} ELSE {}
  BY <1>3, <1>6 DEF Settled
<1>9. Blank \in MemType(n) /\ Blank.idx = 1
  BY BlankFacts
<1>10. C \subseteq Settled(n, m) \cup (IF ret \in Completed THEN {m.idx} ELSE {})
  BY <1>4, <1>7, ToldHere
<1>11. told => /\ HistOK(n, status[n], m, IF ret = None THEN "entered" ELSE "back", ret, got, tries)
               /\ ret = None => status[n] \in {"IDLE", "RUNNING"}
  BY <1>4, ToldHere
<1>12. told => got \in [DOMAIN Children(n) -> Results \cup {None}] /\ tries \in Nat
  BY <1>11 DEF HistOK
<1>13. m.idx \in 1 .. N(n)
  BY <1>4, <1>5 DEF MemType
<1>14. ret = None /\ status[n] # "RUNNING" => m.idx = 1
  <2>1. ASSUME ret = None PROVE NodeOK(n, status[n], m, FALSE, LiveIdx(n), C, FALSE)
    BY <1>4, <2>1, Here
  <2> QED
    BY <1>3, <2>1 DEF NodeOK, BranchOK
<1>15. ASSUME told, ret # None
       PROVE  got[m.idx] = ret /\ (m.idx = 2 => got[1] = "SUCCESS") /\ (m.idx = 3 => got[1] = "FAILURE")
  <2>1. HistOK(n, status[n], m, "back", ret, got, tries)
    BY <1>11, <1>15, Zenon
  <2>2. BranchHist(n, status[n], m, "back", got) /\ got[m.idx] = ret
    BY <1>3, <1>7, <2>1 DEF HistOK
  <2> QED
    BY <2>2 DEF BranchHist
<1> HIDE DEF m, C, told
<1>16. ASSUME told, NEW s, NEW m2, NEW p \in {"waits", "out"}, NEW r,
              (m2.idx = 2 => got[1] = "SUCCESS") /\ (m2.idx = 3 => got[1] = "FAILURE")
       PROVE  HistOK(n, s, m2, p, r, got, tries)
  BY <1>6, <1>12, <1>16 DEF HistOK, BranchHist
<1>17. \A i \in 1 .. N(n) : At(m, i) \in MemType(n) /\ At(m, i).idx = i
  BY <1>4, <1>5 DEF At, MemType
<1>18. ASSUME told, NEW s \in Completed,
              \/ got[1] = "SUCCESS" /\ got[2] = s
              \/ got[1] = "FAILURE" /\ s = (IF N(n) = 3 THEN got[3] ELSE "FAILURE")
       PROVE  Promised(s)
  <2>1. n = X
    BY <1>18 DEF told
  <2>2. /\ Kind(X) \in {"IfThenElse", "WhileDoElse"} /\ Kind(X) \notin Ordered \cup Reactives
        /\ Kind(X) # "Parallel" /\ Kind(X) # "ParallelAll"
        /\ Kind(X) \notin Loops
        /\ Kind(X) \notin {"Switch", "Inverter", "ForceSuccess", "ForceFailure", "KeepRunning", "Loop",
                           "RunOnce", "Precondition", "Updated", "Timeout"}
    BY <1>3, <2>1, Kinds
  <2>3. \/ got[1] = "SUCCESS" /\ got[2] = s
        \/ got[1] = "FAILURE" /\ s = (IF N(X) = 3 THEN got[3] ELSE "FAILURE")
    BY <1>18, <2>1
  <2> QED
    BY <2>2, <2>3, Zenon DEF Promised
<1>19. CASE BranchTick(n)
  <2> DEFINE i == IF Kind(n) = "IfThenElse" THEN m.idx ELSE 1
  <2>1. Call(n, "RUNNING", At(m, i), {}, i) /\ ret = None
    BY <1>19 DEF BranchTick, Entered, m
  <2>2. i \in 1 .. N(n) /\ (Kind(n) = "IfThenElse" => i = m.idx) /\ (Kind(n) = "WhileDoElse" => i = 1)
    BY <1>3, <1>5, <1>13
  <2> HIDE DEF i
  <2>3. C \ Index(n, {}) \subseteq Settled(n, At(m, i))
    <3>1. C \subseteq Settled(n, m)
      BY <1>5, <1>10, <2>1
    <3>2. Settled(n, At(m, i)) = Settled(n, m)
      BY <1>3, <1>8, <1>17, <2>2
    <3> QED
      BY <3>1, <3>2
  <2>4. ASSUME told PROVE HistOK(n, "RUNNING", At(m, i), "waits", None, got, tries)
    <3>1. HistOK(n, status[n], m, "entered", ret, got, tries) /\ status[n] \in {"IDLE", "RUNNING"}
      BY <1>11, <2>1, <2>4, Zenon
    <3>2. BranchHist(n, status[n], m, "entered", got)
      BY <1>3, <3>1 DEF HistOK
    <3>3. (i = 2 => got[1] = "SUCCESS") /\ (i = 3 => got[1] = "FAILURE")
      BY <1>3, <1>14, <2>1, <2>2, <3>1, <3>2 DEF BranchHist
    <3>4. At(m, i).idx = i
      BY <1>17, <2>2
    <3> QED
      BY <1>16, <2>4, <3>3, <3>4
  <2> QED
    BY <1>1, <1>4, <1>5, <1>7, <1>17, <2>1, <2>2, <2>3, <2>4, ContinuesIs DEF C, told
<1>20. CASE BranchChoose(n)
  <2> DEFINE i == IF ret = "SUCCESS" THEN 2 ELSE 3
             H == IF Kind(n) = "WhileDoElse" /\ N(n) = 3 THEN {Child(n, 5 - i)} ELSE {}
  <2>1. Call(n, "RUNNING", At(m, i), H, i) /\ ret \in Completed /\ m.idx = 1 /\ i <= N(n)
    BY <1>20 DEF BranchChoose, Back, m
  <2>2. i \in 1 .. N(n) /\ i > 1
    BY <1>5, <2>1
  <2>3. H \in SUBSET ChildSet(n)
    <3>1. N(n) = 3 => 5 - i \in DOMAIN Children(n)
      BY <1>5
    <3> QED
      BY <1>1, <3>1, TreeFacts
  <2>4. (i = 2 => ret = "SUCCESS") /\ (i = 3 => ret = "FAILURE")
    BY <2>1 DEF Completed
  <2> HIDE DEF i, H
  <2>5. At(m, i).idx = i /\ At(m, i) \in MemType(n)
    BY <1>17, <2>2
  <2>6. C \ Index(n, H) \subseteq Settled(n, At(m, i))
    <3>1. C \subseteq {1}
      BY <1>8, <1>10, <2>1
    <3>2. Settled(n, At(m, i)) = {1}
      BY <1>8, <2>2, <2>5
    <3> QED
      BY <3>1, <3>2
  <2>7. ASSUME told PROVE HistOK(n, "RUNNING", At(m, i), "waits", None, got, tries)
    <3>1. got[1] = ret
      BY <1>5, <1>15, <2>1, <2>7
    <3> QED
      BY <1>16, <2>4, <2>5, <2>7, <3>1
  <2> QED
    BY <1>1, <1>4, <1>5, <1>7, <2>1, <2>2, <2>3, <2>5, <2>6, <2>7, ContinuesIs DEF C, told
<1>21. CASE BranchNoElse(n)
  <2> DEFINE H == IF Kind(n) = "IfThenElse" THEN {} ELSE ChildSet(n)
  <2>1. Return(n, "FAILURE", m, H) /\ ret = "FAILURE" /\ m.idx = 1 /\ N(n) = 2
    BY <1>21 DEF BranchNoElse, Back, m
  <2>2. H \in SUBSET ChildSet(n)
    OBVIOUS
  <2> HIDE DEF H
  <2>3. C \ Index(n, H) \subseteq Settled(n, m)
    BY <1>8, <1>10, <2>1
  <2>4. ASSUME told PROVE HistOK(n, "FAILURE", m, "out", "FAILURE", got, tries) /\ Promised("FAILURE")
    <3>1. got[1] = "FAILURE"
      BY <1>5, <1>15, <2>1, <2>4
    <3> QED
      BY <1>16, <1>18, <2>1, <2>4, <3>1 DEF Completed
  <2> QED
    BY <1>1, <1>4, <1>5, <2>1, <2>2, <2>3, <2>4, AnswersIs DEF C, told
<1>22. CASE BranchRunning(n)
  <2> DEFINE i == IF Kind(n) = "IfThenElse" THEN m.idx ELSE 1
  <2>1. Return(n, "RUNNING", At(m, i), {}) /\ ret = "RUNNING"
    BY <1>22 DEF BranchRunning, Back, m
  <2>2. i \in 1 .. N(n) /\ (Kind(n) = "IfThenElse" => i = m.idx) /\ (Kind(n) = "WhileDoElse" => i = 1)
    BY <1>3, <1>5, <1>13
  <2> HIDE DEF i
  <2>3. C \ Index(n, {}) \subseteq Settled(n, At(m, i))
    <3>1. C \subseteq Settled(n, m)
      BY <1>5, <1>10, <2>1
    <3>2. Settled(n, At(m, i)) = Settled(n, m)
      BY <1>3, <1>8, <1>17, <2>2
    <3> QED
      BY <3>1, <3>2
  <2>4. ASSUME told PROVE HistOK(n, "RUNNING", At(m, i), "out", "RUNNING", got, tries)
    <3>1. (i = 2 => got[1] = "SUCCESS") /\ (i = 3 => got[1] = "FAILURE")
      BY <1>3, <1>5, <1>15, <2>1, <2>2, <2>4
    <3>2. At(m, i).idx = i
      BY <1>17, <2>2
    <3> QED
      BY <1>16, <2>4, <3>1, <3>2
  <2>5. {} \in SUBSET ChildSet(n)
    OBVIOUS
  <2> QED
    BY <1>1, <1>4, <1>5, <1>17, <2>1, <2>2, <2>3, <2>4, <2>5, AnswersIs DEF C, told
<1>23. CASE BranchDone(n)
  <2>1. Return(n, ret, Blank, ChildSet(n)) /\ ret \in Results /\ ret # None /\ m.idx > 1
    BY <1>1, <1>23 DEF BranchDone, Back, m
  <2>2. ASSUME told
        PROVE  /\ HistOK(n, IF ret = "SKIPPED" THEN status[n] ELSE ret, Blank, "out", ret, got, tries)
               /\ ret \in Completed => Promised(ret)
    <3>1. HistOK(n, IF ret = "SKIPPED" THEN status[n] ELSE ret, Blank, "out", ret, got, tries)
      BY <1>9, <1>16, <2>2
    <3>2. ASSUME ret \in Completed PROVE Promised(ret)
      <4>1. m.idx \in {2, 3} /\ (m.idx = 3 => N(n) = 3)
        BY <1>5, <1>13, <2>1
      <4> QED
        BY <1>15, <1>18, <2>1, <2>2, <3>2, <4>1
    <3> QED
      BY <3>1, <3>2
  <2> QED
    BY <1>1, <1>4, <1>9, <2>1, <2>2, AnswersAll DEF told
<1> QED
  BY <1>2, <1>19, <1>20, <1>21, <1>22, <1>23

\* Switch.
LEMMA SwitchTold ==
  ASSUME IInv, StartedInv, HistInv, NEW n, Inside(n), Kind(n) = "Switch",
         SwitchTick(n) \/ SwitchBack(n)
  PROVE  Continues(n) \/ Answers(n)
<1> DEFINE m == mem[n]
           C == DoneIdx(n)
           told == n = X /\ Asked
<1>1. /\ n \in Nodes /\ tree \in DOMAIN Forest /\ ret \in Results \cup {None}
      /\ status[n] \in Statuses /\ C \subseteq DOMAIN Children(n)
  BY Here
<1>2. n \in DOMAIN mem /\ Mem(n) = m /\ m \in MemType(n)
  BY Here DEF WithMem, Branches
<1>3. /\ DOMAIN Children(n) = 1 .. N(n) /\ N(n) \in Nat
      /\ "RUNNING" \in Results /\ "RUNNING" \notin Completed
      /\ "SKIPPED" \notin Completed /\ None \notin Results /\ None \notin Completed
  BY Ticked DEF Controls, Branches, Completed, None
<1>4. /\ Kind(n) \notin Ordered \cup Reactives \cup Parallels
      /\ Kind(n) \notin Loops \cup {"Loop", "RunOnce", "Precondition", "Updated", "Timeout"}
  BY Kinds
<1>5. \A m2 : CurIdx(n, m2) = m2.idx /\ Settled(n, m2) = {}
  BY <1>4 DEF CurIdx, Controls, Branches, Settled
<1>6. Blank \in MemType(n)
  BY BlankFacts
<1>7. C \subseteq (IF ret \in Completed THEN {m.idx} ELSE {})
  BY <1>2, <1>5, ToldHere
<1>8. told => HistOK(n, status[n], m, IF ret = None THEN "entered" ELSE "back", ret, got, tries)
  BY <1>2, ToldHere
<1>9. told => got \in [DOMAIN Children(n) -> Results \cup {None}] /\ tries \in Nat
  BY <1>8 DEF HistOK
<1>10. m.idx \in {1} \cup DOMAIN Children(n) /\ m.count \in Nat
  BY <1>2 DEF MemType
<1>11. ret # None => m.idx \in 1 .. N(n)
  BY <1>2, <1>3, <1>5, Here
<1>12. ASSUME ret = None PROVE m.count \in 0 .. N(n)
  <2>1. NodeOK(n, status[n], m, FALSE, LiveIdx(n), C, FALSE)
    BY <1>2, <1>12, Here
  <2> QED
    BY <2>1 DEF NodeOK, SwitchOK
<1> HIDE DEF m, C, told
<1>13. ASSUME told, NEW s, NEW m2, NEW p \in {"waits", "out"}, NEW r,
              p = "waits" => \A j \in 1 .. N(n) : j # m2.idx => got[j] = None
       PROVE  HistOK(n, s, m2, p, r, got, tries)
  BY <1>4, <1>9, <1>13 DEF HistOK
<1>14. CASE SwitchTick(n)
  <2>1. PICK i \in DOMAIN Children(n) :
           Call(n, status[n], At(m, i), IF m.count \in {0, i} THEN {} ELSE {Child(n, m.count)}, i)
    BY <1>14 DEF SwitchTick, m
  <2> DEFINE H == IF m.count \in {0, i} THEN {} ELSE {Child(n, m.count)}
  <2>2. ret = None
    BY <1>14 DEF SwitchTick, Entered
  <2>3. H \in SUBSET ChildSet(n)
    <3>1. m.count # 0 => m.count \in DOMAIN Children(n)
      BY <1>3, <1>12, <2>2
    <3> QED
      BY <1>1, <3>1, TreeFacts
  <2>4. Call(n, status[n], At(m, i), H, i)
    BY <2>1
  <2> HIDE DEF H
  <2>5. At(m, i) \in MemType(n) /\ At(m, i).idx = i
    BY <1>2 DEF At, MemType
  <2>6. C \ Index(n, H) \subseteq Settled(n, At(m, i))
    BY <1>3, <1>7, <2>2
  <2>7. ASSUME told PROVE HistOK(n, status[n], At(m, i), "waits", None, got, tries)
    <3>1. HistOK(n, status[n], m, "entered", ret, got, tries)
      BY <1>8, <2>2, <2>7, Zenon
    <3>2. \A j \in DOMAIN Children(n) : got[j] = None
      BY <3>1 DEF HistOK
    <3> QED
      BY <1>3, <1>13, <2>7, <3>2
  <2> QED
    BY <1>1, <1>2, <1>5, <2>3, <2>4, <2>5, <2>6, <2>7, ContinuesIs DEF C, told
<1>15. ASSUME NEW m2 \in MemType(n), NEW s \in Results \ Completed, ret = s, Return(n, s, m2, {})
       PROVE  Answers(n)
  <2>1. C \ Index(n, {}) \subseteq Settled(n, m2)
    BY <1>7, <1>15
  <2>2. told => HistOK(n, IF s = "SKIPPED" THEN status[n] ELSE s, m2, "out", s, got, tries)
    BY <1>13
  <2>3. {} \in SUBSET ChildSet(n)
    OBVIOUS
  <2> QED
    BY <1>1, <1>2, <1>15, <2>1, <2>2, <2>3, AnswersIs DEF C, told
<1>16. CASE SwitchBack(n)
  <2>1. /\ ret # None /\ ret \in Results
        /\ CASE ret = "SKIPPED" -> Return(n, ret, Blank, {})
             [] ret = "RUNNING" -> Return(n, ret, [Blank EXCEPT !.count = m.idx], {})
             [] OTHER           -> Return(n, ret, Blank, ChildSet(n))
    BY <1>1, <1>16 DEF SwitchBack, Back, m
  <2>2. CASE ret = "SKIPPED"
    BY <1>3, <1>6, <1>15, <2>1, <2>2
  <2>3. CASE ret = "RUNNING"
    <3>1. [Blank EXCEPT !.count = m.idx] \in MemType(n)
      <4>1. m.idx \in Nat
        BY <1>3, <1>10
      <4> QED
        BY <4>1 DEF Blank, MemType
    <3> QED
      BY <1>3, <1>15, <2>1, <2>3, <3>1
  <2>4. CASE ret # "SKIPPED" /\ ret # "RUNNING"
    <3>1. ASSUME told PROVE HistOK(n, ret, Blank, "out", ret, got, tries)
      BY <1>13, <3>1
    <3>2. ASSUME told PROVE Promised(ret)
      <4>1. HistOK(n, status[n], m, "back", ret, got, tries) /\ n = X
        BY <1>8, <2>1, <3>2, Zenon DEF told
      <4>2. got[m.idx] = ret /\ \A j \in 1 .. N(n) : j # m.idx => got[j] = None
        BY <1>5, <4>1 DEF HistOK
      <4>3. \E i \in 1 .. N(X) : got[i] = ret /\ \A j \in 1 .. N(X) \ {i} : got[j] = None
        BY <1>11, <2>1, <4>1, <4>2
      <4>4. /\ Kind(X) = "Switch" /\ Kind(X) \notin Ordered \cup Reactives
            /\ Kind(X) # "Parallel" /\ Kind(X) # "ParallelAll"
            /\ Kind(X) \notin {"IfThenElse", "WhileDoElse"}
            /\ Kind(X) \notin Loops
            /\ Kind(X) \notin {"Inverter", "ForceSuccess", "ForceFailure", "KeepRunning", "Loop",
                               "RunOnce", "Precondition", "Updated", "Timeout"}
        BY <4>1, Kinds
      <4> QED
        BY <4>3, <4>4, Zenon DEF Promised
    <3> QED
      BY <1>1, <1>2, <1>6, <2>1, <2>4, <3>1, <3>2, AnswersAll DEF told
  <2> QED
    BY <2>2, <2>3, <2>4
<1> QED
  BY <1>14, <1>16

-----------------------------------------------------------------------------
(* Decorators                                                              *)

\* What the history tells of a decorator, by its kind.
DecoratorHist(n, s, m, p, r, g, t) ==
  /\ Kind(n) \in Loops     => LoopHist(n, s, m, p, r, t)
  /\ Kind(n) = "Loop"      => QueueHist(n, s, m, p, r, t)
  /\ Kind(n) = "RunOnce"   => t = IF m.on \/ (p = "back" /\ r \in Completed) THEN 1 ELSE 0
  /\ Kind(n) \in {"Precondition", "Updated"} =>
       (s = "RUNNING" /\ p \in {"out", "entered"} /\ g[1] = "RUNNING" => m.on)
  /\ Kind(n) = "Timeout"   => (s = "RUNNING" /\ p # "back" => g[1] \notin Completed)

\* What a decorator may return.
PromisedDecorator(s) ==
  LET k == Kind(X)
      param == Port("param", X) IN
  /\ k = "Inverter"     => got[1] \in Completed \ {s}
  /\ k = "ForceSuccess" => s = "SUCCESS" /\ got[1] \in Completed
  /\ k = "ForceFailure" => s = "FAILURE" /\ got[1] \in Completed
  /\ k = "KeepRunning"  => s = "FAILURE" /\ got[1] = s
  /\ k \in Loops        => (s = Again(X) => tries = param) /\ (got[1] = s \/ param = 0)
  /\ k = "Loop"         => \/ s = "FAILURE" /\ got[1] = s
                           \/ s = Port("else", X) /\ tries = param
  /\ k = "RunOnce"      => got[1] = s /\ tries = 1
  /\ k \in {"Precondition", "Updated"} => got[1] = s \/ (s = Port("else", X) /\ got[1] # "RUNNING")
  /\ k = "Timeout"      => got[1] = s \/ (s = "FAILURE" /\ got[1] \notin Completed)
  /\ k \in {"SubTree", "Delay"} => got[1] = s

\* Of the cases of Promised those of the decorators are left.
LEMMA PromisedAtDecorator ==
  ASSUME NEW s, PromisedDecorator(s), Kind(X) \in Decorators
  PROVE  Promised(s)
<1>1. /\ Kind(X) \in {"Inverter", "ForceSuccess", "ForceFailure", "KeepRunning", "SubTree",
                      "Precondition", "Updated", "RunOnce", "Loop", "Delay", "Timeout"}
           \/ Kind(X) \in Loops
      /\ Kind(X) \in Loops => Kind(X) \notin {"Inverter", "ForceSuccess", "ForceFailure", "KeepRunning",
                 "SubTree", "Precondition", "Updated", "RunOnce", "Loop", "Delay", "Timeout"}
      /\ Kind(X) \notin Ordered \cup Reactives
      /\ Kind(X) # "Parallel" /\ Kind(X) # "ParallelAll"
      /\ Kind(X) \notin {"IfThenElse", "WhileDoElse"} /\ Kind(X) # "Switch"
  BY DEF Decorators, Plain, Clocked, Loops, Ordered, Sequences_, Fallbacks, Reactives
<1>2. CASE Kind(X) \in Loops
  <2>1. /\ Kind(X) # "Inverter" /\ Kind(X) # "ForceSuccess" /\ Kind(X) # "ForceFailure"
        /\ Kind(X) # "KeepRunning"
    BY <1>1, <1>2
  <2>2. (s = Again(X) => tries = Port("param", X)) /\ (got[1] = s \/ Port("param", X) = 0)
    BY <1>2, Zenon DEF PromisedDecorator
  <2>3. /\ Kind(X) # "Loop" /\ Kind(X) # "RunOnce" /\ Kind(X) # "Timeout"
        /\ Kind(X) \notin {"Precondition", "Updated"}
    BY <1>1, <1>2
  <2> QED
    BY <1>1, <1>2, <2>1, <2>2, <2>3, Zenon DEF Promised
<1>3. CASE Kind(X) \in {"Inverter", "ForceSuccess", "ForceFailure", "KeepRunning"}
  <2>1. Kind(X) \notin Loops /\ Kind(X) \notin {"Precondition", "Updated", "RunOnce", "Loop", "Timeout"}
    BY <1>1, <1>3
  <2>2. /\ Kind(X) = "Inverter"     => got[1] \in Completed \ {s}
        /\ Kind(X) = "ForceSuccess" => s = "SUCCESS" /\ got[1] \in Completed
        /\ Kind(X) = "ForceFailure" => s = "FAILURE" /\ got[1] \in Completed
        /\ Kind(X) = "KeepRunning"  => s = "FAILURE" /\ got[1] = s
    BY Zenon DEF PromisedDecorator
  <2> QED
    BY <1>1, <1>3, <2>1, <2>2 DEF Promised
<1>4. CASE Kind(X) \in {"Precondition", "Updated", "RunOnce", "Loop"}
  <2>1. /\ Kind(X) # "Inverter" /\ Kind(X) # "ForceSuccess" /\ Kind(X) # "ForceFailure"
        /\ Kind(X) # "KeepRunning" /\ Kind(X) \notin Loops
    BY <1>1, <1>4
  <2>2. Kind(X) # "Timeout"
    BY <1>4
  <2>3. /\ Kind(X) = "Loop"  => \/ s = "FAILURE" /\ got[1] = s
                                \/ s = Port("else", X) /\ tries = Port("param", X)
        /\ Kind(X) = "RunOnce" => got[1] = s /\ tries = 1
        /\ Kind(X) \in {"Precondition", "Updated"}
             => got[1] = s \/ (s = Port("else", X) /\ got[1] # "RUNNING")
    BY Zenon DEF PromisedDecorator
  <2> QED
    BY <1>1, <1>4, <2>1, <2>2, <2>3 DEF Promised
<1>5. CASE Kind(X) \in {"SubTree", "Delay", "Timeout"}
  <2>1. /\ Kind(X) # "Inverter" /\ Kind(X) # "ForceSuccess" /\ Kind(X) # "ForceFailure"
        /\ Kind(X) # "KeepRunning" /\ Kind(X) \notin Loops
        /\ Kind(X) \notin {"Precondition", "Updated"} /\ Kind(X) # "RunOnce" /\ Kind(X) # "Loop"
    BY <1>1, <1>5
  <2>2. /\ Kind(X) = "Timeout" => got[1] = s \/ (s = "FAILURE" /\ got[1] \notin Completed)
        /\ Kind(X) \in {"SubTree", "Delay"} => got[1] = s
    BY Zenon DEF PromisedDecorator
  <2> QED
    BY <1>1, <1>5, <2>1, <2>2 DEF Promised
<1> QED
  BY <1>1, <1>2, <1>3, <1>4, <1>5

\* What is known of a decorator that is ticked.
LEMMA DecoratorTold ==
  ASSUME IInv, StartedInv, HistInv, NEW n, Inside(n), Kind(n) \in Decorators
  PROVE  /\ n \in Nodes /\ tree \in DOMAIN Forest /\ ret \in Results \cup {None}
         /\ status[n] \in Statuses /\ Mem(n) \in MemType(n) /\ N(n) = 1
         /\ IF n \in DOMAIN mem THEN Mem(n) = mem[n] ELSE Mem(n) = Blank
         /\ n \in DOMAIN mem <=> Kind(n) \in WithMem
         /\ ret \notin Completed => DoneIdx(n) = {}
         /\ n = X /\ Asked =>
              /\ DecoratorHist(n, status[n], Mem(n), IF ret = None THEN "entered" ELSE "back",
                               ret, got, tries)
              /\ ret # None => got[1] = ret
              /\ ret = None /\ status[n] = "IDLE" /\ Kind(n) # "RunOnce" => got[1] = None /\ tries = 0
              /\ ret = None => status[n] \in {"IDLE", "RUNNING"}
              /\ got[1] \in Results \cup {None} /\ tries \in Nat
              /\ \A s, m, r : \A p \in {"waits", "out"} :
                   DecoratorHist(n, s, m, p, r, got, tries) => HistOK(n, s, m, p, r, got, tries)
<1>1. /\ n \in Nodes /\ tree \in DOMAIN Forest /\ ret \in Results \cup {None}
      /\ status[n] \in Statuses /\ Mem(n) \in MemType(n)
      /\ IF n \in DOMAIN mem THEN Mem(n) = mem[n] ELSE Mem(n) = Blank
      /\ n \in DOMAIN mem <=> Kind(n) \in WithMem
  BY Here
<1>2. N(n) = 1 /\ DOMAIN Children(n) = {1}
  BY <1>1, ArityFacts, DecoratorFacts
<1>3. /\ Kind(n) \notin Ordered \cup Reactives \cup Parallels \cup {"IfThenElse", "WhileDoElse", "Switch"}
      /\ Kind(n) # "SequenceWithMemory"
  BY DEF Decorators, Plain, Clocked, Loops, Ordered, Sequences_, Fallbacks, Reactives, Parallels
<1>4. ret \notin Completed => DoneIdx(n) = {}
  BY DecoratorFacts
<1>5. ASSUME n = X, Asked
      PROVE  /\ DecoratorHist(n, status[n], Mem(n), IF ret = None THEN "entered" ELSE "back",
                               ret, got, tries)
             /\ ret # None => got[1] = ret
             /\ ret = None /\ status[n] = "IDLE" /\ Kind(n) # "RunOnce" => got[1] = None /\ tries = 0
             /\ ret = None => status[n] \in {"IDLE", "RUNNING"}
             /\ got \in [DOMAIN Children(n) -> Results \cup {None}] /\ tries \in Nat
  <2> DEFINE m == Mem(n)
             p == IF ret = None THEN "entered" ELSE "back"
  <2>1. HistOK(n, status[n], m, p, ret, got, tries) /\ (ret = None => status[n] \in {"IDLE", "RUNNING"})
    BY <1>5, ToldHere
  <2>2. CurIdx(n, m) = 1 /\ (p = "back" <=> ret # None) /\ (p = "entered" <=> ret = None)
    BY DecoratorFacts
  <2> HIDE DEF m, p
  <2>3. DecoratorHist(n, status[n], m, p, ret, got, tries)
    BY <2>1 DEF HistOK, DecoratorHist
  <2>4. /\ ret # None => got[1] = ret
        /\ ret = None /\ status[n] = "IDLE" /\ Kind(n) # "RunOnce" => got[1] = None /\ tries = 0
        /\ got \in [DOMAIN Children(n) -> Results \cup {None}] /\ tries \in Nat
    BY <1>2, <1>3, <2>1, <2>2 DEF HistOK
  <2> QED
    BY <2>1, <2>3, <2>4 DEF m, p
<1>6. ASSUME n = X, Asked, NEW s, NEW m, NEW r, NEW p \in {"waits", "out"},
             DecoratorHist(n, s, m, p, r, got, tries)
      PROVE  HistOK(n, s, m, p, r, got, tries)
  BY <1>3, <1>5, <1>6 DEF HistOK, DecoratorHist
<1> QED
  BY <1>1, <1>2, <1>4, <1>5, <1>6

\* A decorator ticks its child.
LEMMA DecoratorContinues ==
  ASSUME IInv, StartedInv, HistInv, NEW n, Inside(n), Kind(n) \in Decorators,
         NEW s \in Statuses, NEW m \in MemType(n), NEW H, Call(n, s, m, H, 1),
         H = ChildSet(n) \/ (H = {} /\ ret \notin Completed),
         n \notin DOMAIN mem => m = Blank, s \in Completed => status[n] \in Completed,
         n = X /\ Asked => DecoratorHist(n, s, m, "waits", None, got, tries)
  PROVE  Continues(n)
<1>1. DOMAIN Children(n) = {1} /\ CurIdx(n, m) = 1 /\ Index(n, ChildSet(n)) = {1}
      /\ DoneIdx(n) \subseteq {1} /\ (ret \notin Completed => DoneIdx(n) = {})
  BY DecoratorFacts
<1>2. DoneIdx(n) \ Index(n, H) \subseteq Settled(n, m) /\ H \in SUBSET ChildSet(n)
  BY <1>1
<1>3. n = X /\ Asked => HistOK(n, s, m, "waits", None, got, tries)
  BY DecoratorTold
<1> QED
  BY <1>1, <1>2, <1>3, ContinuesIs

\* A decorator returns.
LEMMA DecoratorAnswers ==
  ASSUME IInv, StartedInv, HistInv, NEW n, Inside(n), Kind(n) \in Decorators,
         NEW s \in Results, NEW m \in MemType(n), NEW H, Return(n, s, m, H),
         H = ChildSet(n) \/ (H = {} /\ ret \notin Completed),
         n \notin DOMAIN mem => m = Blank,
         n = X /\ Asked =>
           /\ DecoratorHist(n, IF s = "SKIPPED" THEN status[n] ELSE s, m, "out", s, got, tries)
           /\ s \in Completed => PromisedDecorator(s)
  PROVE  Answers(n)
<1>1. Index(n, ChildSet(n)) = {1} /\ n \in Nodes /\ tree \in DOMAIN Forest
      /\ DoneIdx(n) \subseteq {1} /\ (ret \notin Completed => DoneIdx(n) = {})
  BY DecoratorFacts, Here
<1>2. DoneIdx(n) \ Index(n, H) \subseteq Settled(n, m) /\ H \in SUBSET ChildSet(n)
  BY <1>1
<1>3. n = X /\ Asked => HistOK(n, IF s = "SKIPPED" THEN status[n] ELSE s, m, "out", s, got, tries)
  BY DecoratorTold
<1>4. n = X /\ Asked /\ s \in Completed => Promised(s)
  BY PromisedAtDecorator
<1> QED
  BY <1>1, <1>2, <1>3, <1>4, AnswersIs

\* The kinds of decorators are distinct.
LEMMA DecoratorHistIs ==
  ASSUME NEW n
  PROVE  /\ Kind(n) \in Plain \cup {"Delay"} => \A s, m, p, r, g, t : DecoratorHist(n, s, m, p, r, g, t)
         /\ Kind(n) \in Loops => \A s, m, p, r, g, t :
              DecoratorHist(n, s, m, p, r, g, t) <=> LoopHist(n, s, m, p, r, t)
         /\ Kind(n) = "Loop" => \A s, m, p, r, g, t :
              DecoratorHist(n, s, m, p, r, g, t) <=> QueueHist(n, s, m, p, r, t)
         /\ Kind(n) \in {"Precondition", "Updated"} => \A s, m, p, r, g, t :
              DecoratorHist(n, s, m, p, r, g, t)
                <=> (s = "RUNNING" /\ p \in {"out", "entered"} /\ g[1] = "RUNNING" => m.on)
         /\ Kind(n) = "RunOnce" => \A s, m, p, r, g, t :
              DecoratorHist(n, s, m, p, r, g, t)
                <=> t = IF m.on \/ (p = "back" /\ r \in Completed) THEN 1 ELSE 0
         /\ Kind(n) = "Timeout" => \A s, m, p, r, g, t :
              DecoratorHist(n, s, m, p, r, g, t)
                <=> (s = "RUNNING" /\ p # "back" => g[1] \notin Completed)
<1>1. /\ Kind(n) \in Plain \cup {"Delay"} => Kind(n) \notin Loops \cup {"Loop", "RunOnce", "Precondition", "Updated", "Timeout"}
      /\ Kind(n) \in Loops => Kind(n) \notin {"Loop", "RunOnce", "Precondition", "Updated", "Timeout"}
  BY DEF Plain, Loops
<1>2. Kind(n) \in Plain \cup {"Delay"} => \A s, m, p, r, g, t : DecoratorHist(n, s, m, p, r, g, t)
  BY <1>1 DEF DecoratorHist
<1>3. Kind(n) \in Loops => \A s, m, p, r, g, t :
              DecoratorHist(n, s, m, p, r, g, t) <=> LoopHist(n, s, m, p, r, t)
  BY <1>1 DEF DecoratorHist
<1>4. Kind(n) = "Loop" => \A s, m, p, r, g, t :
              DecoratorHist(n, s, m, p, r, g, t) <=> QueueHist(n, s, m, p, r, t)
  BY <1>1 DEF DecoratorHist
<1>5. Kind(n) \in {"Precondition", "Updated"} => \A s, m, p, r, g, t :
              DecoratorHist(n, s, m, p, r, g, t)
                <=> (s = "RUNNING" /\ p \in {"out", "entered"} /\ g[1] = "RUNNING" => m.on)
  BY <1>1 DEF DecoratorHist
<1>6. Kind(n) = "RunOnce" => \A s, m, p, r, g, t :
              DecoratorHist(n, s, m, p, r, g, t)
                <=> t = IF m.on \/ (p = "back" /\ r \in Completed) THEN 1 ELSE 0
  BY <1>1 DEF DecoratorHist
<1>7. Kind(n) = "Timeout" => \A s, m, p, r, g, t :
              DecoratorHist(n, s, m, p, r, g, t)
                <=> (s = "RUNNING" /\ p # "back" => g[1] \notin Completed)
  BY <1>1 DEF DecoratorHist
<1> QED
  BY <1>2, <1>3, <1>4, <1>5, <1>6, <1>7

\* Inverter, ForceSuccess, ForceFailure, KeepRunningUntilFailure and SubTree.
LEMMA PlainTold ==
  ASSUME IInv, StartedInv, HistInv, NEW n, Inside(n), PlainTick(n) \/ PlainBack(n)
  PROVE  Continues(n) \/ Answers(n)
<1> DEFINE told == n = X /\ Asked
<1>1. Kind(n) \in Plain
  BY DEF PlainTick, PlainBack, Entered, Back
<1>2. Kind(n) \in Decorators
  BY <1>1 DEF Decorators
<1>3. status[n] \in Statuses /\ ret \in Results \cup {None} /\ (told /\ ret # None => got[1] = ret)
  BY <1>2, DecoratorTold
<1>4. /\ Completed \subseteq Results /\ "RUNNING" \in Results /\ "RUNNING" \in Statuses
      /\ "RUNNING" \notin Completed /\ None \notin Completed /\ Completed = {"SUCCESS", "FAILURE"}
  BY <1>2, Ticked DEF Completed, None
<1>5. Blank \in MemType(n)
  BY BlankFacts
<1>6. \A s, m, p, r, g, t : DecoratorHist(n, s, m, p, r, g, t)
  BY <1>1, DecoratorHistIs
<1> HIDE DEF told
<1>7. CASE PlainTick(n)
  <2> DEFINE s == IF Kind(n) = "SubTree" THEN RunningIfIdle(n) ELSE "RUNNING"
  <2>1. Call(n, s, Blank, {}, 1) /\ ret = None
    BY <1>7 DEF PlainTick, Entered
  <2>2. s \in Statuses /\ (s \in Completed => status[n] \in Completed)
    BY <1>3, <1>4 DEF RunningIfIdle
  <2> HIDE DEF s
  <2> QED
    BY <1>2, <1>4, <1>5, <1>6, <2>1, <2>2, DecoratorContinues
<1>8. CASE PlainBack(n)
  <2> DEFINE s == PlainResult(n)
  <2>1. Return(n, s, Blank, Finished(n)) /\ ret # None /\ ret \in Results
    BY <1>3, <1>8 DEF PlainBack, Back
  <2>2. s \in Results
    BY <1>1, <1>4, <2>1 DEF PlainResult, Plain
  <2>3. Finished(n) = ChildSet(n) \/ (Finished(n) = {} /\ ret \notin Completed)
    BY DEF Finished
  <2>4. ASSUME told, s \in Completed PROVE PromisedDecorator(s)
    <3>1. n = X /\ got[1] = ret
      BY <1>3, <2>1, <2>4 DEF told
    <3>2. /\ Kind(n) \notin Loops /\ Kind(n) \notin {"Loop", "RunOnce", "Precondition", "Updated",
                                                     "Timeout", "Delay"}
      BY <1>1 DEF Plain, Loops
    <3>3. /\ Kind(n) = "Inverter"     => ret \in Completed \ {s}
          /\ Kind(n) = "ForceSuccess" => s = "SUCCESS" /\ ret \in Completed
          /\ Kind(n) = "ForceFailure" => s = "FAILURE" /\ ret \in Completed
          /\ Kind(n) = "KeepRunning"  => s = "FAILURE" /\ ret = s
          /\ Kind(n) = "SubTree"      => ret = s
      BY <1>4, <2>1, <2>4 DEF PlainResult
    <3> HIDE DEF s
    <3> QED
      BY <3>1, <3>2, <3>3 DEF PromisedDecorator
  <2> HIDE DEF s
  <2> QED
    BY <1>2, <1>5, <1>6, <2>1, <2>2, <2>3, <2>4, DecoratorAnswers DEF told
<1> QED
  BY <1>7, <1>8

\* Repeat and RetryUntilSuccessful.
LEMMA LoopTold ==
  ASSUME IInv, StartedInv, HistInv, NEW n, Inside(n), LoopTick(n) \/ LoopAgain(n) \/ LoopBack(n)
  PROVE  Continues(n) \/ Answers(n)
<1> DEFINE told  == n = X /\ Asked
           m     == mem[n]
           param == Port("param", n)
<1>1. Kind(n) \in Loops /\ Kind(n) \in Decorators
  BY DEF LoopTick, LoopAgain, LoopBack, Entered, Back, Decorators
<1>2. n \in DOMAIN mem /\ Mem(n) = m /\ m \in MemType(n)
  BY <1>1, Here DEF WithMem, Loops
<1>3. /\ ret \in Results \cup {None} /\ status[n] \in Statuses
      /\ told => /\ DecoratorHist(n, status[n], m, IF ret = None THEN "entered" ELSE "back", ret, got, tries)
                 /\ ret # None => got[1] = ret
                 /\ ret = None /\ status[n] = "IDLE" => tries = 0
                 /\ ret = None => status[n] \in {"IDLE", "RUNNING"}
                 /\ tries \in Nat
  <2>1. Kind(n) # "RunOnce"
    BY <1>1 DEF Loops
  <2> QED
    BY <1>1, <1>2, <2>1, DecoratorTold
<1>4. /\ Completed \subseteq Results /\ "RUNNING" \in Results /\ "RUNNING" \in Statuses
      /\ "RUNNING" \notin Completed /\ "SKIPPED" \notin Completed /\ None \notin Completed
      /\ Again(n) \in Completed /\ None \notin Results
  BY <1>1, Ticked DEF Completed, None, Again
<1>5. Blank \in MemType(n) /\ Blank.count = 0 /\ m.count \in Nat
  BY <1>2, BlankFacts DEF MemType
<1>6. param \in Nat \cup {-1}
  BY <1>1, Here, ArityFacts
<1>7. \A s, m2, p, r : DecoratorHist(n, s, m2, p, r, got, tries) <=> LoopHist(n, s, m2, p, r, tries)
  BY <1>1, DecoratorHistIs
<1>8. IF ret = None THEN status[n] # "RUNNING" => m = Blank
      ELSE status[n] = "RUNNING" /\ Goes(n, m.count)
  <2> DEFINE L == LiveIdx(n)
  <2>1. CASE ret = None
    <3>1. DecoratorOK(n, status[n], Mem(n), FALSE, L)
      BY <1>1, <2>1, DecoratorFacts
    <3>2. LoopOK(n, status[n], Mem(n), FALSE, L)
      BY <1>1, <3>1 DEF DecoratorOK
    <3> HIDE DEF L
    <3> QED
      BY <1>2, <2>1, <3>2 DEF LoopOK
  <2>2. CASE ret # None
    <3>1. DecoratorOK(n, status[n], Mem(n), TRUE, L)
      BY <1>1, <2>2, DecoratorFacts
    <3>2. LoopOK(n, status[n], Mem(n), TRUE, L)
      BY <1>1, <3>1 DEF DecoratorOK
    <3> HIDE DEF L
    <3> QED
      BY <1>2, <2>2, <3>2 DEF LoopOK
  <2> QED
    BY <2>1, <2>2
\* The counter counts the tries.
<1>9. ASSUME told, param # -1
      PROVE  tries = m.count + (IF ret \in Completed THEN 1 ELSE 0)
  <2>1. CASE ret = None
    <3>1. LoopHist(n, status[n], m, "entered", ret, tries) /\ ret \notin Completed
          /\ status[n] \in {"IDLE", "RUNNING"}
      BY <1>3, <1>4, <1>7, <1>9, <2>1
    <3>2. status[n] = "RUNNING" => tries = m.count
      BY <1>5, <1>9, <3>1 DEF LoopHist
    <3>3. status[n] = "IDLE" => tries = 0 /\ m.count = 0
      BY <1>3, <1>5, <1>8, <1>9, <2>1
    <3> QED
      BY <1>5, <3>1, <3>2, <3>3
  <2>2. CASE ret # None
    <3>1. LoopHist(n, status[n], m, "back", ret, tries) /\ status[n] = "RUNNING"
      BY <1>3, <1>7, <1>8, <1>9, <2>2
    <3> QED
      BY <1>9, <3>1 DEF LoopHist
  <2> QED
    BY <2>1, <2>2
<1> HIDE DEF told, m
<1>10. ASSUME told, NEW s \in Completed, s = Again(n) => tries = param, got[1] = s \/ param = 0
       PROVE  PromisedDecorator(s)
  <2>1. n = X /\ Kind(n) \notin {"Inverter", "ForceSuccess", "ForceFailure", "KeepRunning", "SubTree",
                   "Precondition", "Updated", "RunOnce", "Loop", "Delay", "Timeout"}
    BY <1>1, <1>10 DEF told, Loops
  <2> QED
    BY <1>10, <2>1 DEF PromisedDecorator
<1>11. \A s \in Completed : \A r : LoopHist(n, s, Blank, "out", r, tries)
  BY <1>4, <1>5 DEF LoopHist
<1>12. CASE LoopTick(n)
  <2>1. /\ ret = None
        /\ IF Goes(n, m.count) THEN Call(n, "RUNNING", [m EXCEPT !.fresh = ChildIdle(n)], {}, 1)
           ELSE Return(n, Again(n), Blank, {})
    BY <1>12 DEF LoopTick, Entered, m
  <2>2. CASE Goes(n, m.count)
    <3> DEFINE m1 == [m EXCEPT !.fresh = ChildIdle(n)]
    <3>1. m1 \in MemType(n) /\ m1.count = m.count
      BY <1>2 DEF MemType, ChildIdle
    <3>2. Call(n, "RUNNING", m1, {}, 1)
      BY <2>1, <2>2
    <3> HIDE DEF m1
    <3>3. told => LoopHist(n, "RUNNING", m1, "waits", None, tries)
      BY <1>4, <1>5, <1>9, <2>1, <3>1 DEF LoopHist
    <3> QED
      BY <1>1, <1>2, <1>4, <1>7, <2>1, <3>1, <3>2, <3>3, DecoratorContinues DEF told
  <2>3. CASE ~Goes(n, m.count)
    <3>1. Return(n, Again(n), Blank, {})
      BY <2>1, <2>3
    <3>2. ASSUME told PROVE PromisedDecorator(Again(n))
      <4>1. m.count = 0
        <5>1. LoopHist(n, status[n], m, "entered", ret, tries)
          BY <1>3, <1>7, <2>1, <3>2
        <5> QED
          BY <2>3, <5>1 DEF LoopHist
      <4>2. param = 0
        BY <1>6, <2>3, <4>1 DEF Goes
      <4>3. tries = 0
        BY <1>4, <1>9, <2>1, <3>2, <4>1, <4>2
      <4> QED
        BY <1>4, <1>10, <3>2, <4>2, <4>3
    <3> QED
      BY <1>1, <1>2, <1>4, <1>5, <1>7, <1>11, <2>1, <3>1, <3>2, DecoratorAnswers DEF told
  <2> QED
    BY <2>2, <2>3
<1>13. CASE LoopAgain(n)
  <2> DEFINE count == IF param = -1 THEN 0 ELSE m.count + 1
             m1    == [Blank EXCEPT !.count = count, !.fresh = TRUE]
  <2>1. /\ ret # None /\ ret = Again(n)
        /\ \/ ~Goes(n, count) /\ Return(n, Again(n), Blank, ChildSet(n))
           \/ Goes(n, count) /\ Return(n, "RUNNING", m1, ChildSet(n))
           \/ Goes(n, count) /\ Call(n, "RUNNING", m1, ChildSet(n), 1)
    BY <1>13 DEF LoopAgain, Back, m
  <2>2. count \in Nat
    BY <1>5
  <2>3. ASSUME told, param # -1 PROVE tries = count /\ count = m.count + 1
    BY <1>4, <1>9, <2>1, <2>3
  <2> HIDE DEF count
  <2>4. m1 \in MemType(n) /\ m1.count = count
    BY <2>2 DEF Blank, MemType
  <2> HIDE DEF m1
  <2>5. ASSUME ~Goes(n, count), Return(n, Again(n), Blank, ChildSet(n)) PROVE Answers(n)
    <3>1. ASSUME told PROVE PromisedDecorator(Again(n))
      <4>1. param # -1 /\ ~(count < param)
        BY <2>5 DEF Goes
      <4>2. m.count < param
        BY <1>8, <2>1, <4>1 DEF Goes
      <4>3. tries = param
        BY <1>5, <1>6, <2>3, <3>1, <4>1, <4>2
      <4>4. got[1] = Again(n)
        BY <1>3, <2>1, <3>1
      <4> QED
        BY <1>4, <1>10, <3>1, <4>3, <4>4
    <3> QED
      BY <1>1, <1>2, <1>4, <1>5, <1>7, <1>11, <2>5, <3>1, DecoratorAnswers DEF told
  <2>6. ASSUME Goes(n, count), told, NEW p \in {"waits", "out"}, NEW r
        PROVE  LoopHist(n, "RUNNING", m1, p, r, tries)
    BY <2>2, <2>3, <2>4, <2>6 DEF LoopHist
  <2>7. ASSUME Goes(n, count), Return(n, "RUNNING", m1, ChildSet(n)) PROVE Answers(n)
    BY <1>1, <1>2, <1>4, <1>7, <2>4, <2>6, <2>7, DecoratorAnswers DEF told
  <2>8. ASSUME Goes(n, count), Call(n, "RUNNING", m1, ChildSet(n), 1) PROVE Continues(n)
    BY <1>1, <1>2, <1>4, <1>7, <2>4, <2>6, <2>8, DecoratorContinues DEF told
  <2> QED
    BY <2>1, <2>5, <2>7, <2>8
<1>14. CASE LoopBack(n)
  <2> DEFINE m1 == IF ret \in Completed THEN Blank ELSE m
             H  == IF ret = "RUNNING" THEN {} ELSE ChildSet(n)
  <2>1. Return(n, ret, m1, H) /\ ret # None /\ ret # Again(n) /\ ret \in Results
    BY <1>3, <1>14 DEF LoopBack, Back, m
  <2>2. H = ChildSet(n) \/ (H = {} /\ ret \notin Completed)
    BY <1>4
  <2>3. m1 \in MemType(n)
    BY <1>2, <1>5 DEF m
  <2>4. ASSUME told PROVE LoopHist(n, IF ret = "SKIPPED" THEN status[n] ELSE ret, m1, "out", ret, tries)
    <3>1. CASE ret \in Completed
      BY <1>4, <1>11, <3>1
    <3>2. CASE ret \notin Completed
      <4>1. param # -1 => tries = m.count
        BY <1>5, <1>9, <2>4, <3>2
      <4> QED
        BY <1>5, <1>8, <2>1, <3>2, <4>1 DEF LoopHist
    <3> QED
      BY <3>1, <3>2
  <2>5. ASSUME told, ret \in Completed PROVE PromisedDecorator(ret)
    BY <1>3, <1>10, <2>1, <2>5
  <2> HIDE DEF m1, H
  <2> QED
    BY <1>1, <1>2, <1>7, <2>1, <2>2, <2>3, <2>4, <2>5, DecoratorAnswers DEF told
<1> QED
  BY <1>12, <1>13, <1>14

\* What may be returned by the decorators that tick their child under a condition.
LEMMA PromisedUnder ==
  ASSUME NEW s,
         \/ /\ Kind(X) \in {"Precondition", "Updated"}
            /\ got[1] = s \/ (s = Port("else", X) /\ got[1] # "RUNNING")
         \/ Kind(X) = "RunOnce" /\ got[1] = s /\ tries = 1
         \/ /\ Kind(X) = "Loop"
            /\ (s = "FAILURE" /\ got[1] = s) \/ (s = Port("else", X) /\ tries = Port("param", X))
         \/ Kind(X) = "Timeout" /\ (got[1] = s \/ (s = "FAILURE" /\ got[1] \notin Completed))
         \/ Kind(X) \in {"SubTree", "Delay"} /\ got[1] = s
  PROVE  PromisedDecorator(s)
<1>1. Kind(X) \in {"Precondition", "Updated", "RunOnce", "Loop", "Timeout", "SubTree", "Delay"}
  OBVIOUS
<1>2. Kind(X) \notin Loops
  BY <1>1 DEF Loops
<1> QED
  BY <1>1, <1>2 DEF PromisedDecorator

\* Precondition: once the child runs, the condition is not looked at.
LEMMA PreconditionTold ==
  ASSUME IInv, StartedInv, HistInv, NEW n, Inside(n), PreconditionTick(n) \/ PreconditionBack(n)
  PROVE  Continues(n) \/ Answers(n)
<1> DEFINE told == n = X /\ Asked
           m    == mem[n]
<1>1. Kind(n) = "Precondition" /\ Kind(n) \in Decorators
  BY DEF PreconditionTick, PreconditionBack, Entered, Back, Decorators
<1>2. /\ n \in DOMAIN mem /\ Mem(n) = m /\ m \in MemType(n) /\ status[n] \in Statuses
      /\ n \in Nodes /\ tree \in DOMAIN Forest /\ ret \in Results \cup {None}
  BY <1>1, Here DEF WithMem
<1>3. Port("else", n) \in Results
  BY <1>1, <1>2, ArityFacts
<1>4. /\ "RUNNING" \notin Completed /\ "SKIPPED" \notin Completed /\ None \notin Completed
      /\ None \notin Results /\ None # "RUNNING"
  BY <1>1, Ticked DEF Completed, None
<1>5. \A s, m2, p, r : DecoratorHist(n, s, m2, p, r, got, tries)
        <=> (s = "RUNNING" /\ p \in {"out", "entered"} /\ got[1] = "RUNNING" => m2.on)
  BY <1>1, DecoratorHistIs
<1>6. told => /\ ret # None => got[1] = ret
              /\ ret = None /\ got[1] = "RUNNING" => m.on
  <2>1. told => /\ DecoratorHist(n, status[n], m, IF ret = None THEN "entered" ELSE "back", ret, got, tries)
                /\ ret # None => got[1] = ret
                /\ ret = None /\ status[n] = "IDLE" => got[1] = None
                /\ ret = None => status[n] \in {"IDLE", "RUNNING"}
    <3>1. Kind(n) # "RunOnce"
      BY <1>1
    <3> QED
      BY <1>1, <1>2, <3>1, DecoratorTold
  <2> QED
    BY <1>4, <1>5, <2>1
<1>7. ret # None => m.on
  <2>1. ret # None => DecoratorOK(n, status[n], Mem(n), TRUE, LiveIdx(n))
    BY <1>1, DecoratorFacts
  <2> QED
    BY <1>1, <1>2, <2>1 DEF DecoratorOK
<1>8. Blank \in MemType(n)
  BY BlankFacts
<1> HIDE DEF told, m
<1>9. CASE PreconditionTick(n)
  <2>1. ret = None
    BY <1>9 DEF PreconditionTick, Entered
  <2>2. \/ Call(n, status[n], [m EXCEPT !.on = TRUE], {}, 1)
        \/ ~m.on /\ Return(n, Port("else", n), m, {})
    <3>1. PICK holds \in CASE m.on                   -> {TRUE}
                           [] ~m.on /\ Has("cond", n) -> {value \in Port("cond", n)}
                           [] OTHER                   -> BOOLEAN :
            IF holds THEN Call(n, status[n], [m EXCEPT !.on = TRUE], {}, 1)
            ELSE Return(n, Port("else", n), m, {})
      BY <1>9, Zenon DEF PreconditionTick, m
    <3>2. CASE m.on
      BY <3>1, <3>2
    <3>3. CASE ~m.on
      BY <3>1, <3>3
    <3> QED
      BY <3>2, <3>3
  <2>3. CASE Call(n, status[n], [m EXCEPT !.on = TRUE], {}, 1)
    <3> DEFINE m1 == [m EXCEPT !.on = TRUE]
    <3>1. m1 \in MemType(n) /\ Call(n, status[n], m1, {}, 1)
      BY <1>2, <2>3 DEF MemType
    <3> HIDE DEF m1
    <3>2. DecoratorHist(n, status[n], m1, "waits", None, got, tries)
      BY <1>5
    <3> QED
      BY <1>1, <1>2, <1>4, <2>1, <3>1, <3>2, DecoratorContinues
  <2>4. CASE ~m.on /\ Return(n, Port("else", n), m, {})
    <3> DEFINE s == Port("else", n)
    <3>1. ASSUME told PROVE DecoratorHist(n, IF s = "SKIPPED" THEN status[n] ELSE s, m, "out", s, got, tries)
      BY <1>5, <1>6, <2>1, <2>4, <3>1
    <3>2. ASSUME told PROVE PromisedDecorator(s)
      BY <1>1, <1>6, <2>1, <2>4, <3>2, PromisedUnder DEF told
    <3> HIDE DEF s
    <3>3. s \in Results /\ Return(n, s, m, {})
      BY <1>3, <2>4 DEF s
    <3> QED
      BY <1>1, <1>2, <1>4, <2>1, <3>1, <3>2, <3>3, DecoratorAnswers DEF told
  <2> QED
    BY <2>2, <2>3, <2>4
<1>10. CASE PreconditionBack(n)
  <2> DEFINE m1 == IF ret \in Completed THEN Blank ELSE m
  <2>1. Return(n, ret, m1, Finished(n)) /\ ret # None /\ ret \in Results
    BY <1>2, <1>10 DEF PreconditionBack, Back, m
  <2>2. m1 \in MemType(n) /\ (Finished(n) = ChildSet(n) \/ (Finished(n) = {} /\ ret \notin Completed))
    BY <1>2, <1>8 DEF Finished
  <2>3. ASSUME told
        PROVE  DecoratorHist(n, IF ret = "SKIPPED" THEN status[n] ELSE ret, m1, "out", ret, got, tries)
    BY <1>4, <1>5, <1>6, <1>7, <2>1, <2>3
  <2>4. ASSUME told PROVE PromisedDecorator(ret)
    BY <1>1, <1>6, <2>1, <2>4, PromisedUnder DEF told
  <2> HIDE DEF m1
  <2> QED
    BY <1>1, <1>2, <2>1, <2>2, <2>3, <2>4, DecoratorAnswers DEF told
<1> QED
  BY <1>9, <1>10

\* SkipUnlessUpdated and WaitValueUpdate.
LEMMA UpdatedTold ==
  ASSUME IInv, StartedInv, HistInv, NEW n, Inside(n), UpdatedTick(n) \/ UpdatedBack(n)
  PROVE  Continues(n) \/ Answers(n)
<1> DEFINE told == n = X /\ Asked
           m    == mem[n]
<1>1. Kind(n) = "Updated" /\ Kind(n) \in Decorators
  BY DEF UpdatedTick, UpdatedBack, Entered, Back, Decorators
<1>2. /\ n \in DOMAIN mem /\ Mem(n) = m /\ m \in MemType(n) /\ status[n] \in Statuses
      /\ n \in Nodes /\ tree \in DOMAIN Forest /\ ret \in Results \cup {None}
  BY <1>1, Here DEF WithMem
<1>3. Port("else", n) \in Results
  BY <1>1, <1>2, ArityFacts
<1>4. /\ "RUNNING" \notin Completed /\ "SKIPPED" \notin Completed /\ None \notin Completed
      /\ None \notin Results /\ None # "RUNNING"
  BY <1>1, Ticked DEF Completed, None
<1>5. \A s, m2, p, r : DecoratorHist(n, s, m2, p, r, got, tries)
        <=> (s = "RUNNING" /\ p \in {"out", "entered"} /\ got[1] = "RUNNING" => m2.on)
  BY <1>1, DecoratorHistIs
<1>6. told => /\ ret # None => got[1] = ret
              /\ ret = None /\ got[1] = "RUNNING" => m.on
  <2>1. told => /\ DecoratorHist(n, status[n], m, IF ret = None THEN "entered" ELSE "back", ret, got, tries)
                /\ ret # None => got[1] = ret
                /\ ret = None /\ status[n] = "IDLE" => got[1] = None
                /\ ret = None => status[n] \in {"IDLE", "RUNNING"}
    <3>1. Kind(n) # "RunOnce"
      BY <1>1
    <3> QED
      BY <1>1, <1>2, <3>1, DecoratorTold
  <2> QED
    BY <1>4, <1>5, <2>1
<1> HIDE DEF told, m
<1>7. CASE UpdatedTick(n)
  <2>1. /\ ret = None
        /\ \/ Call(n, status[n], m, {}, 1)
           \/ ~m.on /\ Return(n, Port("else", n), m, {})
    BY <1>7, Zenon DEF UpdatedTick, Entered, m
  <2>2. CASE Call(n, status[n], m, {}, 1)
    <3>1. DecoratorHist(n, status[n], m, "waits", None, got, tries)
      BY <1>5
    <3> QED
      BY <1>1, <1>2, <1>4, <2>1, <2>2, <3>1, DecoratorContinues
  <2>3. CASE ~m.on /\ Return(n, Port("else", n), m, {})
    <3> DEFINE s == Port("else", n)
    <3>1. ASSUME told PROVE DecoratorHist(n, IF s = "SKIPPED" THEN status[n] ELSE s, m, "out", s, got, tries)
      BY <1>5, <1>6, <2>1, <2>3, <3>1
    <3>2. ASSUME told PROVE PromisedDecorator(s)
      BY <1>1, <1>6, <2>1, <2>3, <3>2, PromisedUnder DEF told
    <3> HIDE DEF s
    <3>3. s \in Results /\ Return(n, s, m, {})
      BY <1>3, <2>3 DEF s
    <3> QED
      BY <1>1, <1>2, <1>4, <2>1, <3>1, <3>2, <3>3, DecoratorAnswers DEF told
  <2> QED
    BY <2>1, <2>2, <2>3
<1>8. CASE UpdatedBack(n)
  <2>1. PICK on \in BOOLEAN : (on <=> ret = "RUNNING") /\ Return(n, ret, [m EXCEPT !.on = on], Finished(n))
    BY <1>8, Zenon DEF UpdatedBack, m
  <2> DEFINE m1 == [m EXCEPT !.on = on]
  <2>2. Return(n, ret, m1, Finished(n)) /\ ret # None /\ ret \in Results
    BY <1>2, <1>8, <2>1 DEF UpdatedBack, Back
  <2>3. m1 \in MemType(n) /\ m1.on = on
        /\ (Finished(n) = ChildSet(n) \/ (Finished(n) = {} /\ ret \notin Completed))
    BY <1>2 DEF Finished, MemType
  <2> HIDE DEF m1
  <2>4. ASSUME told
        PROVE  DecoratorHist(n, IF ret = "SKIPPED" THEN status[n] ELSE ret, m1, "out", ret, got, tries)
    BY <1>5, <1>6, <2>1, <2>2, <2>3, <2>4
  <2>5. ASSUME told PROVE PromisedDecorator(ret)
    BY <1>1, <1>6, <2>2, <2>5, PromisedUnder DEF told
  <2> QED
    BY <1>1, <1>2, <2>2, <2>3, <2>4, <2>5, DecoratorAnswers DEF told
<1> QED
  BY <1>7, <1>8

\* RunOnce has one try for ever.
LEMMA RunOnceTold ==
  ASSUME IInv, StartedInv, HistInv, NEW n, Inside(n), RunOnceTick(n) \/ RunOnceBack(n)
  PROVE  Continues(n) \/ Answers(n)
<1> DEFINE told == n = X /\ Asked
           m    == mem[n]
<1>1. Kind(n) = "RunOnce" /\ Kind(n) \in Decorators
  BY DEF RunOnceTick, RunOnceBack, Entered, Back, Decorators
<1>2. /\ n \in DOMAIN mem /\ Mem(n) = m /\ m \in MemType(n) /\ status[n] \in Statuses
      /\ n \in Nodes /\ tree \in DOMAIN Forest /\ ret \in Results \cup {None}
  BY <1>1, Here DEF WithMem
<1>4. /\ "RUNNING" \notin Completed /\ "SKIPPED" \notin Completed /\ None \notin Completed
      /\ None \notin Results /\ None # "RUNNING" /\ "RUNNING" \in Statuses /\ "SKIPPED" \in Results
  BY <1>1, Ticked DEF Completed, None, Results
<1>5. \A s, m2, p, r : DecoratorHist(n, s, m2, p, r, got, tries)
        <=> tries = IF m2.on \/ (p = "back" /\ r \in Completed) THEN 1 ELSE 0
  BY <1>1, DecoratorHistIs
<1>6. told => /\ ret # None => got[1] = ret
              /\ tries = IF m.on \/ ret \in Completed THEN 1 ELSE 0
  <2>1. told => /\ DecoratorHist(n, status[n], m, IF ret = None THEN "entered" ELSE "back", ret, got, tries)
                /\ ret # None => got[1] = ret
    BY <1>1, <1>2, DecoratorTold
  <2>2. CASE ret = None
    BY <1>4, <1>5, <2>1, <2>2
  <2>3. CASE ret # None
    BY <1>4, <1>5, <2>1, <2>3
  <2> QED
    BY <2>2, <2>3
<1>7. ret # None => ~m.on
  <2>1. ret # None => DecoratorOK(n, status[n], Mem(n), TRUE, LiveIdx(n))
    BY <1>1, DecoratorFacts
  <2> QED
    BY <1>1, <1>2, <2>1 DEF DecoratorOK, RunOnceOK
<1> HIDE DEF told, m
<1>8. CASE RunOnceTick(n)
  <2>1. /\ ret = None
        /\ \/ Return(n, "SKIPPED", m, {})
           \/ Call(n, "RUNNING", m, {}, 1)
    BY <1>8, Zenon DEF RunOnceTick, Entered, m
  <2>2. ASSUME told PROVE \A s, r : \A p \in {"out", "waits"} : DecoratorHist(n, s, m, p, r, got, tries)
    BY <1>4, <1>5, <1>6, <2>1, <2>2
  <2>3. CASE Return(n, "SKIPPED", m, {})
    BY <1>1, <1>2, <1>4, <2>1, <2>2, <2>3, DecoratorAnswers DEF told
  <2>4. CASE Call(n, "RUNNING", m, {}, 1)
    BY <1>1, <1>2, <1>4, <2>1, <2>2, <2>4, DecoratorContinues DEF told
  <2> QED
    BY <2>1, <2>3, <2>4
<1>9. CASE RunOnceBack(n)
  <2> DEFINE on == ret \in Completed
             m1 == [m EXCEPT !.on = on]
  <2>1. (on <=> ret \in Completed) /\ on \in BOOLEAN
    OBVIOUS
  <2>2. Return(n, ret, m1, Finished(n)) /\ ret # None /\ ret \in Results
    BY <1>2, <1>9 DEF RunOnceBack, Back, m
  <2> HIDE DEF on
  <2>3. m1 \in MemType(n) /\ m1.on = on
        /\ (Finished(n) = ChildSet(n) \/ (Finished(n) = {} /\ ret \notin Completed))
    BY <1>2, <2>1 DEF Finished, MemType
  <2> HIDE DEF m1
  <2>4. ASSUME told
        PROVE  DecoratorHist(n, IF ret = "SKIPPED" THEN status[n] ELSE ret, m1, "out", ret, got, tries)
    BY <1>5, <1>6, <1>7, <2>1, <2>2, <2>3, <2>4
  <2>5. ASSUME told, ret \in Completed PROVE PromisedDecorator(ret)
    BY <1>1, <1>6, <2>2, <2>5, PromisedUnder DEF told
  <2> QED
    BY <1>1, <1>2, <2>2, <2>3, <2>4, <2>5, DecoratorAnswers DEF told
<1> QED
  BY <1>8, <1>9

\* LoopNode: an element is used up when its turn is over.
LEMMA QueueTold ==
  ASSUME IInv, StartedInv, HistInv, NEW n, Inside(n), QueueTick(n) \/ QueueBack(n)
  PROVE  Continues(n) \/ Answers(n)
<1> DEFINE told  == n = X /\ Asked
           m     == mem[n]
           param == Port("param", n)
<1>1. Kind(n) = "Loop" /\ Kind(n) \in Decorators
  BY DEF QueueTick, QueueBack, Entered, Back, Decorators
<1>2. /\ n \in DOMAIN mem /\ Mem(n) = m /\ m \in MemType(n) /\ status[n] \in Statuses
      /\ n \in Nodes /\ tree \in DOMAIN Forest /\ ret \in Results \cup {None}
  BY <1>1, Here DEF WithMem
<1>3. Port("else", n) \in Results /\ param \in Nat
  BY <1>1, <1>2, ArityFacts
<1>4. /\ "RUNNING" \notin Completed /\ "SKIPPED" \notin Completed /\ None \notin Completed
      /\ None \notin Results /\ None # "RUNNING" /\ "RUNNING" \in Statuses /\ "RUNNING" \in Results
      /\ "FAILURE" \in Results /\ "FAILURE" \in Completed /\ Completed \subseteq Statuses
  BY <1>1, Ticked DEF Completed, None, Results
<1>5. \A s, m2, p, r : DecoratorHist(n, s, m2, p, r, got, tries) <=> QueueHist(n, s, m2, p, r, tries)
  BY <1>1, DecoratorHistIs
<1>6. told => /\ QueueHist(n, status[n], m, IF ret = None THEN "entered" ELSE "back", ret, tries)
              /\ ret # None => got[1] = ret
              /\ ret = None /\ status[n] = "IDLE" => tries = 0
              /\ ret = None => status[n] \in {"IDLE", "RUNNING"}
              /\ tries \in Nat
  <2>1. Kind(n) # "RunOnce"
    BY <1>1
  <2> QED
    BY <1>1, <1>2, <1>5, <2>1, DecoratorTold
<1>7. Blank \in MemType(n) /\ ~Blank.on
  BY BlankFacts
<1> HIDE DEF told, m
<1>8. CASE QueueTick(n)
  <2> DEFINE m0 == IF status[n] # "IDLE" THEN m ELSE [Blank EXCEPT !.count = param]
             md == [m0 EXCEPT !.count = @ - 1]
             s  == RunningIfIdle(n)
  <2>1. /\ ret = None
        /\ \/ m0.on /\ Call(n, s, m0, {}, 1)
           \/ ~m0.on /\ m0.count > 0 /\ Call(n, s, md, {}, 1)
           \/ ~m0.on /\ ~(m0.count > 0) /\ Return(n, Port("else", n), m0, {})
    <3>1. /\ ret = None
          /\ CASE m0.on                   -> Call(n, s, m0, {}, 1)
               [] ~m0.on /\ m0.count > 0 -> Call(n, s, md, {}, 1)
               [] OTHER                   -> Return(n, Port("else", n), m0, {})
      BY <1>8 DEF QueueTick, Entered, m
    <3> HIDE DEF m0, md, s
    <3> QED
      BY <3>1
  <2>2. m0 \in MemType(n) /\ m0.count \in Nat /\ m0.on \in BOOLEAN
    BY <1>2, <1>3, <1>7 DEF MemType
  <2>3. told => tries + m0.count + (IF m0.on THEN 1 ELSE 0) = param
    <3>1. ASSUME told, status[n] = "IDLE" PROVE tries = 0 /\ m0.count = param /\ ~m0.on
      BY <1>6, <1>7, <2>1, <3>1 DEF Blank
    <3>2. ASSUME told, status[n] # "IDLE" PROVE m0 = m /\ status[n] = "RUNNING"
      BY <1>6, <2>1, <3>2
    <3>3. ASSUME told, status[n] # "IDLE" PROVE tries + m.count + (IF m.on THEN 1 ELSE 0) = param
      BY <1>6, <2>1, <3>2, <3>3 DEF QueueHist
    <3> HIDE DEF m0
    <3>4. CASE status[n] = "IDLE"
      BY <1>3, <3>1, <3>4
    <3>5. CASE status[n] # "IDLE"
      BY <3>2, <3>3, <3>5
    <3> QED
      BY <3>4, <3>5
  <2>4. s \in Statuses /\ (s \in Completed => status[n] \in Completed)
        /\ (told => s = "RUNNING")
    BY <1>2, <1>4, <1>6, <2>1 DEF RunningIfIdle
  <2>5. ~m0.on /\ m0.count > 0 => md \in MemType(n) /\ md.count = m0.count - 1 /\ md.on = m0.on
    <3> HIDE DEF m0
    <3> QED
      BY <2>2 DEF MemType
  <2> HIDE DEF m0, md, s
  <2>6. CASE m0.on /\ Call(n, s, m0, {}, 1)
    <3>1. told => QueueHist(n, s, m0, "waits", None, tries)
      BY <2>3, <2>4, <2>6 DEF QueueHist
    <3> QED
      BY <1>1, <1>2, <1>4, <1>5, <2>1, <2>2, <2>4, <2>6, <3>1, DecoratorContinues DEF told
  <2>7. CASE ~m0.on /\ m0.count > 0 /\ Call(n, s, md, {}, 1)
    <3>1. ASSUME told PROVE tries + md.count + 1 = param
      BY <1>6, <2>2, <2>3, <2>5, <2>7, <3>1
    <3>2. told => QueueHist(n, s, md, "waits", None, tries)
      BY <2>4, <3>1 DEF QueueHist
    <3> QED
      BY <1>1, <1>2, <1>4, <1>5, <2>1, <2>5, <2>4, <2>7, <3>2, DecoratorContinues DEF told
  <2>8. CASE ~m0.on /\ ~(m0.count > 0) /\ Return(n, Port("else", n), m0, {})
    <3> DEFINE e == Port("else", n)
               s1 == IF e = "SKIPPED" THEN status[n] ELSE e
    <3>1. ASSUME told PROVE tries = param
      BY <1>6, <2>2, <2>3, <2>8, <3>1
    <3>2. ASSUME told PROVE PromisedDecorator(e)
      BY <1>1, <3>1, <3>2, PromisedUnder DEF told
    <3>3. told => QueueHist(n, s1, m0, "out", e, tries)
      BY <2>3, <2>8 DEF QueueHist
    <3>4. e \in Results /\ Return(n, e, m0, {})
      BY <1>3, <2>8
    <3>5. told => DecoratorHist(n, s1, m0, "out", e, got, tries)
      BY <1>5, <3>3
    <3> HIDE DEF e
    <3> QED
      BY <1>1, <1>2, <1>4, <2>1, <2>2, <3>2, <3>4, <3>5, DecoratorAnswers DEF told
  <2> QED
    BY <2>1, <2>6, <2>7, <2>8
<1>9. CASE QueueBack(n)
  <2> DEFINE s == IF ret = "FAILURE" THEN "FAILURE" ELSE "RUNNING"
  <2>1. PICK on \in BOOLEAN : (on <=> ret = "RUNNING") /\ Return(n, s, [m EXCEPT !.on = on], Finished(n))
    BY <1>9, Zenon DEF QueueBack, m
  <2> DEFINE m1 == [m EXCEPT !.on = on]
  <2>2. Return(n, s, m1, Finished(n)) /\ ret # None /\ ret \in Results
    BY <1>2, <1>9, <2>1 DEF QueueBack, Back
  <2>3. m1 \in MemType(n) /\ m1.on = on /\ m1.count = m.count
        /\ (Finished(n) = ChildSet(n) \/ (Finished(n) = {} /\ ret \notin Completed))
    BY <1>2 DEF Finished, MemType
  <2> HIDE DEF m1
  <2>4. ASSUME told PROVE tries + m.count + (IF on THEN 1 ELSE 0) = param
    <3>1. QueueHist(n, status[n], m, "back", ret, tries)
      BY <1>6, <2>2, <2>4
    <3>2. "back" # "waits" /\ "back" \in {"waits", "back"}
      OBVIOUS
    <3>3. tries + m.count + (IF ret = "RUNNING" THEN 1 ELSE 0) = param
      BY <3>1, <3>2 DEF QueueHist
    <3> QED
      BY <2>1, <3>3
  <2>5. ASSUME told PROVE DecoratorHist(n, s, m1, "out", s, got, tries)
    <3>1. QueueHist(n, s, m1, "out", s, tries)
      BY <2>3, <2>4, <2>5 DEF QueueHist
    <3> QED
      BY <1>5, <3>1
  <2>6. ASSUME told, s \in Completed PROVE PromisedDecorator(s)
    <3>1. s = "FAILURE" /\ ret = "FAILURE"
      BY <1>4, <2>6
    <3> QED
      BY <1>1, <1>6, <2>2, <2>6, <3>1, PromisedUnder DEF told
  <2>7. s \in Results /\ s # "SKIPPED"
    BY <1>4
  <2> HIDE DEF s
  <2> QED
    BY <1>1, <1>2, <2>2, <2>3, <2>5, <2>6, <2>7, DecoratorAnswers DEF told
<1> QED
  BY <1>8, <1>9

\* A decorator returns, and cancels its own timer.
LEMMA DecoratorLeaves ==
  ASSUME IInv, StartedInv, HistInv, NEW n, Inside(n), Kind(n) \in Decorators,
         NEW s \in Results, NEW m \in MemType(n), NEW H, Leaves(n, s, m, H), Exits(s),
         H = ChildSet(n) \/ (H = {} /\ ret \notin Completed),
         n \notin DOMAIN mem => m = Blank,
         n = X /\ Asked =>
           /\ DecoratorHist(n, IF s = "SKIPPED" THEN status[n] ELSE s, m, "out", s, got, tries)
           /\ s \in Completed => PromisedDecorator(s)
  PROVE  Answers(n)
<1>1. Index(n, ChildSet(n)) = {1} /\ n \in Nodes /\ tree \in DOMAIN Forest
      /\ DoneIdx(n) \subseteq {1} /\ (ret \notin Completed => DoneIdx(n) = {})
  BY DecoratorFacts, Here
<1>2. DoneIdx(n) \ Index(n, H) \subseteq Settled(n, m) /\ H \in SUBSET ChildSet(n)
  BY <1>1
<1>3. n = X /\ Asked => HistOK(n, IF s = "SKIPPED" THEN status[n] ELSE s, m, "out", s, got, tries)
  BY DecoratorTold
<1>4. n = X /\ Asked /\ s \in Completed => Promised(s)
  BY PromisedAtDecorator
<1> QED
  BY <1>1, <1>2, <1>3, <1>4, AnswersLeaves

\* Delay and Timeout, when the timer has been started.
LEMMA ClockTold ==
  ASSUME IInv, StartedInv, HistInv, NEW n, Inside(n), DelayTick(n) \/ TimeoutTick(n) \/ ClockBack(n)
  PROVE  Continues(n) \/ Answers(n)
<1> DEFINE told == n = X /\ Asked
           m    == mem[n]
<1>1. Kind(n) \in Clocked /\ Kind(n) \in Decorators
  BY DEF DelayTick, TimeoutTick, ClockBack, Entered, Back, Decorators, Clocked
<1>2. /\ n \in DOMAIN mem /\ Mem(n) = m /\ m \in MemType(n) /\ status[n] \in Statuses
      /\ n \in Nodes /\ tree \in DOMAIN Forest /\ ret \in Results \cup {None}
  BY <1>1, Here DEF WithMem, Timed, Clocked
<1>3. /\ "RUNNING" \notin Completed /\ "SKIPPED" \notin Completed /\ None \notin Completed
      /\ None \notin Results /\ "RUNNING" \in Statuses /\ "RUNNING" \in Results
      /\ "FAILURE" \in Results /\ "FAILURE" \in Completed
  BY <1>1, Ticked DEF Completed, None, Results
<1>4. told => /\ DecoratorHist(n, status[n], m, IF ret = None THEN "entered" ELSE "back", ret, got, tries)
              /\ ret # None => got[1] = ret
              /\ ret = None /\ status[n] = "IDLE" => got[1] = None
              /\ ret = None => status[n] \in {"IDLE", "RUNNING"}
  <2>1. Kind(n) # "RunOnce"
    BY <1>1 DEF Clocked
  <2> QED
    BY <1>1, <1>2, <2>1, DecoratorTold
<1>5. Kind(n) = "Delay" => \A s, m2, p, r, g, t : DecoratorHist(n, s, m2, p, r, g, t)
  BY DecoratorHistIs
<1>6. Kind(n) = "Timeout" => \A s, m2, p, r, g, t :
        DecoratorHist(n, s, m2, p, r, g, t) <=> (s = "RUNNING" /\ p # "back" => g[1] \notin Completed)
  BY DecoratorHistIs
<1>7. ASSUME Kind(n) = "Timeout", ret = None, told PROVE got[1] \notin Completed
  BY <1>3, <1>4, <1>6, <1>7
<1>8. \A b \in BOOLEAN : [m EXCEPT !.on = b] \in MemType(n)
  BY <1>2 DEF MemType
<1> HIDE DEF told, m
<1>9. CASE DelayTick(n)
  <2>1. /\ ret = None /\ Kind(n) = "Delay"
        /\ \/ Call(n, status[n], m, {}, 1)
           \/ Return(n, "RUNNING", m, {})
    BY <1>9, Zenon DEF DelayTick, Entered, m
  <2>2. CASE Call(n, status[n], m, {}, 1)
    BY <1>1, <1>2, <1>3, <1>5, <2>1, <2>2, DecoratorContinues
  <2>3. CASE Return(n, "RUNNING", m, {})
    BY <1>1, <1>2, <1>3, <1>5, <2>1, <2>3, DecoratorAnswers
  <2> QED
    BY <2>1, <2>2, <2>3
<1>10. CASE TimeoutTick(n)
  <2>1. /\ ret = None /\ Kind(n) = "Timeout"
        /\ \/ Return(n, "FAILURE", [m EXCEPT !.on = FALSE], {})
           \/ Call(n, status[n], m, {}, 1)
    BY <1>10, Zenon DEF TimeoutTick, Entered, m
  <2>2. CASE Call(n, status[n], m, {}, 1)
    <3>1. told => DecoratorHist(n, status[n], m, "waits", None, got, tries)
      BY <1>6, <1>7, <2>1
    <3> QED
      BY <1>1, <1>2, <1>3, <2>1, <2>2, <3>1, DecoratorContinues DEF told
  <2>3. CASE Return(n, "FAILURE", [m EXCEPT !.on = FALSE], {})
    <3> DEFINE m1 == [m EXCEPT !.on = FALSE]
    <3>1. m1 \in MemType(n) /\ Return(n, "FAILURE", m1, {})
      BY <1>8, <2>3
    <3>2. told => DecoratorHist(n, "FAILURE", m1, "out", "FAILURE", got, tries)
      BY <1>6, <1>7, <2>1
    <3>3. told => PromisedDecorator("FAILURE")
      BY <1>7, <2>1, PromisedUnder DEF told
    <3> HIDE DEF m1
    <3> QED
      BY <1>1, <1>2, <1>3, <2>1, <3>1, <3>2, <3>3, DecoratorAnswers DEF told
  <2> QED
    BY <2>1, <2>2, <2>3
<1>11. CASE ClockBack(n)
  <2> DEFINE on == ret \notin Completed
             m1 == [m EXCEPT !.on = on]
  <2>1. on \in BOOLEAN
    OBVIOUS
  <2>2. Leaves(n, ret, m1, Finished(n)) /\ Exits(ret) /\ ret # None /\ ret \in Results
    BY <1>2, <1>11 DEF ClockBack, Back, m
  <2> HIDE DEF on
  <2>3. m1 \in MemType(n) /\ (Finished(n) = ChildSet(n) \/ (Finished(n) = {} /\ ret \notin Completed))
    BY <1>8, <2>1 DEF Finished
  <2> HIDE DEF m1
  <2>4. Kind(n) \in {"Delay", "Timeout"}
    BY <1>1 DEF Clocked
  <2>5. ASSUME told
        PROVE  DecoratorHist(n, IF ret = "SKIPPED" THEN status[n] ELSE ret, m1, "out", ret, got, tries)
    <3>1. CASE Kind(n) = "Delay"
      BY <1>5, <3>1
    <3>2. CASE Kind(n) = "Timeout"
      <4>1. got[1] = ret
        BY <1>4, <2>2, <2>5
      <4> QED
        BY <1>3, <1>6, <3>2, <4>1
    <3> QED
      BY <2>4, <3>1, <3>2
  <2>6. ASSUME told PROVE PromisedDecorator(ret)
    BY <1>4, <2>2, <2>4, <2>6, PromisedUnder DEF told
  <2> QED
    BY <1>1, <1>2, <2>2, <2>3, <2>5, <2>6, DecoratorLeaves DEF told
<1> QED
  BY <1>9, <1>10, <1>11

-----------------------------------------------------------------------------
(* Leaves, and pre-conditions                                              *)

\* A leaf has no children, and is not asked.
LEMMA LeafIs ==
  ASSUME IInv, NEW n, Inside(n), Kind(n) \notin Controls \cup Decorators
  PROVE  /\ ChildSet(n) = {} /\ DoneIdx(n) = {} /\ ~(n = X /\ Asked)
         /\ n \in Nodes /\ tree \in DOMAIN Forest
<1>1. n \in Nodes /\ tree \in DOMAIN Forest /\ DoneIdx(n) \subseteq DOMAIN Children(n)
  BY Here
<1>2. Children(n) = <<>>
  BY <1>1, ArityFacts
<1>3. ChildSet(n) = {} /\ DOMAIN Children(n) = {}
  BY <1>2 DEF ChildSet, ToSet
<1> QED
  BY <1>1, <1>3 DEF Asked

\* The steps of a leaf, but for one that answers with the status it has.
LEMMA LeafTold ==
  ASSUME IInv, StartedInv, HistInv, NEW n, Inside(n), LeafStep(n), ~StatefulDone(n)
  PROVE  Answers(n)
<1>1. Kind(n) \in {"Instant", "AlwaysFailure", "Condition", "Forever", "Action", "Sleep"}
  BY DEF LeafStep, InstantTick, InstantResults, Stateful, SleepAtOnce, SleepStart, SleepTick,
         ActionStart, ActionFailsAtOnce, ActionRunning, ActionSuccess, ActionFailure, Entered
<1>2. Kind(n) \notin Controls \cup Decorators
  BY <1>1 DEF Controls, Decorators, Ordered, Sequences_, Fallbacks, Reactives, Parallels, Branches,
              Plain, Loops, Clocked
<1>3. /\ ChildSet(n) = {} /\ DoneIdx(n) = {} /\ ~(n = X /\ Asked)
      /\ n \in Nodes /\ tree \in DOMAIN Forest
  BY <1>2, LeafIs
<1>4. n \in DOMAIN mem <=> Kind(n) = "Sleep"
  <2>1. n \in DOMAIN mem <=> Kind(n) \in WithMem
    BY Here
  <2> QED
    BY <1>1, <2>1 DEF WithMem, Sequences_, Fallbacks, Reactives, Parallels, Branches, Timed
<1>5. ASSUME NEW s \in Results, NEW m \in MemType(n), Leaves(n, s, m, {}), Exits(s),
             n \notin DOMAIN mem => m = Blank
      PROVE  Answers(n)
  <2>1. {} \in SUBSET ChildSet(n)
    OBVIOUS
  <2>2. DoneIdx(n) \ Index(n, {}) \subseteq Settled(n, m)
    BY <1>3
  <2> QED
    BY <1>3, <1>5, <2>1, <2>2, AnswersLeaves
<1>6. Blank \in MemType(n)
  BY BlankFacts
<1>7. ASSUME NEW s \in Results, ReturnPlain(n, s, {})
      PROVE  Answers(n)
  BY <1>5, <1>6, <1>7 DEF ReturnPlain
<1>8. CASE Kind(n) # "Sleep"
  <2>1. PICK s \in Results : ReturnPlain(n, s, {})
    BY <1>1, <1>8 DEF LeafStep, InstantTick, InstantResults, SleepAtOnce, SleepStart, SleepTick,
         ActionStart, ActionFailsAtOnce, ActionRunning, ActionSuccess, ActionFailure, Entered, Results, Completed
  <2> QED
    BY <1>7, <2>1
<1>9. CASE Kind(n) = "Sleep"
  <2>1. SleepAtOnce(n) \/ SleepStart(n) \/ SleepTick(n)
    BY <1>9 DEF LeafStep, InstantTick, InstantResults, ActionStart, ActionFailsAtOnce,
         ActionRunning, ActionSuccess, ActionFailure, Entered
  <2>2. mem[n] \in MemType(n)
    BY <1>4, <1>9, Here
  <2>3. [Blank EXCEPT !.on = TRUE] \in MemType(n)
    BY <1>6 DEF MemType
  <2>4. [mem[n] EXCEPT !.fresh = FALSE] \in MemType(n)
    BY <2>2, BlankFacts
  <2>5. "RUNNING" \in Results /\ "SUCCESS" \in Results
    BY DEF Results, Completed
  <2>6. CASE SleepStart(n)
    BY <1>4, <1>5, <1>9, <2>3, <2>5, <2>6 DEF SleepStart
  <2>7. CASE SleepTick(n)
    <3>1. PICK s \in {"RUNNING", "SUCCESS"} : Return(n, s, mem[n], {})
      BY <2>7, Zenon DEF SleepTick
    <3> QED
      BY <1>4, <1>5, <1>9, <2>4, <2>5, <3>1 DEF Return
  <2>8. CASE SleepAtOnce(n)
    BY <1>4, <1>5, <1>9, <2>4, <2>5, <2>8 DEF SleepAtOnce, Return
  <2> QED
    BY <2>1, <2>6, <2>7, <2>8
<1> QED
  BY <1>8, <1>9

\* A node that is entered is given up.
LEMMA HistPreempted ==
  ASSUME NEW n, NEW s, NEW m, NEW r, NEW g, NEW t, HistOK(n, s, m, "entered", r, g, t),
         NEW s2, NEW m2, NEW r2, s2 # "RUNNING",
         m2 = m \/ m2 = IF Kind(n) \in {"SequenceWithMemory", "RunOnce", "Precondition", "Loop"}
                        THEN m ELSE Blank
  PROVE  HistOK(n, s2, m2, "out", r2, g, t)
<1>1. CASE m2 = m
  <2>1. Kind(n) \in Ordered => OrderedHist(n, s2, m2, "out", g)
    <3>1. CASE Kind(n) = "SequenceWithMemory" /\ Kind(n) \in Ordered
      <4>1. OrderedHist(n, s, m, "entered", g)
        BY <3>1 DEF HistOK
      <4> QED
        BY <1>1, <3>1, <4>1 DEF OrderedHist
    <3>2. CASE Kind(n) # "SequenceWithMemory"
      BY <3>2 DEF OrderedHist
    <3> QED
      BY <3>1, <3>2
  <2>2. Kind(n) \in Reactives => ReactiveHist(n, m2, "out", g)
    BY DEF ReactiveHist
  <2>3. Kind(n) \in Parallels => ParallelHist(n, s2, m2, "out", g)
    BY DEF ParallelHist
  <2>4. Kind(n) \in {"IfThenElse", "WhileDoElse"} => BranchHist(n, s2, m2, "out", g)
    BY DEF BranchHist
  <2>5. Kind(n) \in Loops => LoopHist(n, s2, m2, "out", r2, t)
    BY <1>1 DEF HistOK, LoopHist
  <2>6. Kind(n) = "Loop" => QueueHist(n, s2, m2, "out", r2, t)
    BY <1>1 DEF QueueHist
  <2>7. Kind(n) = "RunOnce" => t = IF m2.on \/ ("out" = "back" /\ r2 \in Completed) THEN 1 ELSE 0
    BY <1>1 DEF HistOK
  <2>8. g \in [DOMAIN Children(n) -> Results \cup {None}] /\ t \in Nat
    BY DEF HistOK
  <2> QED
    BY <2>1, <2>2, <2>3, <2>4, <2>5, <2>6, <2>7, <2>8 DEF HistOK
<1>2. CASE m2 = Blank /\ Kind(n) \notin {"SequenceWithMemory", "RunOnce", "Precondition", "Loop"}
  <2>1. Kind(n) \in Ordered => OrderedHist(n, s2, m2, "out", g)
    BY <1>2 DEF OrderedHist
  <2>2. Kind(n) \in Loops => LoopHist(n, s2, m2, "out", r2, t)
    BY <1>2 DEF LoopHist, Blank
  <2> QED
    BY <1>2, <2>1, <2>2 DEF HistOK, ReactiveHist, ParallelHist, BranchHist
<1> QED
  BY <1>1, <1>2

\* A pre-condition makes the node return without a tick().
LEMMA PreemptTold ==
  ASSUME IInv, StartedInv, HistInv, NEW n, Inside(n), Preempt(n)
  PROVE  Answers(n)
<1> DEFINE told == n = X /\ Asked
           m == IF n \in DOMAIN mem THEN mem[n] ELSE Blank
           h == IF n \in DOMAIN mem THEN HaltedMem(n) ELSE Blank
<1>1. /\ n \in Nodes /\ tree \in DOMAIN Forest /\ m = Mem(n) /\ m \in MemType(n)
      /\ n \notin DOMAIN mem => m = Blank
  BY Here DEF Mem
<1>2. ret = None /\ None \notin Completed
  BY DEF Preempt, None, Completed
<1>3. DoneIdx(n) \subseteq Settled(n, m) /\ (told => HistOK(n, status[n], m, "entered", ret, got, tries))
  BY <1>1, <1>2, ToldHere
<1>4. h = m \/ h = IF Kind(n) \in {"SequenceWithMemory", "RunOnce", "Precondition", "Loop"}
                   THEN m ELSE Blank
  BY DEF HaltedMem
<1>5. h \in MemType(n) /\ (n \notin DOMAIN mem => h = Blank)
  BY <1>1, <1>4, BlankFacts
<1>6. \/ /\ status[n] = "IDLE"
         /\ \E s \in Completed \cup {"SKIPPED"} : Return(n, s, m, {})
      \/ status[n] = "RUNNING" /\ Return(n, "SKIPPED", h, {n})
  BY Zenon DEF Preempt, Completed
<1> DEFINE fresh(a) == [a EXCEPT !.fresh = FALSE]
<1>7. \A a \in MemType(n) : fresh(a) \in MemType(n) /\ (a = Blank => fresh(a) = Blank)
  BY BlankFacts
<1>8. ASSUME NEW a \in MemType(n), NEW s, NEW r, HistOK(n, s, a, "out", r, got, tries)
      PROVE  HistOK(n, s, fresh(a), "out", r, got, tries)
  BY <1>8, FreshHist
<1>9. \A a \in MemType(n) : Settled(n, fresh(a)) = Settled(n, a)
  BY FreshHist
<1>10. \A s, a, H : Return(n, s, a, H) => Leaves(n, s, fresh(a), H) /\ Exits(s)
  BY Zenon DEF Return
<1>11. "RUNNING" \notin Completed /\ "SKIPPED" \notin Completed /\ "SKIPPED" \in Results
       /\ Completed \subseteq Results
  BY DEF Completed, Results
<1> HIDE DEF m, h, fresh, told
<1>12. CASE status[n] = "IDLE" /\ \E s \in Completed \cup {"SKIPPED"} : Return(n, s, m, {})
  <2>1. PICK s \in Completed \cup {"SKIPPED"} : Return(n, s, m, {})
    BY <1>12
  <2> DEFINE H  == {}
             s1 == IF s # "SKIPPED" THEN s ELSE IF H = {n} THEN "IDLE" ELSE status[n]
  <2>2. H # {n} /\ H \in (SUBSET ChildSet(n)) \cup {{n}} /\ s \in Results
    BY <1>11
  <2>3. DoneOK(n, fresh(m), DoneIdx(n) \ Index(n, H), FALSE)
    BY <1>1, <1>3, <1>9 DEF DoneOK
  <2>4. s1 # "RUNNING"
    BY <1>11, <1>12
  <2>5. Leaves(n, s, fresh(m), H) /\ Exits(s) /\ fresh(m) \in MemType(n)
        /\ (n \notin DOMAIN mem => fresh(m) = Blank)
    BY <1>1, <1>7, <1>10, <2>1
  <2> HIDE DEF s1, H
  <2>6. told => HistOK(n, s1, fresh(m), "out", s, got, tries)
    BY <1>1, <1>3, <1>8, <2>4, HistPreempted
  <2>7. n = X /\ Asked =>
          /\ HistOK(n, IF s # "SKIPPED" THEN s ELSE IF H = {n} THEN "IDLE" ELSE status[n],
                    fresh(m), "out", s, got, tries)
          /\ s \in Completed => Promised(s) \/ Preempt(n)
    BY <2>6, Zenon DEF told, s1
  <2> QED
    BY <2>2, <2>3, <2>5, <2>7 DEF Answers
<1>13. CASE status[n] = "RUNNING" /\ Return(n, "SKIPPED", h, {n})
  <2>1. ~Locked(n)
    BY <1>2 DEF Locked, Entered
  <2>2. told => HistOK(n, "IDLE", fresh(h), "out", "SKIPPED", got, tries)
    BY <1>1, <1>3, <1>4, <1>5, <1>8, HistPreempted
  <2>3. Leaves(n, "SKIPPED", fresh(h), {n}) /\ Exits("SKIPPED") /\ fresh(h) \in MemType(n)
        /\ (n \notin DOMAIN mem => fresh(h) = Blank)
    BY <1>5, <1>7, <1>10, <1>13
  <2> DEFINE s1 == IF "SKIPPED" # "SKIPPED" THEN "SKIPPED" ELSE IF {n} = {n} THEN "IDLE" ELSE status[n]
  <2>4. s1 = "IDLE"
    OBVIOUS
  <2> HIDE DEF s1
  <2> QED
    BY <1>11, <1>13, <2>1, <2>2, <2>3, <2>4 DEF Answers, told, s1
<1> QED
  BY <1>6, <1>12, <1>13

\* A StatefulActionNode that has completed answers with the status it has.
LEMMA StatefulTold ==
  ASSUME IInv, StartedInv, HistInv, NEW n, Inside(n), StatefulDone(n)
  PROVE  Answers(n)
<1> DEFINE s == status[n]
           m == Mem(n)
           H == {}
<1>1. /\ Kind(n) \in Stateful /\ s \in Completed /\ Exits(s) /\ status' = status /\ mem' = mem
  BY DEF StatefulDone, Entered
<1>2. Kind(n) \notin Controls \cup Decorators
  BY <1>1 DEF Stateful, Controls, Decorators, Ordered, Sequences_, Fallbacks, Reactives,
              Parallels, Branches, Plain, Loops, Clocked
<1>3. /\ ChildSet(n) = {} /\ DoneIdx(n) = {} /\ ~(n = X /\ Asked)
      /\ n \in Nodes /\ tree \in DOMAIN Forest
  BY <1>2, LeafIs
<1>4. /\ m \in MemType(n) /\ (n \in DOMAIN mem => m = mem[n]) /\ (n \notin DOMAIN mem => m = Blank)
      /\ status = [x \in Nodes |-> status[x]] /\ mem = [x \in DOMAIN mem |-> mem[x]]
  BY Here DEF TypeOK
<1>5. s # "SKIPPED" /\ s \in Results
  BY <1>1 DEF Completed, Results
<1>6. Halted(H) = {} /\ H \cup UNION {ChildSet(x) : x \in Halted(H)} = {}
  BY DEF Halted
<1>7. Leaves(n, s, m, H)
  <2> DEFINE reset == H \cup UNION {ChildSet(x) : x \in Halted(H)}
  <2>1. reset = {}
    BY <1>6
  <2> HIDE DEF reset
  <2>2. status' = [x \in Nodes |-> CASE x = n /\ s # "SKIPPED" -> s
                                  [] x \in reset            -> "IDLE"
                                  [] OTHER                  -> status[x]]
    <3>1. \A x \in Nodes : (CASE x = n /\ s # "SKIPPED" -> s
                              [] x \in reset            -> "IDLE"
                              [] OTHER                  -> status[x]) = status[x]
      BY <2>1
    <3> QED
      BY <1>1, <1>4, <3>1
  <2>3. mem' = [x \in DOMAIN mem |-> CASE x = n              -> m
                                    [] x \in Halted(H) \ {n} -> HaltedMem(x)
                                    [] OTHER              -> mem[x]]
    <3>1. \A x \in DOMAIN mem : (CASE x = n              -> m
                                    [] x \in Halted(H) \ {n} -> HaltedMem(x)
                                    [] OTHER              -> mem[x]) = mem[x]
      BY <1>4, <1>6
    <3> QED
      BY <1>1, <1>4, <3>1
  <2> QED
    BY <2>2, <2>3, Zenon DEF Leaves, reset
<1> HIDE DEF s, m
<1>8. DoneIdx(n) \ Index(n, H) \subseteq Settled(n, m) /\ H \in SUBSET ChildSet(n)
  BY <1>3
<1> HIDE DEF H
<1> QED
  BY <1>1, <1>3, <1>4, <1>5, <1>7, <1>8, AnswersLeaves

\* What the step of the node that is ticked may be.
LEMMA NodeTold ==
  ASSUME IInv, StartedInv, HistInv, NEW n, Inside(n), NodeStep(n)
  PROVE  Continues(n) \/ Answers(n) \/ ClockStart(n) \/ ret' = "EXCEPTION"
<1>1. CASE Preempt(n)
  BY <1>1, PreemptTold
<1>2. CASE ControlStep(n)
  <2>1. CASE OrderedStep(n) \/ ReactiveStep(n) \/ ParallelStep(n)
    BY <2>1, OrderedTold, ReactiveTold, ParallelTold
  <2>2. CASE BranchStep(n)
    <3>1. CASE Kind(n) = "Switch"
      <4>1. ~BranchTick(n) /\ ~BranchChoose(n) /\ ~BranchNoElse(n) /\ ~BranchThrow(n)
            /\ ~BranchRunning(n) /\ ~BranchDone(n)
        BY <3>1 DEF BranchTick, BranchChoose, BranchNoElse, BranchThrow, BranchRunning, BranchDone,
                    Entered, Back
      <4> QED
        BY <2>2, <3>1, <4>1, SwitchTold DEF BranchStep
    <3>2. CASE Kind(n) # "Switch"
      BY <2>2, <3>2, BranchTold
    <3> QED
      BY <3>1, <3>2
  <2> QED
    BY <1>2, <2>1, <2>2 DEF ControlStep
<1>3. CASE DecoratorStep(n)
  BY <1>3, PlainTold, LoopTold, PreconditionTold, UpdatedTold, RunOnceTold, QueueTold, ClockTold
     DEF DecoratorStep
<1>4. CASE LeafStep(n)
  BY <1>4, LeafTold, StatefulTold
<1> QED
  BY <1>1, <1>2, <1>3, <1>4 DEF NodeStep

-----------------------------------------------------------------------------
(* The steps that keep the stack                                           *)

\* Of a Delay or a Timeout the history does not depend on the members.
LEMMA ClockHist ==
  ASSUME NEW n, Kind(n) \in Clocked, NEW s, NEW m, NEW p, NEW r, NEW g, NEW t,
         HistOK(n, s, m, p, r, g, t), NEW m2
  PROVE  HistOK(n, s, m2, p, r, g, t)
<1>1. /\ Kind(n) \notin Ordered \cup Reactives \cup Parallels \cup Loops
      /\ Kind(n) \notin {"IfThenElse", "WhileDoElse", "Switch", "Loop", "RunOnce",
                         "Precondition", "Updated"}
  BY DEF Clocked, Ordered, Sequences_, Fallbacks, Reactives, Parallels, Loops
<1>2. CurIdx(n, m) = 1 /\ CurIdx(n, m2) = 1
  BY <1>1 DEF CurIdx, Controls, Branches, Clocked
<1> QED
  BY <1>1, <1>2 DEF HistOK

\* Nothing is entered or left.
LEMMA StaysKeeps ==
  ASSUME IInv, StartedInv, HistInv, NextR, tree' = tree, stack' = stack, ret' = ret,
         ret # "EXCEPTION",
         \A x \in Nodes : DoneOK(x, Mem(x)', DoneIdx(x)', Inside(x) /\ ret \in Completed),
         status'[Root] \in Completed => status[Root] \in Completed,
         \A y \in Nodes : y = X /\ Asked => HistOK(y, status'[y], Mem(y)', Place(y), ret, got, tries)
  PROVE  StartedInv' /\ HistInv' /\ Keeps
<1>1. TypeOK /\ tree \in DOMAIN Forest /\ stack \in Seq(Nodes)
  BY DEF IInv, TypeOK
<1>2. got' = got /\ tries' = tries
  BY <1>1, HistoryStays
<1>3. PICK y \in Nodes : X = y /\ X' = y
  BY <1>1, SameX
<1>4. \A x \in Nodes : (Inside(x)' <=> Inside(x)) /\ Place(x)' = Place(x)
  <2>1. \A x : Inside(x)' <=> Inside(x)
    BY DEF Inside
  <2> QED
    BY <2>1 DEF Place
<1>5. HistInv'
  <2>1. Asked => HistOK(y, status'[y], Mem(y)', Place(y)', ret', got', tries')
    BY <1>2, <1>3, <1>4
  <2> QED
    BY <1>1, <1>3, <2>1, SameX
<1>6. StartedInv'
  <2>1. \A x \in Nodes : DoneOK(x, Mem(x), DoneIdx(x), Inside(x) /\ ret \in Completed)'
    <3> TAKE x \in Nodes
    <3>1. DoneOK(x, Mem(x)', DoneIdx(x)', Inside(x)' /\ ret' \in Completed)
      <4>1. DoneOK(x, Mem(x)', DoneIdx(x)', Inside(x) /\ ret \in Completed)
        OBVIOUS
      <4> QED
        BY <1>4, <4>1 DEF DoneOK
    <3>2. \A a, m, C, b : DoneOK(a, m, C, b)' = DoneOK(a, m, C, b)
      BY SameHist
    <3> QED
      BY <3>1, SameHist DEF DoneOK
  <2>2. Nodes' = Nodes /\ Root' = Root
    BY SameTree
  <2>3. (status[Root] \in Completed => stack = <<>> /\ ret \in Completed)'
    <3>1. status'[Root] \in Completed => stack' = <<>> /\ ret' \in Completed
      BY DEF StartedInv
    <3> QED
      BY <2>2, <3>1 DEF Completed
  <2> QED
    BY <2>1, <2>2, <2>3 DEF StartedInv
<1>7. Keeps
  <2>1. ASSUME NEW s, Inside(X), Exits(s) PROVE FALSE
    <3>1. stack # <<>> /\ stack' = Front(stack)
      BY <2>1 DEF Inside, Exits
    <3>2. Front(stack) = SubSeq(stack, 1, Len(stack) - 1)
      BY DEF Front
    <3>3. Len(stack') = Len(stack) - 1 /\ Len(stack) \in Nat
      BY <1>1, <3>1, <3>2
    <3> QED
      BY <3>3
  <2> QED
    BY <2>1 DEF Keeps
<1> QED
  BY <1>5, <1>6, <1>7

\* A handler of a timer writes a member of its node.
LEMMA MemberKeeps ==
  ASSUME IInv, StartedInv, HistInv, NextR, tree' = tree, stack' = stack, ret' = ret,
         ret # "EXCEPTION", status' = status, NEW n, Kind(n) \in Timed,
         \A x \in Nodes : x # n => Mem(x)' = Mem(x)
  PROVE  StartedInv' /\ HistInv' /\ Keeps
<1>1. TypeOK /\ tree \in DOMAIN Forest
  BY DEF IInv, TypeOK
<1>2. /\ Kind(n) \notin Ordered \cup Reactives \cup Parallels \cup {"IfThenElse", "WhileDoElse"}
      /\ Kind(n) \in Controls \cup Decorators => Kind(n) \in Clocked
  BY DEF Timed, Ordered, Sequences_, Fallbacks, Reactives, Parallels, Controls, Branches,
         Decorators, Plain, Loops, Clocked
<1>3. \A m : Settled(n, m) = {}
  BY <1>2 DEF Settled
<1>4. \A x \in Nodes : DoneIdx(x)' = DoneIdx(x)
  BY SameTree DEF DoneIdx, Completed
<1>5. ASSUME NEW x \in Nodes
      PROVE  DoneOK(x, Mem(x)', DoneIdx(x)', Inside(x) /\ ret \in Completed)
  <2>1. DoneOK(x, Mem(x), DoneIdx(x), Inside(x) /\ ret \in Completed)
    BY DEF StartedInv
  <2>2. CASE x # n
    BY <1>4, <2>1, <2>2
  <2>3. CASE x = n
    <3>1. \A m : CurIdx(x, m) = 1
      BY <1>2, <2>3 DEF CurIdx, Timed, Controls, Branches
    <3> QED
      BY <1>3, <1>4, <2>1, <2>3, <3>1 DEF DoneOK
  <2> QED
    BY <2>2, <2>3
<1>6. ASSUME NEW y \in Nodes, y = X, Asked
      PROVE  HistOK(y, status'[y], Mem(y)', Place(y), ret, got, tries)
  <2>1. HistOK(y, status'[y], Mem(y), Place(y), ret, got, tries)
    BY <1>6 DEF HistInv
  <2>2. CASE y # n
    BY <2>1, <2>2
  <2>3. CASE y = n
    <3>1. Kind(y) \in Clocked
      BY <1>2, <1>6, <2>3 DEF Asked
    <3> DEFINE m2 == Mem(y)'
    <3> HIDE DEF m2
    <3>2. HistOK(y, status'[y], m2, Place(y), ret, got, tries)
      BY <2>1, <3>1, ClockHist
    <3> QED
      BY <3>2 DEF m2
  <2> QED
    BY <2>2, <2>3
<1> QED
  BY <1>5, <1>6, StaysKeeps

\* A Delay or a Timeout starts its timer; a Timeout that is over halts its child.
LEMMA LeavesStays ==
  ASSUME IInv, StartedInv, HistInv, NextR, tree' = tree, stack' = stack, ret' = ret,
         ret # "EXCEPTION", NEW n \in Nodes, Kind(n) \in Clocked, ~Locked(n),
         NEW s \in Statuses, NEW m \in MemType(n), NEW H \in SUBSET ChildSet(n),
         Leaves(n, s, m, H),
         \/ s = status[n]
         \/ s = "RUNNING" /\ Inside(n) /\ ret = None
  PROVE  StartedInv' /\ HistInv' /\ Keeps
<1>1. TypeOK /\ TreeInv /\ tree \in DOMAIN Forest
  BY DEF IInv, TypeOK
<1>2. /\ \A x \in Below(n) : x # n => x \notin ToSet(stack) /\ ~Locked(x) /\ ~Inside(x)
      /\ n \in Below(n)
  BY <1>1, NoneInside, TreeFacts
<1>3. "RUNNING" \notin Completed /\ "IDLE" \notin Completed /\ s # "SKIPPED" /\ "IDLE" # "RUNNING"
  BY DEF Completed, Statuses
<1>4. /\ \A x \in Halted(H) : DoneIdx(x)' = {}
      /\ \A x \in Nodes : DoneIdx(x)' \subseteq DoneIdx(x)
  <2>1. /\ DoneIdx(n)' \subseteq DoneIdx(n) \ Index(n, H)
        /\ \A x \in Halted(H) : DoneIdx(x)' = {}
        /\ \A x \in Nodes : x # n =>
              DoneIdx(x)' \subseteq
                   DoneIdx(x) \cup {i \in DOMAIN Children(x) :
                                      n = Child(x, i) /\ s \in Completed /\ status[n] \notin Completed}
    BY <1>1, <1>2, LeavesLive
  <2>2. ~(s \in Completed /\ status[n] \notin Completed)
    BY <1>3
  <2>3. ASSUME NEW x \in Nodes PROVE DoneIdx(x)' \subseteq DoneIdx(x)
    <3>1. {i \in DOMAIN Children(x) : n = Child(x, i) /\ s \in Completed /\ status[n] \notin Completed} = {}
      BY <2>2
    <3> QED
      BY <2>1, <3>1
  <2> QED
    BY <2>1, <2>3
<1>5. /\ Halted(H) \subseteq Below(n) /\ n \notin Halted(H)
      /\ status'[n] = s
      /\ \A x \in Nodes : x # n /\ x \notin Halted(H) =>
           /\ Mem(x)' = Mem(x)
           /\ status'[x] \in {status[x], "IDLE"}
           /\ x \notin Below(n) => status'[x] = status[x]
      /\ \A x \in Halted(H) : x # n =>
           /\ status'[x] = "IDLE"
           /\ Mem(x)' = IF Kind(x) \in {"SequenceWithMemory", "RunOnce", "Precondition", "Loop"}
                        THEN Mem(x) ELSE Blank
  <2>1. n \notin ChildSet(n)
    BY <1>1, BelowFacts, TreeFacts
  <2>2. H # {n}
    BY <2>1
  <2> QED
    BY <1>1, <1>3, <2>2, LeavesFrame
<1>6. /\ Kind(n) \notin Ordered \cup Reactives \cup Parallels \cup {"IfThenElse", "WhileDoElse"}
      /\ \A a : CurIdx(n, a) = 1
  BY DEF Ordered, Sequences_, Fallbacks, Reactives, Parallels, Controls, Branches, Clocked, CurIdx
<1>7. \A a : Settled(n, a) = {}
  BY <1>6 DEF Settled
<1>8. ASSUME NEW x \in Nodes
      PROVE  DoneOK(x, Mem(x)', DoneIdx(x)', Inside(x) /\ ret \in Completed)
  <2>1. DoneOK(x, Mem(x), DoneIdx(x), Inside(x) /\ ret \in Completed)
    BY DEF StartedInv
  <2>2. DoneIdx(x)' \subseteq DoneIdx(x)
    BY <1>4
  <2>3. CASE x = n
    BY <1>6, <1>7, <2>1, <2>2, <2>3 DEF DoneOK
  <2>4. CASE x \in Halted(H)
    BY <1>4, <2>4 DEF DoneOK
  <2>5. CASE x # n /\ x \notin Halted(H)
    BY <1>5, <2>1, <2>2, <2>5 DEF DoneOK
  <2> QED
    BY <2>3, <2>4, <2>5
<1>9. status'[Root] \in Completed => status[Root] \in Completed
  <2>1. Root \in Nodes
    BY <1>1, TreeFacts
  <2>2. CASE Root = n
    BY <1>3, <1>5, <2>2
  <2>3. CASE Root # n
    BY <1>3, <1>5, <2>1, <2>3
  <2> QED
    BY <2>2, <2>3
<1>10. ASSUME NEW y \in Nodes, y = X, Asked
       PROVE  HistOK(y, status'[y], Mem(y)', Place(y), ret, got, tries)
  <2>1. HistOK(y, status[y], Mem(y), Place(y), ret, got, tries)
    BY <1>10 DEF HistInv
  <2> DEFINE m2 == Mem(y)'
             s2 == status'[y]
  <2>2. CASE y = n
    <3>1. s2 = s
      BY <1>5, <2>2
    <3> HIDE DEF m2, s2
    <3>2. HistOK(y, s2, Mem(y), Place(y), ret, got, tries)
      <4>1. CASE s = status[y]
        BY <2>1, <3>1, <4>1
      <4>2. CASE s # status[y]
        <5>1. s = "RUNNING" /\ Inside(y) /\ ret = None
          BY <2>2, <4>2
        <5>2. Place(y) = "entered"
          BY <1>1, <5>1, PlaceFacts
        <5>3. status[y] = "IDLE"
          <6>1. status[y] \in {"IDLE", "RUNNING"}
            BY <1>1, <1>10, <5>1, Started DEF StartedOrGoesOn, Asked
          <6> QED
            BY <4>2, <5>1, <6>1
        <5>4. /\ Kind(y) \notin Ordered \cup Reactives \cup Parallels \cup Loops
              /\ Kind(y) \notin {"IfThenElse", "WhileDoElse", "Switch", "Loop", "RunOnce",
                         "Precondition", "Updated", "SequenceWithMemory"}
          BY <2>2 DEF Clocked, Ordered, Sequences_, Fallbacks, Reactives, Parallels, Loops
        <5>5. 1 \in DOMAIN Children(y)
          <6>1. Kind(y) \in Decorators
            BY <2>2 DEF Decorators
          <6> QED
            BY <1>1, <6>1, ArityFacts
        <5>6. /\ HistOK(y, "IDLE", Mem(y), "entered", ret, got, tries)
              /\ s2 = "RUNNING"
          BY <2>1, <3>1, <5>1, <5>2, <5>3
        <5>7. got[1] = None /\ None \notin Completed
          BY <5>4, <5>5, <5>6 DEF HistOK, None, Completed
        <5>8. HistOK(y, "RUNNING", Mem(y), "entered", ret, got, tries)
          BY <5>4, <5>6, <5>7 DEF HistOK
        <5> QED
          BY <5>2, <5>6, <5>8
      <4> QED
        BY <4>1, <4>2
    <3>3. HistOK(y, s2, m2, Place(y), ret, got, tries)
      BY <2>2, <3>2, ClockHist
    <3> QED
      BY <3>3 DEF m2, s2
  <2>3. CASE y # n /\ y \in Below(n)
    <3>1. Place(y) = "out"
      BY <1>2, <2>3 DEF Place
    <3>2. \/ s2 = status[y] /\ m2 = Mem(y)
          \/ /\ s2 # "RUNNING"
             /\ \/ m2 = Mem(y)
                \/ m2 = IF Kind(y) \in {"SequenceWithMemory", "RunOnce", "Precondition", "Loop"}
                        THEN Mem(y) ELSE Blank
      BY <1>3, <1>5, <2>3
    <3>3. HistOK(y, status[y], Mem(y), "out", ret, got, tries)
      BY <2>1, <3>1
    <3> HIDE DEF m2, s2
    <3>4. HistOK(y, s2, m2, "out", ret, got, tries)
      BY <3>2, <3>3, HistOut
    <3> QED
      BY <3>1, <3>4 DEF m2, s2
  <2>4. CASE y \notin Below(n)
    <3>1. s2 = status[y] /\ m2 = Mem(y)
      BY <1>2, <1>5, <2>4
    <3> QED
      BY <2>1, <3>1
  <2> QED
    BY <2>2, <2>3, <2>4
<1> QED
  BY <1>8, <1>9, <1>10, StaysKeeps

\* The threads of the timer queues.
LEMMA TimersTold ==
  ASSUME IInv, StartedInv, HistInv, NextR, ret # "EXCEPTION", TimerStep
  PROVE  StartedInv' /\ HistInv' /\ Keeps
<1>1. PICK n \in DOMAIN timer : SleepStep(n) \/ ClockStep(n)
  BY DEF TimerStep
<1>2. /\ TypeOK /\ tree \in DOMAIN Forest /\ n \in Nodes /\ Kind(n) \in Timed
      /\ n \in DOMAIN mem /\ mem[n] \in MemType(n) /\ status[n] \in Statuses
  <2>1. TypeOK
    BY DEF IInv
  <2>2. n \in Nodes /\ Kind(n) \in Timed /\ status \in [Nodes -> Statuses] /\ tree \in DOMAIN Forest
    BY <1>1, <2>1 DEF TypeOK
  <2>3. Kind(n) \in WithMem
    BY <2>2 DEF WithMem
  <2>4. n \in DOMAIN mem
    BY <2>1, <2>2, <2>3, MemFacts
  <2> QED
    BY <2>1, <2>2, <2>4 DEF TypeOK
<1>3. tree' = tree /\ stack' = stack /\ ret' = ret
  BY <1>1 DEF SleepStep, SleepSignals, SleepClears, ClockStep, DelayExpires, DelayAborted, TimeoutExpires
<1>4. CASE status' = status /\ \A x : x # n => Mem(x)' = Mem(x)
  BY <1>2, <1>3, <1>4, MemberKeeps
<1>5. CASE status' = status /\ mem' = mem
  BY <1>4, <1>5 DEF Mem
<1>6. ASSUME NEW m, mem' = [mem EXCEPT ![n] = m], status' = status
      PROVE  StartedInv' /\ HistInv' /\ Keeps
  <2>1. \A x : x # n => Mem(x)' = Mem(x)
    BY <1>6 DEF Mem
  <2> QED
    BY <1>4, <1>6, <2>1
<1>7. CASE SleepStep(n)
  BY <1>5, <1>6, <1>7 DEF SleepStep, SleepSignals, SleepClears
<1>8. CASE DelayExpires(n) \/ DelayAborted(n)
  BY <1>6, <1>8 DEF DelayExpires, DelayAborted
<1>9. CASE TimeoutExpires(n)
  <2> DEFINE c == Children(n)[1]
             m == [mem[n] EXCEPT !.hit = TRUE]
  <2>1. /\ Kind(n) \in Clocked /\ Kind(n) \in Decorators /\ ~Locked(n)
        /\ \/ Leaves(n, status[n], m, {c})
           \/ status' = status /\ mem' = mem
    BY <1>9 DEF TimeoutExpires, Clocked, Decorators
  <2>2. c \in ChildSet(n)
    <3>1. 1 \in DOMAIN Children(n)
      BY <1>2, <2>1, ArityFacts
    <3> QED
      BY <3>1 DEF ChildSet, ToSet
  <2>3. m \in MemType(n)
    BY <1>2 DEF MemType
  <2> HIDE DEF c, m
  <2>4. CASE Leaves(n, status[n], m, {c})
    BY <1>2, <1>3, <2>1, <2>2, <2>3, <2>4, LeavesStays
  <2> QED
    BY <1>5, <2>1, <2>4
<1> QED
  BY <1>1, <1>7, <1>8, <1>9 DEF ClockStep

\* A Delay or a Timeout adds its timer.
LEMMA ClockStartTold ==
  ASSUME IInv, StartedInv, HistInv, NextR, NEW n, Inside(n), ClockStart(n)
  PROVE  StartedInv' /\ HistInv' /\ Keeps
<1> DEFINE m == [Blank EXCEPT !.on = TRUE]
<1>1. /\ Kind(n) \in Clocked /\ tree' = tree /\ stack' = stack /\ ret' = ret /\ ret = None
      /\ Leaves(n, "RUNNING", m, {})
  BY DEF ClockStart, Entered
<1>2. m \in MemType(n) /\ "RUNNING" \in Statuses /\ None # "EXCEPTION" /\ {} \in SUBSET ChildSet(n)
  BY BlankFacts DEF MemType, Statuses, None
<1>3. n \in Nodes /\ ~Locked(n)
  BY <1>1, Here DEF Locked, Entered
<1> HIDE DEF m
<1> QED
  BY <1>1, <1>2, <1>3, LeavesStays

-----------------------------------------------------------------------------
(* The root                                                                *)

\* Between two ticks.
LEMMA AtRest ==
  ASSUME IInv, stack = <<>>
  PROVE  /\ TypeOK /\ tree \in DOMAIN Forest /\ X \in Nodes /\ Root \in Nodes
         /\ \A x \in Nodes : ~Inside(x) /\ Place(x) = "out" /\ ~Locked(x)
<1>1. TypeOK /\ tree \in DOMAIN Forest
  BY DEF IInv, TypeOK
<1>2. X \in Nodes
  BY <1>1, SubjectAssumption DEF X, Nodes
<1>3. \A x \in Nodes : ~Inside(x) /\ Place(x) = "out" /\ ~Locked(x)
  BY DEF Inside, Place, Locked, ToSet
<1> QED
  BY <1>1, <1>2, <1>3, TreeFacts

\* The status of the root is reset, and the tree waits.
LEMMA TickEndsTold ==
  ASSUME IInv, StartedInv, HistInv, NextR, TickEnds
  PROVE  StartedInv' /\ HistInv' /\ Keeps
<1>1. /\ stack = <<>> /\ stack' = stack /\ ret \in Results /\ ret' = None /\ tree' = tree /\ mem' = mem
      /\ status' = IF ret \in Completed THEN [status EXCEPT ![Root] = "IDLE"] ELSE status
  BY DEF TickEnds
<1>2. /\ TypeOK /\ tree \in DOMAIN Forest /\ X \in Nodes /\ Root \in Nodes
      /\ \A x \in Nodes : ~Inside(x) /\ Place(x) = "out"
  BY <1>1, AtRest
<1>3. status \in [Nodes -> Statuses] /\ "IDLE" \notin Completed /\ None \notin Completed
      /\ "IDLE" # "RUNNING"
  BY <1>2 DEF TypeOK, Completed, None
<1>4. \A x \in Nodes : status'[x] = status[x] \/ status'[x] = "IDLE"
  BY <1>1, <1>3
<1>5. \A x : Mem(x)' = Mem(x)
  BY <1>1 DEF Mem
<1>6. got' = got /\ tries' = tries
  BY <1>1, HistoryStays
<1>7. \A x \in Nodes : Inside(x)' <=> FALSE
  BY <1>1 DEF Inside
<1>8. StartedInv'
  <2>1. ASSUME NEW x \in Nodes PROVE DoneOK(x, Mem(x), DoneIdx(x), Inside(x) /\ ret \in Completed)'
    <3>1. DoneIdx(x)' \subseteq DoneIdx(x)
      <4>1. \A i \in DOMAIN Children(x) : Child(x, i) \in Nodes
        BY <1>2, TreeFacts
      <4> QED
        BY <1>1, <1>3, <1>4, <4>1, SameTree DEF DoneIdx, Completed
    <3>2. DoneIdx(x) \subseteq Settled(x, Mem(x))
      BY <1>2 DEF StartedInv, DoneOK
    <3>3. DoneOK(x, Mem(x)', DoneIdx(x)', Inside(x)' /\ ret' \in Completed)
      BY <1>5, <3>1, <3>2 DEF DoneOK
    <3> QED
      BY <1>1, <3>3, SameHist DEF DoneOK
  <2>2. Nodes' = Nodes /\ Root' = Root
    BY <1>1, SameTree
  <2>3. status'[Root] \notin Completed
    BY <1>1, <1>2, <1>3 DEF StartedInv
  <2>4. (status[Root] \in Completed => stack = <<>> /\ ret \in Completed)'
    BY <2>2, <2>3 DEF Completed
  <2> QED
    BY <2>1, <2>2, <2>4 DEF StartedInv
<1>9. HistInv'
  <2>1. PICK y \in Nodes : X = y /\ X' = y
    BY <1>1, <1>2, SameX
  <2>2. ASSUME Asked PROVE HistOK(y, status'[y], Mem(y)', Place(y)', ret', got', tries')
    <3>1. HistOK(y, status[y], Mem(y), "out", ret, got, tries)
      BY <1>2, <2>1, <2>2 DEF HistInv
    <3>2. Place(y)' = "out"
      BY <1>1 DEF Place, ToSet
    <3> DEFINE s2 == status'[y]
    <3>3. s2 = status[y] \/ s2 # "RUNNING"
      BY <1>3, <1>4
    <3> HIDE DEF s2
    <3>4. HistOK(y, s2, Mem(y), "out", ret', got, tries)
      BY <3>1, <3>3, HistOut
    <3> QED
      BY <1>5, <1>6, <3>2, <3>4 DEF s2
  <2> QED
    BY <1>1, <1>2, <2>1, <2>2, SameX
<1>10. Keeps
  BY <1>2 DEF Keeps
<1> QED
  BY <1>8, <1>9, <1>10

\* The root is ticked, again or for the first time.
LEMMA RootTold ==
  ASSUME IInv, StartedInv, HistInv, NextR, TickRoot \/ TickAgain
  PROVE  StartedInv' /\ HistInv' /\ Keeps
<1>1. /\ stack = <<>> /\ stack' = <<Root>> /\ ret \notin Completed /\ ret' = None /\ tree' = tree
      /\ mem' = mem /\ status' = status /\ ret # "EXCEPTION"
  BY DEF TickRoot, TickAgain, None, Completed
<1>2. /\ TypeOK /\ tree \in DOMAIN Forest /\ X \in Nodes /\ Root \in Nodes
      /\ \A x \in Nodes : ~Inside(x) /\ Place(x) = "out" /\ ~Locked(x)
  BY <1>1, AtRest
<1>3. None \notin Completed
  BY DEF Completed, None
<1>4. /\ Len(stack') > Len(stack) /\ ~(Len(stack') < Len(stack)) /\ Last(stack') = Root
      /\ ToSet(stack') = {Root} /\ stack' # <<>>
  BY <1>1 DEF Last, ToSet
<1>5. \A x : Mem(x)' = Mem(x)
  BY <1>1 DEF Mem
<1>6. status[Root] \notin Completed
  BY <1>1 DEF StartedInv
<1>7. \A x \in Nodes : Place(x)' = IF x = Root THEN "entered" ELSE "out"
  <2>1. \A x : Inside(x)' <=> x = Root
    BY <1>4 DEF Inside
  <2> QED
    BY <1>1, <1>4, <2>1 DEF Place
<1>8. StartedInv'
  <2>1. ASSUME NEW x \in Nodes PROVE DoneOK(x, Mem(x), DoneIdx(x), Inside(x) /\ ret \in Completed)'
    <3>1. DoneIdx(x)' = DoneIdx(x)
      BY <1>1, SameTree DEF DoneIdx, Completed
    <3>2. DoneIdx(x) \subseteq Settled(x, Mem(x))
      BY <1>2 DEF StartedInv, DoneOK
    <3>3. DoneOK(x, Mem(x)', DoneIdx(x)', Inside(x)' /\ ret' \in Completed)
      BY <1>5, <3>1, <3>2 DEF DoneOK
    <3> QED
      BY <1>1, <3>3, SameHist DEF DoneOK
  <2>2. Nodes' = Nodes /\ Root' = Root
    BY <1>1, SameTree
  <2>3. (status[Root] \in Completed => stack = <<>> /\ ret \in Completed)'
    BY <1>1, <1>6, <2>2 DEF Completed
  <2> QED
    BY <2>1, <2>2, <2>3 DEF StartedInv
<1>9. HistInv'
  <2>1. PICK y \in Nodes : X = y /\ X' = y
    BY <1>1, <1>2, SameX
  <2>2. ASSUME Asked PROVE HistOK(y, status'[y], Mem(y)', Place(y)', ret', got', tries')
    <3>1. HistOK(y, status[y], Mem(y), "out", ret, got, tries)
      BY <1>2, <2>1, <2>2 DEF HistInv
    <3>2. ~BackToX /\ (EntersX <=> y = Root)
      <4>1. EntersX <=> Last(stack') = X
        BY <1>4 DEF EntersX
      <4>2. ~BackToX
        BY <1>4 DEF BackToX
      <4> QED
        BY <1>4, <2>1, <4>1, <4>2
    <3>3. CASE y # Root
      <4>1. got' = got /\ tries' = tries
        BY <3>2, <3>3 DEF NextR, Begins
      <4>2. HistOK(y, status[y], Mem(y), "out", ret', got, tries)
        BY <3>1, HistOut
      <4> QED
        BY <1>1, <1>5, <1>7, <3>3, <4>1, <4>2
    <3>4. CASE y = Root
      <4>1. Kind(y) \in Controls \cup Decorators
        BY <2>1, <2>2 DEF Asked
      <4>2. status[y] \in {"IDLE", "RUNNING"}
        BY <1>2, <1>6, <3>4 DEF TypeOK, Statuses, Completed
      <4>3. NodeOK(y, status[y], Mem(y), FALSE, LiveIdx(y), DoneIdx(y), FALSE)
        <5>1. TreeInv /\ NodeInv(y)
          BY <1>1 DEF IInv, TreeInv
        <5>2. ~Locked(y) /\ ~(Inside(y) /\ ret \in Completed)
          BY <1>2
        <5> QED
          BY <5>1, <5>2, NodeInvIs
      <4>4. Mem(y) \in MemType(y)
        BY <1>2, MemFacts
      <4>5. Passed(LastTry(X)) <=> Passes(y, got, LastTry(y))
        BY <2>1 DEF Passed, Passes
      <4>6. Begins <=> \/ status[y] = "IDLE" /\ Kind(y) \notin {"SequenceWithMemory", "RunOnce"}
                       \/ Kind(y) \in Ordered /\ Passes(y, got, LastTry(y))
                       \/ Kind(y) \in Reactives \cup {"WhileDoElse", "Switch"}
        <5>1. Begins <=> \/ status'[X] = "IDLE" /\ Kind(X) \notin {"SequenceWithMemory", "RunOnce"}
                         \/ Kind(X) \in Ordered /\ Passed(LastTry(X))
                         \/ Kind(X) \in Reactives \cup {"WhileDoElse", "Switch"}
          BY <3>2, <3>4 DEF Begins
        <5> QED
          BY <1>1, <2>1, <4>5, <5>1
      <4>7. Unset = [i \in DOMAIN Children(y) |-> None]
        BY <2>1 DEF Unset
      <4>8. IF \/ status[y] = "IDLE" /\ Kind(y) \notin {"SequenceWithMemory", "RunOnce"}
               \/ Kind(y) \in Ordered /\ Passes(y, got, LastTry(y))
               \/ Kind(y) \in Reactives \cup {"WhileDoElse", "Switch"}
            THEN got' = [i \in DOMAIN Children(y) |-> None] /\ tries' = 0
            ELSE got' = got /\ tries' = tries
        BY <3>2, <4>6, <4>7 DEF NextR
      <4> DEFINE g2 == got'
                 t2 == tries'
                 L  == LiveIdx(y)
                 C  == DoneIdx(y)
      <4> HIDE DEF g2, t2, L, C
      <4>9. IF \/ status[y] = "IDLE" /\ Kind(y) \notin {"SequenceWithMemory", "RunOnce"}
               \/ Kind(y) \in Ordered /\ Passes(y, got, LastTry(y))
               \/ Kind(y) \in Reactives \cup {"WhileDoElse", "Switch"}
            THEN g2 = [i \in DOMAIN Children(y) |-> None] /\ t2 = 0
            ELSE g2 = got /\ t2 = tries
        BY <4>8 DEF g2, t2
      <4>10. NodeOK(y, status[y], Mem(y), FALSE, L, C, FALSE)
        BY <4>3 DEF L, C
      <4>11. HistOK(y, status[y], Mem(y), "entered", None, g2, t2)
        BY <1>2, <3>1, <4>1, <4>2, <4>4, <4>9, <4>10, HistEnters
      <4> QED
        BY <1>1, <1>5, <1>7, <3>4, <4>11 DEF g2, t2
    <3> QED
      BY <3>3, <3>4
  <2> QED
    BY <1>1, <1>2, <2>1, <2>2, SameX
<1>10. Keeps
  BY <1>2 DEF Keeps
<1> QED
  BY <1>8, <1>9, <1>10
\* The tree that runs stays the same.
LEMMA TreeStays ==
  ASSUME NEW n, NodeStep(n)
  PROVE  tree' = tree
<1>1. Preempt(n) => tree' = tree
  BY DEF Preempt
<1>2. LeafStep(n) => tree' = tree
  BY DEF LeafStep, InstantTick, StatefulDone, SleepAtOnce, SleepStart, SleepTick, ActionStart,
         ActionFailsAtOnce, ActionRunning, ActionSuccess, ActionFailure
<1>3. DecoratorStep(n) => tree' = tree
  BY DEF DecoratorStep, PlainTick, PlainBack, LoopTick, LoopAgain, LoopBack, PreconditionTick,
         PreconditionBack, UpdatedTick, UpdatedBack, RunOnceTick, RunOnceBack, QueueTick, QueueBack,
         ClockStart, DelayTick, TimeoutTick, ClockBack
<1>4. BranchStep(n) => tree' = tree
  BY DEF BranchStep, BranchTick, BranchChoose, BranchNoElse, BranchThrow, BranchRunning, BranchDone,
         SwitchTick, SwitchBack
<1>5. OrderedStep(n) \/ ReactiveStep(n) \/ ParallelStep(n) => tree' = tree
  BY DEF OrderedStep, OrderedTick, OrderedRunning, OrderedStop, OrderedPass, OrderedSkip,
         OrderedEnd, OrderedCaught, ReactiveStep, ReactiveTick, ReactiveRunning, ReactiveStop,
         ReactiveNext, ParallelStep, ParallelThrow, ParallelTick, ParallelBack, ParallelAllBack
<1> QED
  BY <1>1, <1>2, <1>3, <1>4, <1>5 DEF NodeStep, ControlStep


-----------------------------------------------------------------------------
(* The theorems                                                            *)

\* A step keeps the invariant, and what is promised.
LEMMA StepKeeps ==
  ASSUME IInv, RInv, NextR
  PROVE  RInv' /\ Keeps
<1>1. IInv'
  BY NextKeeps DEF NextR
<1>2. CASE ret = "EXCEPTION"
  <2>1. stack = <<>>
    BY <1>2 DEF IInv
  <2>2. TimerStep
    <3>1. ~TickRoot /\ ~TickAgain /\ ~TickEnds
      BY <1>2 DEF TickRoot, TickAgain, TickEnds, Results, Completed, None
    <3> QED
      BY <2>1, <3>1 DEF NextR, Next, TickStep
  <2>3. ret' = ret
    BY <2>2 DEF TimerStep, SleepStep, SleepSignals, SleepClears, ClockStep, DelayExpires,
                DelayAborted, TimeoutExpires
  <2> QED
    BY <1>2, <2>1, <2>3 DEF RInv, Keeps, Inside
<1>3. CASE ret # "EXCEPTION"
  <2>1. StartedInv /\ HistInv
    BY <1>3 DEF RInv
  <2>2. CASE StartedInv' /\ HistInv' /\ Keeps
    BY <2>2 DEF RInv
  <2>3. CASE ret' = "EXCEPTION"
    BY <2>3 DEF RInv, Keeps, Exits, Completed
  <2>4. CASE TickRoot \/ TickAgain
    BY <2>1, <2>2, <2>4, RootTold
  <2>5. CASE TickEnds
    BY <2>1, <2>2, <2>5, TickEndsTold
  <2>6. CASE TimerStep
    BY <1>3, <2>1, <2>2, <2>6, TimersTold
  <2>7. CASE stack # <<>> /\ NodeStep(Last(stack))
    <3> DEFINE n == Last(stack)
    <3>1. Inside(n) /\ NodeStep(n)
      BY <2>7 DEF Inside
    <3>2. tree' = tree
      BY <3>1, TreeStays
    <3> HIDE DEF n
    <3>3. Continues(n) \/ Answers(n) \/ ClockStart(n) \/ ret' = "EXCEPTION"
      BY <2>1, <3>1, NodeTold
    <3>4. CASE Continues(n)
      BY <1>1, <2>1, <2>2, <3>1, <3>2, <3>4, ContinuesKeeps
    <3>5. CASE Answers(n)
      BY <2>1, <2>2, <3>1, <3>2, <3>5, AnswersKeeps
    <3>6. CASE ClockStart(n)
      BY <2>1, <2>2, <3>1, <3>6, ClockStartTold
    <3> QED
      BY <2>3, <3>3, <3>4, <3>5, <3>6
  <2> QED
    BY <2>4, <2>5, <2>6, <2>7 DEF NextR, Next, TickStep
<1> QED
  BY <1>2, <1>3

\* At first nothing has been told.
LEMMA BeginsTold ==
  InitR => IInv /\ RInv
<1> SUFFICES ASSUME InitR PROVE IInv /\ RInv
  OBVIOUS
<1>1. Init /\ IInv
  BY InitOK DEF InitR
<1>2. /\ tree \in DOMAIN Forest /\ status = [n \in Nodes |-> "IDLE"] /\ stack = <<>> /\ ret = None
      /\ mem = [n \in {n \in Nodes : Kind(n) \in WithMem} |-> Blank]
      /\ got = Unset /\ tries = 0
  BY <1>1 DEF InitR, Init
<1>3. /\ X \in Nodes /\ Root \in Nodes
      /\ \A n \in Nodes : ~Inside(n) /\ Place(n) = "out"
  BY <1>1, <1>2, AtRest
<1>4. \A n : Mem(n) = Blank
  BY <1>2 DEF Mem
<1>5. StartedInv
  <2>1. \A n \in Nodes : DoneIdx(n) = {}
    BY <1>2, TreeFacts DEF DoneIdx, Completed
  <2> QED
    BY <1>2, <1>3, <2>1 DEF StartedInv, DoneOK, Completed
<1>6. HistInv
  <2> SUFFICES ASSUME Asked PROVE HistOK(X, "IDLE", Blank, "out", None, got, 0)
    BY <1>2, <1>3, <1>4 DEF HistInv
  <2>1. PICK n \in Nodes : n = X
    BY <1>3
  <2> DEFINE g == [i \in DOMAIN Children(n) |-> None]
  <2>2. got = g
    BY <1>2, <2>1 DEF Unset
  <2>3. /\ DOMAIN g = DOMAIN Children(n) /\ \A i \in DOMAIN Children(n) : g[i] = None
        /\ g \in [DOMAIN Children(n) -> Results \cup {None}]
    OBVIOUS
  <2> HIDE DEF g
  <2> DEFINE m == Blank
  <2>4. m.idx = 1 /\ m.skips = 0 /\ m.count = 0 /\ m.done = {} /\ ~m.on /\ ~m.hit /\ ~m.fresh
    BY BlankFacts
  <2>5. m = Blank
    OBVIOUS
  <2> HIDE DEF m
  <2>6. /\ N(n) \in Nat /\ DOMAIN Children(n) = 1 .. N(n) /\ (Kind(n) \in Controls => N(n) >= 1)
        /\ (Kind(n) = "TryCatch" => N(n) >= 2)
    BY <1>2, ArityFacts, TreeFacts DEF N
  <2>7. Kind(n) \in Ordered => OrderedHist(n, "IDLE", m, "out", g)
    <3> SUFFICES ASSUME Kind(n) \in Ordered PROVE OrderedHist(n, "IDLE", m, "out", g)
      OBVIOUS
    <3>1. LastTry(n) >= 1 /\ 1 \in DOMAIN Children(n)
      BY <2>6 DEF LastTry, Controls
    <3>2. Skips(g, 1 - 1) = {} /\ Cardinality({}) = 0
      BY FS_EmptySet DEF Skips
    <3>3. g[1] \notin {Pass(n), "SKIPPED"}
      BY <2>3, <3>1 DEF Pass, None
    <3>4. Passes(n, g, 1 - 1) /\ \A j \in 1 + 1 .. N(n) : g[j] = None
      BY <2>3, <2>6 DEF Passes
    <3> QED
      BY <2>4, <3>1, <3>2, <3>3, <3>4 DEF OrderedHist
  <2>8. /\ ReactiveHist(n, m, "out", g) /\ ParallelHist(n, "IDLE", m, "out", g)
        /\ BranchHist(n, "IDLE", m, "out", g) /\ LoopHist(n, "IDLE", m, "out", None, 0)
        /\ QueueHist(n, "IDLE", m, "out", None, 0)
    BY <2>4 DEF ReactiveHist, ParallelHist, BranchHist, LoopHist, QueueHist
  <2>9. HistOK(n, "IDLE", m, "out", None, g, 0)
    BY <2>3, <2>4, <2>7, <2>8 DEF HistOK
  <2> QED
    BY <2>1, <2>2, <2>5, <2>9
<1> QED
  BY <1>1, <1>5, <1>6 DEF RInv

\* Nothing changes.
LEMMA NothingTold ==
  ASSUME IInv, RInv, UNCHANGED varsR
  PROVE  RInv'
<1>1. /\ tree' = tree /\ status' = status /\ mem' = mem /\ stack' = stack /\ ret' = ret
      /\ got' = got /\ tries' = tries
  BY DEF varsR, vars
<1> SUFFICES ASSUME ret # "EXCEPTION" PROVE StartedInv' /\ HistInv'
  BY <1>1 DEF RInv
<1>2. StartedInv /\ HistInv /\ tree \in DOMAIN Forest
  BY DEF RInv, IInv, TypeOK
<1>3. PICK y \in Nodes : X = y /\ X' = y
  BY <1>1, <1>2, SameX
<1>4. \A x : (Inside(x)' <=> Inside(x)) /\ Mem(x)' = Mem(x) /\ Place(x)' = Place(x)
  <2>1. \A x : Inside(x)' <=> Inside(x)
    BY <1>1 DEF Inside
  <2> QED
    BY <1>1, <2>1 DEF Place, Mem
<1>5. StartedInv'
  <2>1. \A x \in Nodes : DoneOK(x, Mem(x), DoneIdx(x), Inside(x) /\ ret \in Completed)'
    <3> TAKE x \in Nodes
    <3>1. DoneIdx(x)' = DoneIdx(x)
      BY <1>1, SameTree DEF DoneIdx, Completed
    <3>2. DoneOK(x, Mem(x)', DoneIdx(x)', Inside(x)' /\ ret' \in Completed)
      BY <1>1, <1>2, <1>4, <3>1 DEF StartedInv, DoneOK
    <3> QED
      BY <1>1, <3>2, SameHist DEF DoneOK
  <2>2. Nodes' = Nodes /\ Root' = Root
    BY <1>1, SameTree
  <2>3. (status[Root] \in Completed => stack = <<>> /\ ret \in Completed)'
    BY <1>1, <1>2, <2>2 DEF StartedInv, Completed
  <2> QED
    BY <2>1, <2>2, <2>3 DEF StartedInv
<1>6. HistInv'
  <2>1. Asked => HistOK(y, status'[y], Mem(y)', Place(y)', ret', got', tries')
    BY <1>1, <1>2, <1>3, <1>4 DEF HistInv
  <2> QED
    BY <1>1, <1>2, <1>3, <2>1, SameX
<1> QED
  BY <1>5, <1>6

\* What the history tells is inductive, for every forest and every node of its trees.
THEOREM HistoryInductive ==
  SpecR => [](IInv /\ RInv)
<1>1. InitR => IInv /\ RInv
  BY BeginsTold
<1>2. IInv /\ RInv /\ [NextR]_varsR => IInv' /\ RInv'
  <2> SUFFICES ASSUME IInv, RInv, [NextR]_varsR PROVE IInv' /\ RInv'
    OBVIOUS
  <2>1. [Next]_vars
    BY DEF NextR, varsR
  <2>2. IInv'
    BY <2>1, NextKeeps
  <2> QED
    BY <2>2, StepKeeps, NothingTold
<1> QED
  BY <1>1, <1>2, PTL DEF SpecR

\* A node is ticked to be started or to go on, never with the result of an earlier tick
\* in its status, whatever the forest: only the statement of a WhileDoElse, or of an
\* IfThenElse without "else", may be (if_then_else_node.cpp and while_do_else_node.cpp
\* reset no child when the condition has completed).
THEOREM StartedOrGoesOnAlways ==
  SpecR => []StartedOrGoesOn
<1>1. IInv /\ RInv => StartedOrGoesOn
  <2> SUFFICES ASSUME IInv, RInv PROVE StartedOrGoesOn
    OBVIOUS
  <2>1. CASE ret = "EXCEPTION"
    BY <2>1 DEF StartedOrGoesOn, None
  <2>2. CASE ret # "EXCEPTION"
    BY <2>2, Started DEF RInv
  <2> QED
    BY <2>1, <2>2
<1> QED
  BY <1>1, HistoryInductive, PTL

\* Every control node and every decorator returns SUCCESS or FAILURE only when its header
\* says so of the results its children have returned to it, whatever the forest and
\* whichever node of it is looked at.
THEOREM ResultPromisedAlways ==
  SpecR => ResultPromised
<1> DEFINE Kept == \A s \in Completed :
                     /\ Kind(X) \in Controls \cup Decorators /\ ~Statement(X)
                     /\ Inside(X) /\ Exits(s) /\ ~Preempt(X)
                     => Promised(s)
<1>1. IInv /\ RInv /\ [NextR]_varsR => [Kept]_varsR
  <2> SUFFICES ASSUME IInv, RInv, NextR PROVE Kept
    OBVIOUS
  <2> QED
    BY StepKeeps DEF Keeps
<1>2. SpecR => [](IInv /\ RInv) /\ [][NextR]_varsR
  BY HistoryInductive DEF SpecR
<1> QED
  BY <1>1, <1>2, PTL DEF ResultPromised
=============================================================================
