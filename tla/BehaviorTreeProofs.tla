-------------------------- MODULE BehaviorTreeProofs --------------------------
(***************************************************************************)
(* What holds of the engine for every forest of well-formed trees, however *)
(* large: its types, NoOrphan, FreshStart and EarlyNeedsOldHandler.        *)
(*                                                                         *)
(* One inductive invariant, IInv, has all four.  It says that the stack is *)
(* a path in the tree, and of each node, by its type, which of its         *)
(* children may have a leaf that runs, which may have completed, and what  *)
(* its members hold then, inside tick() and outside; and of each timer     *)
(* when a handler of an earlier one may still be to run.  A step changes   *)
(* the node that is ticked, what it halts, and the path: the lemmas        *)
(* CallStep and Over say what is left to show of the node itself.          *)
(***************************************************************************)
EXTENDS BehaviorTree, FiniteSetTheorems, WellFoundedInduction, TLAPS

-----------------------------------------------------------------------------
(* The inductive invariant                                                 *)

Returning == {"SUCCESS", "FAILURE", "SKIPPED"}

\* A leaf runs in n or below it.
Live(n) == \E l \in Below(n) : Children(l) = <<>> /\ status[l] = "RUNNING"

Index(n, H) == {i \in DOMAIN Children(n) : Child(n, i) \in H}
LiveIdx(n)  == {i \in DOMAIN Children(n) : Live(Child(n, i))}
DoneIdx(n)  == {i \in DOMAIN Children(n) : status[Child(n, i)] \in Completed}

\* The child that a node with the members m has called last.
CurIdx(n, m) ==
  IF Kind(n) = "TryCatch" /\ m.on THEN N(n) ELSE IF Kind(n) \in Controls THEN m.idx ELSE 1
Mem(n) == IF n \in DOMAIN mem THEN mem[n] ELSE Blank
Cur(n) == Child(n, CurIdx(n, Mem(n)))

\* The stack is the path from the root to the node that is ticked, by way of the
\* children called last.
Path ==
  /\ stack # <<>> => /\ stack[1] = Root
                     /\ \A x \in Nodes : Last(stack) \in Below(x) => x \in ToSet(stack)
  /\ \A i \in 1 .. Len(stack) - 1 : stack[i + 1] = Cur(stack[i])
  /\ \A i, j \in 1 .. Len(stack) :
       i < j => stack[j] # stack[i] /\ stack[j] \in Below(Cur(stack[i]))

\* The node that has returned ret: nothing runs in it when it is over.
Returned ==
  LET r == IF stack = <<>> THEN Root ELSE Cur(Last(stack)) IN
  /\ ret \in Completed => status[r] = ret
  /\ ret \in Returning => ~Live(r)

\* What holds of a node with status s and members m, inside tick() if it is locked, with
\* leaves running below its children L, the children C completed, and back: a child has
\* just returned SUCCESS or FAILURE to it.
OrderedOK(n, s, m, locked, L, C) ==
  /\ L \subseteq {CurIdx(n, m)}
  /\ Kind(n) # "TryCatch" => ~m.on
  /\ locked => s = "RUNNING"
  /\ Kind(n) # "SequenceWithMemory" =>
       /\ C # {} => s = "RUNNING"
       /\ ~locked /\ s # "RUNNING" => m.idx = 1

ReactiveOK(n, s, m, locked, L, C) ==
  /\ locked => s = "RUNNING"
  /\ C # {} => s = "RUNNING"
  /\ ~locked => m = Blank /\ \A i, j \in L : i = j

ParallelOK(n, s, m, locked, L, C) ==
  /\ locked => /\ s = "RUNNING"
               /\ m.idx \notin m.done
               /\ m.skips <= m.idx - 1
               /\ (m.skips = m.idx - 1 => \A i \in L : i >= m.idx)
  /\ m.done # 1 .. N(n)
  /\ C # {} => s = "RUNNING"
  /\ ~locked /\ s # "RUNNING" => m = Blank

BranchOK(n, s, m, locked, L, C) ==
  /\ m = [Blank EXCEPT !.idx = m.idx]
  /\ locked => s = "RUNNING"
  /\ ~locked /\ s # "RUNNING" => m.idx = 1
  /\ IF Kind(n) = "IfThenElse" THEN L \subseteq {m.idx} ELSE (C # {} => s = "RUNNING")

SwitchOK(n, s, m, locked, L, C, back) ==
  /\ m.count \in 0 .. N(n)
  /\ L \subseteq {IF locked THEN m.idx ELSE m.count}
  /\ C # {} => back
  /\ ~locked => m = [Blank EXCEPT !.count = m.count]
  /\ ~locked /\ s # "RUNNING" => m = Blank

LoopOK(n, s, m, locked, L) ==
  /\ locked => s = "RUNNING"
  /\ locked \/ L # {} => Goes(n, m.count)
  /\ ~locked /\ s # "RUNNING" => m = Blank

UpdatedOK(s, m, locked, L) ==
  /\ m = [Blank EXCEPT !.on = m.on]
  /\ ~locked /\ L # {} => m.on
  /\ ~locked /\ s # "RUNNING" => ~m.on

RunOnceOK(s, m, locked, L) ==
  /\ locked => s = "RUNNING"
  /\ locked \/ L # {} => ~m.on

ClockOK(n, s, m, locked, L) ==
  /\ locked => s = "RUNNING" /\ m.on /\ (m.hit <=> Kind(n) = "Delay")
  /\ ~locked /\ s # "RUNNING" => ~m.on
  /\ Kind(n) = "Timeout" /\ m.hit => L = {}

SleepOK(s, m) ==
  /\ m = [Blank EXCEPT !.on = m.on]
  /\ s # "RUNNING" => ~m.on

NodeOK(n, s, m, locked, L, C, back) ==
  /\ ~locked /\ s # "RUNNING" => L = {}
  /\ locked => CurIdx(n, m) \in DOMAIN Children(n)
  /\ Kind(n) \in Ordered                       => OrderedOK(n, s, m, locked, L, C)
  /\ Kind(n) \in Reactives                     => ReactiveOK(n, s, m, locked, L, C)
  /\ Kind(n) \in Parallels                     => ParallelOK(n, s, m, locked, L, C)
  /\ Kind(n) \in {"IfThenElse", "WhileDoElse"} => BranchOK(n, s, m, locked, L, C)
  /\ Kind(n) = "Switch"                        => SwitchOK(n, s, m, locked, L, C, back)
  /\ Kind(n) \in Decorators                    => (C # {} => back)
  /\ Kind(n) \in Plain \ {"SubTree"}           => (locked => s = "RUNNING")
  /\ Kind(n) \in Loops                         => LoopOK(n, s, m, locked, L)
  /\ Kind(n) = "Precondition"                  => (locked \/ L # {} => m.on)
  /\ Kind(n) = "Updated"                       => UpdatedOK(s, m, locked, L)
  /\ Kind(n) = "RunOnce"                       => RunOnceOK(s, m, locked, L)
  /\ Kind(n) = "Loop"                          => (~locked /\ L # {} => m.on)
  /\ Kind(n) \in Clocked                       => ClockOK(n, s, m, locked, L)
  /\ Kind(n) = "Sleep"                         => SleepOK(s, m)

NodeInv(n) ==
  NodeOK(n, status[n], Mem(n), Locked(n), LiveIdx(n), DoneIdx(n), Inside(n) /\ ret \in Completed)

\* The timer of n in the state t, with the handlers o still to run, when n has the
\* status s and the members m; late: n is in over.
TimerOK(n, s, m, t, o, late) ==
  /\ t # "off" /\ ~late => o = {}
  /\ s # "RUNNING" /\ ~late => t = "off"
  /\ Kind(n) \in Clocked => t # "signalled" /\ (t # "off" /\ ~late => ~m.hit)
  /\ Kind(n) = "Sleep" => (s = "RUNNING" /\ t # "off" /\ ~late => m.on)

TimerInv(n) == TimerOK(n, status[n], mem[n], timer[n], stale[n], n \in over)

TreeInv == Path /\ Returned /\ \A n \in Nodes : NodeInv(n)

IInv ==
  /\ TypeOK
  /\ ret = "EXCEPTION" => stack = <<>>
  /\ ret # "EXCEPTION" => TreeInv
  /\ \A n \in DOMAIN timer : TimerInv(n)

-----------------------------------------------------------------------------
(* Trees                                                                   *)

\* The children of a node are nodes, and what the code calls below it is what the
\* children have below them, and the node.
LEMMA TreeFacts ==
  ASSUME tree \in DOMAIN Forest
  PROVE  /\ Root \in Nodes
         /\ \A n \in Nodes :
              /\ Children(n) \in Seq(Nodes) /\ ChildSet(n) \subseteq Nodes
              /\ Below(n) \subseteq Nodes /\ n \in Below(n)
              /\ n \in Below(Root)
              /\ \A i \in DOMAIN Children(n) :
                   Child(n, i) \in ChildSet(n) /\ Child(n, i) \in Nodes
<1> DEFINE T == Forest[tree]
           kids(n) == IF n \in DOMAIN T.children THEN T.children[n] ELSE <<>>
<1>1. IsTree(T)
  BY ForestAssumption
<1>2. Nodes = DOMAIN T.kind /\ Root = T.root
  BY DEF Nodes, Root
<1>3. \A n : Below(n) = T.below[n]
  BY DEF Below, Port
<1>4. \A n : Children(n) = kids(n)
  BY DEF Children, Has, Port
<1>5. ASSUME NEW n \in Nodes
      PROVE  Children(n) \in Seq(Nodes) /\ Below(n) \subseteq Nodes /\ n \in Below(n)
             /\ n \in Below(Root)
  <2>1. /\ T.below \in [DOMAIN T.kind -> SUBSET DOMAIN T.kind]
        /\ T.below[T.root] = DOMAIN T.kind
    BY <1>1 DEF IsTree
  <2>2. /\ kids(n) \in Seq(DOMAIN T.kind)
        /\ T.below[n] = {n} \cup UNION {T.below[kids(n)[i]] : i \in DOMAIN kids(n)}
    BY <1>1, <1>2, Zenon DEF IsTree
  <2>3. n \in T.below[n]
    BY <2>2
  <2> QED
    BY <2>1, <2>2, <2>3, <1>2, <1>3, <1>4
<1>6. ASSUME NEW n \in Nodes
      PROVE  /\ ChildSet(n) \subseteq Nodes
             /\ \A i \in DOMAIN Children(n) :
                   Child(n, i) \in ChildSet(n) /\ Child(n, i) \in Nodes
  BY <1>5 DEF ChildSet, ToSet, Child
<1>7. Root \in Nodes
  BY <1>1, <1>2 DEF IsTree
<1> QED
  BY <1>5, <1>6, <1>7

\* Below is an order, in which the nodes above a node are a chain.
LEMMA BelowFacts ==
  ASSUME tree \in DOMAIN Forest
  PROVE  /\ \A x, y, z \in Nodes : x \in Below(y) /\ y \in Below(z) => x \in Below(z)
         /\ \A x, y \in Nodes : x \in Below(y) /\ y \in Below(x) => x = y
         /\ \A n \in Nodes : \A c \in ChildSet(n) :
              /\ c \in Below(n) /\ n \notin Below(c)
              /\ \A y \in Nodes : c \in Below(y) => y = c \/ n \in Below(y)
              /\ \A y \in Nodes : y \in Below(c) => y \in Below(n) /\ y # n
         /\ \A n \in Nodes : \A x \in Below(n) :
              x # n => /\ \E i \in DOMAIN Children(n) : x \in Below(Child(n, i))
                       /\ \E p \in Below(n) : x \in ChildSet(p)
         /\ \A n \in Nodes : \A i, j \in DOMAIN Children(n) : \A x \in Nodes :
              x \in Below(Child(n, i)) /\ x \in Below(Child(n, j)) => i = j
<1> DEFINE T == Forest[tree]
           kids(n) == IF n \in DOMAIN T.children THEN T.children[n] ELSE <<>>
<1>1. IsTree(T)
  BY ForestAssumption
<1>2. Nodes = DOMAIN T.kind /\ Root = T.root
  BY DEF Nodes, Root
<1>3. \A n : Below(n) = T.below[n]
  BY DEF Below, Port
<1>4. \A n : Children(n) = kids(n)
  BY DEF Children, Has, Port
<1>5. \A n, i : Child(n, i) = Children(n)[i]
  BY DEF Child
<1>6. \A n : ChildSet(n) = {Children(n)[i] : i \in DOMAIN Children(n)}
  BY DEF ChildSet, ToSet
<1>7. \A y \in Nodes : \A x \in Below(y) :
        /\ Below(x) \subseteq Below(y)
        /\ x # y => \E p \in Below(y) : \E i \in DOMAIN Children(p) : x = Children(p)[i]
  <2>1. \A y \in DOMAIN T.kind : \A x \in T.below[y] :
          /\ T.below[x] \subseteq T.below[y]
          /\ x # y => \E p \in T.below[y] : \E i \in DOMAIN kids(p) : x = kids(p)[i]
    BY <1>1, Zenon DEF IsTree
  <2> HIDE DEF T, kids
  <2> QED
    BY <2>1, <1>2, <1>3, <1>4
<1>8. ASSUME NEW n \in Nodes
      PROVE  /\ Below(n) = {n} \cup UNION {Below(Children(n)[i]) : i \in DOMAIN Children(n)}
             /\ \A i, j \in DOMAIN Children(n) :
                  i # j => Below(Children(n)[i]) \cap Below(Children(n)[j]) = {}
             /\ \A i \in DOMAIN Children(n) :
                  /\ n \notin Below(Children(n)[i])
                  /\ \A y \in Nodes : Children(n)[i] \in Below(y) =>
                                       y = Children(n)[i] \/ n \in Below(y)
  <2>1. /\ T.below[n] = {n} \cup UNION {T.below[kids(n)[i]] : i \in DOMAIN kids(n)}
        /\ \A i, j \in DOMAIN kids(n) :
             i # j => T.below[kids(n)[i]] \cap T.below[kids(n)[j]] = {}
        /\ \A i \in DOMAIN kids(n) :
             /\ n \notin T.below[kids(n)[i]]
             /\ \A y \in DOMAIN T.kind : kids(n)[i] \in T.below[y] =>
                                          y = kids(n)[i] \/ n \in T.below[y]
    BY <1>1, <1>2, Zenon DEF IsTree
  <2>2. kids(n) = Children(n)
    BY <1>4
  <2> HIDE DEF T, kids
  <2> QED
    BY <2>1, <2>2, <1>2, <1>3
<1> HIDE DEF T, kids
<1>9. \A x, y, z \in Nodes : x \in Below(y) /\ y \in Below(z) => x \in Below(z)
  BY <1>7
<1>10. ASSUME NEW x \in Nodes, NEW y \in Nodes, x \in Below(y), y \in Below(x), x # y
       PROVE  FALSE
  <2>1. PICK i \in DOMAIN Children(y) : x \in Below(Children(y)[i])
    BY <1>8, <1>10
  <2>2. Children(y)[i] \in Nodes
    BY TreeFacts, <1>5
  <2>3. y \in Below(Children(y)[i])
    BY <1>9, <1>10, <2>1, <2>2
  <2> QED
    BY <2>3, <1>8
<1>11. ASSUME NEW n \in Nodes, NEW c \in ChildSet(n)
       PROVE  /\ c \in Below(n) /\ n \notin Below(c) /\ c \in Nodes
              /\ \A y \in Nodes : c \in Below(y) => y = c \/ n \in Below(y)
              /\ \A y \in Nodes : y \in Below(c) => y \in Below(n) /\ y # n
  <2>1. PICK i \in DOMAIN Children(n) : c = Children(n)[i]
    BY <1>6
  <2>2. c \in Nodes
    BY TreeFacts
  <2>3. c \in Below(c)
    BY <2>2, TreeFacts
  <2>4. c \in Below(n)
    BY <2>1, <2>3, <1>8
  <2>5. n \notin Below(c)
    BY <2>1, <1>8
  <2> QED
    BY <2>1, <2>2, <2>4, <2>5, <1>8, <1>9
<1>12. ASSUME NEW n \in Nodes, NEW x \in Below(n), x # n
       PROVE  /\ \E i \in DOMAIN Children(n) : x \in Below(Child(n, i))
              /\ \E p \in Below(n) : x \in ChildSet(p)
  <2>1. \E i \in DOMAIN Children(n) : x \in Below(Child(n, i))
    BY <1>5, <1>8, <1>12
  <2>2. \E p \in Below(n) : x \in ChildSet(p)
    BY <1>6, <1>7, <1>12
  <2> QED
    BY <2>1, <2>2
<1>13. \A n \in Nodes : \A i, j \in DOMAIN Children(n) : \A x \in Nodes :
         x \in Below(Child(n, i)) /\ x \in Below(Child(n, j)) => i = j
  BY <1>5, <1>8
<1> QED
  BY <1>9, <1>10, <1>11, <1>12, <1>13

-----------------------------------------------------------------------------
(* What depends on the tree alone                                          *)

\* The tree does not change.
LEMMA SameTree ==
  ASSUME tree' = tree
  PROVE  /\ Nodes' = Nodes /\ Root' = Root
         /\ \A n : /\ Kind(n)' = Kind(n) /\ Children(n)' = Children(n)
                   /\ ChildSet(n)' = ChildSet(n) /\ Below(n)' = Below(n)
                   /\ N(n)' = N(n) /\ MemType(n)' = MemType(n)
         /\ \A n, i : Child(n, i)' = Child(n, i)
         /\ \A n, m : CurIdx(n, m)' = CurIdx(n, m)
         /\ \A n, H : Index(n, H)' = Index(n, H)
         /\ \A n, i : Goes(n, i)' = Goes(n, i)
<1>1. Nodes' = Nodes /\ Root' = Root
  BY DEF Nodes, Root
<1>2. \A n : Kind(n)' = Kind(n) /\ Children(n)' = Children(n) /\ Below(n)' = Below(n)
  BY DEF Kind, Children, Has, Port, Below
<1>3. \A n : ChildSet(n)' = ChildSet(n) /\ N(n)' = N(n)
  BY <1>2 DEF ChildSet, N
<1>4. \A n, i : Child(n, i)' = Child(n, i) /\ Goes(n, i)' = Goes(n, i)
  BY <1>2 DEF Child, Goes, Port
<1>5. \A n : MemType(n)' = MemType(n)
  BY <1>2 DEF MemType
<1>6. \A n, m : CurIdx(n, m)' = CurIdx(n, m)
  BY <1>2, <1>3 DEF CurIdx
<1>7. \A n, H : Index(n, H)' = Index(n, H)
  BY <1>2, <1>4 DEF Index
<1> QED
  BY <1>1, <1>2, <1>3, <1>4, <1>5, <1>6, <1>7

\* What is asked of a node depends on the tree alone, if on what it is asked is given.
LEMMA SameNodeOK ==
  ASSUME tree' = tree
  PROVE  /\ \A n, s, m, locked, L, C, back :
              NodeOK(n, s, m, locked, L, C, back)' = NodeOK(n, s, m, locked, L, C, back)
         /\ \A n, s, m, t, o, late :
              TimerOK(n, s, m, t, o, late)' = TimerOK(n, s, m, t, o, late)
<1>1. \A n, m : Kind(n)' = Kind(n) /\ N(n)' = N(n) /\ CurIdx(n, m)' = CurIdx(n, m)
                /\ Children(n)' = Children(n)
  BY SameTree
<1>2. \A n, i : Goes(n, i)' = Goes(n, i)
  BY SameTree
<1>3. \A n, s, m, t, o, late :
        TimerOK(n, s, m, t, o, late)' = TimerOK(n, s, m, t, o, late)
  BY <1>1 DEF TimerOK
<1>4. ASSUME NEW n, NEW s, NEW m, NEW locked, NEW L, NEW C, NEW back
      PROVE  NodeOK(n, s, m, locked, L, C, back)' = NodeOK(n, s, m, locked, L, C, back)
  <2>1. /\ OrderedOK(n, s, m, locked, L, C)' = OrderedOK(n, s, m, locked, L, C)
        /\ ReactiveOK(n, s, m, locked, L, C)' = ReactiveOK(n, s, m, locked, L, C)
        /\ ParallelOK(n, s, m, locked, L, C)' = ParallelOK(n, s, m, locked, L, C)
    BY <1>1 DEF OrderedOK, ReactiveOK, ParallelOK
  <2>2. /\ BranchOK(n, s, m, locked, L, C)' = BranchOK(n, s, m, locked, L, C)
        /\ SwitchOK(n, s, m, locked, L, C, back)' = SwitchOK(n, s, m, locked, L, C, back)
    BY <1>1 DEF BranchOK, SwitchOK
  <2>3. LoopOK(n, s, m, locked, L)' = LoopOK(n, s, m, locked, L)
    BY <1>1, <1>2 DEF LoopOK
  <2>4. ClockOK(n, s, m, locked, L)' = ClockOK(n, s, m, locked, L)
    BY <1>1 DEF ClockOK
  <2> QED
    BY <1>1, <2>1, <2>2, <2>3, <2>4 DEF NodeOK
<1> QED
  BY <1>3, <1>4

\* The children of each kind of node.
LEMMA ArityFacts ==
  ASSUME tree \in DOMAIN Forest, NEW n \in Nodes
  PROVE  /\ N(n) \in Nat /\ DOMAIN Children(n) = 1 .. N(n)
         /\ Kind(n) \in Controls => N(n) >= 1
         /\ Kind(n) = "TryCatch" => N(n) >= 2
         /\ Kind(n) \in {"IfThenElse", "WhileDoElse"} => N(n) \in 2 .. 3
         /\ Kind(n) \in Decorators => N(n) = 1
         /\ Kind(n) \notin Controls \cup Decorators => Children(n) = <<>>
         /\ Kind(n) \in Loops => Port("param", n) \in Nat \cup {-1}
         /\ Kind(n) = "Loop" => Port("param", n) \in Nat
         /\ Kind(n) = "Parallel" => Port("param", n).success \in Int
         /\ Kind(n) \in Parallels => Port("param", n).failure \in Int
         /\ Kind(n) \in {"Precondition", "Updated", "Loop"} => Port("else", n) \in Results
<1> DEFINE T == Forest[tree]
<1>1. WellFormed(T) /\ n \in DOMAIN T.kind
  BY PortsAssumption DEF Nodes
<1>2. Children(n) \in Seq(Nodes)
  BY TreeFacts
<1>3. N(n) \in Nat /\ DOMAIN Children(n) = 1 .. N(n)
  BY <1>2 DEF N
<1>4. N(n) = IF n \in DOMAIN T.children THEN Len(T.children[n]) ELSE 0
  BY DEF N, Children, Has, Port
<1>5. Kind(n) = T.kind[n] /\ \A p : Port(p, n) = T[p][n]
  BY DEF Kind, Port
<1>6. /\ Kind(n) \in Controls => N(n) >= 1
      /\ Kind(n) = "TryCatch" => N(n) >= 2
      /\ Kind(n) \in {"IfThenElse", "WhileDoElse"} => N(n) \in 2 .. 3
      /\ Kind(n) \in Decorators => N(n) = 1
      /\ Kind(n) \notin Controls \cup Decorators => N(n) = 0
      /\ Kind(n) \in Loops => Port("param", n) \in Nat \cup {-1}
      /\ Kind(n) = "Loop" => Port("param", n) \in Nat
      /\ Kind(n) = "Parallel" => Port("param", n).success \in Int
      /\ Kind(n) \in Parallels => Port("param", n).failure \in Int
      /\ Kind(n) \in {"Precondition", "Updated", "Loop"} => Port("else", n) \in Results
  <2> HIDE DEF T
  <2> QED
    BY <1>1, <1>4, <1>5, Zenon DEF WellFormed
<1>7. N(n) = 0 => Children(n) = <<>>
  BY <1>2 DEF N
<1> QED
  BY <1>3, <1>6, <1>7

-----------------------------------------------------------------------------
(* What holds of one node                                                  *)

\* Fewer leaves run below it, fewer children have completed, and it is still running
\* or still is not.
LEMMA NodeOKMono ==
  ASSUME NEW n, NEW s, NEW s2, NEW m, NEW locked \in BOOLEAN, NEW back \in BOOLEAN,
         NEW L, NEW L2, NEW C, NEW C2,
         NodeOK(n, s, m, locked, L, C, back),
         s = "RUNNING" <=> s2 = "RUNNING", L2 \subseteq L, C2 \subseteq C
  PROVE  NodeOK(n, s2, m, locked, L2, C2, back)
<1>1. /\ OrderedOK(n, s, m, locked, L, C) => OrderedOK(n, s2, m, locked, L2, C2)
      /\ ReactiveOK(n, s, m, locked, L, C) => ReactiveOK(n, s2, m, locked, L2, C2)
  BY DEF OrderedOK, ReactiveOK
<1>2. ParallelOK(n, s, m, locked, L, C) => ParallelOK(n, s2, m, locked, L2, C2)
  BY DEF ParallelOK
<1>3. /\ BranchOK(n, s, m, locked, L, C) => BranchOK(n, s2, m, locked, L2, C2)
      /\ SwitchOK(n, s, m, locked, L, C, back) => SwitchOK(n, s2, m, locked, L2, C2, back)
  BY DEF BranchOK, SwitchOK
<1>4. /\ LoopOK(n, s, m, locked, L) => LoopOK(n, s2, m, locked, L2)
      /\ UpdatedOK(s, m, locked, L) => UpdatedOK(s2, m, locked, L2)
      /\ RunOnceOK(s, m, locked, L) => RunOnceOK(s2, m, locked, L2)
      /\ ClockOK(n, s, m, locked, L) => ClockOK(n, s2, m, locked, L2)
      /\ SleepOK(s, m) => SleepOK(s2, m)
  BY DEF LoopOK, UpdatedOK, RunOnceOK, ClockOK, SleepOK
<1> QED
  BY <1>1, <1>2, <1>3, <1>4 DEF NodeOK

\* A leaf may start to run below the child called last, which may complete.
LEMMA NodeOKGrow ==
  ASSUME NEW n, NEW s, NEW m, NEW L, NEW C, NEW C2, NEW back \in BOOLEAN,
         NodeOK(n, s, m, TRUE, L, C, FALSE), back \/ C2 \subseteq C,
         n \in Nodes, tree \in DOMAIN Forest, m \in MemType(n)
  PROVE  NodeOK(n, s, m, TRUE, L \cup {CurIdx(n, m)}, C2, back)
<1> DEFINE L2 == L \cup {CurIdx(n, m)}
<1>0. m.idx \in Nat
  BY ArityFacts DEF MemType
<1>1. /\ OrderedOK(n, s, m, TRUE, L, C) => OrderedOK(n, s, m, TRUE, L2, C2)
      /\ ReactiveOK(n, s, m, TRUE, L, C) => ReactiveOK(n, s, m, TRUE, L2, C2)
  BY DEF OrderedOK, ReactiveOK
<1>2. Kind(n) \in Parallels /\ ParallelOK(n, s, m, TRUE, L, C)
        => ParallelOK(n, s, m, TRUE, L2, C2)
  <2> HAVE Kind(n) \in Parallels /\ ParallelOK(n, s, m, TRUE, L, C)
  <2>1. CurIdx(n, m) = m.idx
    BY DEF CurIdx, Parallels, Controls
  <2> QED
    BY <2>1, <1>0 DEF ParallelOK
<1>3. Kind(n) \in {"IfThenElse", "WhileDoElse"} /\ BranchOK(n, s, m, TRUE, L, C)
        => BranchOK(n, s, m, TRUE, L2, C2)
  <2> HAVE Kind(n) \in {"IfThenElse", "WhileDoElse"} /\ BranchOK(n, s, m, TRUE, L, C)
  <2>1. CurIdx(n, m) = m.idx
    BY DEF CurIdx, Branches, Controls
  <2> QED
    BY <2>1 DEF BranchOK
<1>4. Kind(n) = "Switch" /\ SwitchOK(n, s, m, TRUE, L, C, FALSE)
        => SwitchOK(n, s, m, TRUE, L2, C2, back)
  <2> HAVE Kind(n) = "Switch" /\ SwitchOK(n, s, m, TRUE, L, C, FALSE)
  <2>1. CurIdx(n, m) = m.idx
    BY DEF CurIdx, Branches, Controls
  <2> QED
    BY <2>1 DEF SwitchOK
<1>5. /\ LoopOK(n, s, m, TRUE, L) => LoopOK(n, s, m, TRUE, L2)
      /\ UpdatedOK(s, m, TRUE, L) => UpdatedOK(s, m, TRUE, L2)
      /\ RunOnceOK(s, m, TRUE, L) => RunOnceOK(s, m, TRUE, L2)
      /\ ClockOK(n, s, m, TRUE, L) => ClockOK(n, s, m, TRUE, L2)
  BY DEF LoopOK, UpdatedOK, RunOnceOK, ClockOK
<1>6. /\ CurIdx(n, m) \in DOMAIN Children(n)
      /\ Kind(n) \in Decorators => (C2 # {} => back)
      /\ Kind(n) \in Plain \ {"SubTree"} => s = "RUNNING"
      /\ Kind(n) = "Precondition" => m.on
      /\ Kind(n) = "Sleep" => SleepOK(s, m)
  BY DEF NodeOK
<1> HIDE DEF L2
<1>7. NodeOK(n, s, m, TRUE, L2, C2, back)
  BY <1>1, <1>2, <1>3, <1>4, <1>5, <1>6 DEF NodeOK
<1> QED
  BY <1>7 DEF L2

\* A node that was running and is not inside tick() is halted, and its children with it.
LEMMA NodeOKHalted ==
  ASSUME NEW n, NEW m, NEW L, NEW C,
         NodeOK(n, "RUNNING", m, FALSE, L, C, FALSE), n \in Nodes, tree \in DOMAIN Forest
  PROVE  NodeOK(n, "IDLE",
                IF Kind(n) \in {"SequenceWithMemory", "RunOnce", "Precondition", "Loop"}
                THEN m ELSE Blank, FALSE, {}, {}, FALSE)
<1> DEFINE m2 == IF Kind(n) \in {"SequenceWithMemory", "RunOnce", "Precondition", "Loop"}
                 THEN m ELSE Blank
<1>0. Kind(n) \in Ordered => OrderedOK(n, "RUNNING", m, FALSE, L, C)
  BY DEF NodeOK
<1>1. /\ Kind(n) \in Ordered => OrderedOK(n, "IDLE", m2, FALSE, {}, {})
      /\ Kind(n) \in Reactives => ReactiveOK(n, "IDLE", m2, FALSE, {}, {})
  BY <1>0 DEF OrderedOK, ReactiveOK, Ordered, Sequences_, Fallbacks, Reactives, Blank
<1>2. Kind(n) \in Parallels => ParallelOK(n, "IDLE", m2, FALSE, {}, {})
  <2> HAVE Kind(n) \in Parallels
  <2>1. N(n) \in Nat /\ N(n) >= 1
    BY ArityFacts DEF Controls
  <2>2. 1 \in 1 .. N(n)
    BY <2>1
  <2> QED
    BY <2>2 DEF ParallelOK, Parallels, Blank
<1>3. Kind(n) \in {"IfThenElse", "WhileDoElse"} => BranchOK(n, "IDLE", m2, FALSE, {}, {})
  BY DEF BranchOK, Blank
<1>4. Kind(n) = "Switch" => SwitchOK(n, "IDLE", m2, FALSE, {}, {}, FALSE)
  <2> HAVE Kind(n) = "Switch"
  <2>1. N(n) \in Nat
    BY ArityFacts
  <2> QED
    BY <2>1 DEF SwitchOK, Blank
<1>5. /\ Kind(n) \in Loops => LoopOK(n, "IDLE", m2, FALSE, {})
      /\ Kind(n) = "Updated" => UpdatedOK("IDLE", m2, FALSE, {})
      /\ Kind(n) = "RunOnce" => RunOnceOK("IDLE", m2, FALSE, {})
      /\ Kind(n) \in Clocked => ClockOK(n, "IDLE", m2, FALSE, {})
      /\ Kind(n) = "Sleep" => SleepOK("IDLE", m2)
  BY DEF LoopOK, UpdatedOK, RunOnceOK, ClockOK, SleepOK, Blank, Loops, Clocked
<1> HIDE DEF m2
<1>6. NodeOK(n, "IDLE", m2, FALSE, {}, {}, FALSE)
  BY <1>1, <1>2, <1>3, <1>4, <1>5 DEF NodeOK
<1> QED
  BY <1>6 DEF m2

-----------------------------------------------------------------------------
(* The stack                                                               *)

\* The nodes on the stack are those above the one that is ticked; all but that one wait
\* for a child, and it does so when a child has returned.
LEMMA OnPath ==
  ASSUME TypeOK, TreeInv, NEW n, Inside(n)
  PROVE  /\ n \in Nodes
         /\ \A x \in Nodes : x \in ToSet(stack) <=> n \in Below(x)
         /\ \A x \in Nodes : Locked(x) <=> n \in Below(x) /\ (x = n => ret # None)
         /\ \A x \in Nodes : Locked(x) => /\ CurIdx(x, Mem(x)) \in DOMAIN Children(x)
                                          /\ x # n => n \in Below(Cur(x))
<1>1. stack \in Seq(Nodes) /\ stack # <<>> /\ tree \in DOMAIN Forest
  BY DEF TypeOK, Inside
<1>2. Len(stack) \in Nat /\ Len(stack) >= 1 /\ n = stack[Len(stack)] /\ n \in Nodes
  BY <1>1 DEF Inside, Last
<1>3. \A x : x \in ToSet(stack) <=> \E i \in 1 .. Len(stack) : x = stack[i]
  BY <1>1 DEF ToSet
<1>4. \A x : Locked(x) <=> x \in ToSet(stack) /\ (x = n => ret # None)
  <2>1. \A x : Entered(x, {Kind(x)}) <=> x = n /\ ret = None
    BY DEF Entered, Inside
  <2> QED
    BY <2>1 DEF Locked
<1>5. n \in ToSet(stack)
  BY <1>2, <1>3
<1>6. \A x \in Nodes : n \in Below(x) => x \in ToSet(stack)
  BY DEF TreeInv, Path, Inside
<1>7. ASSUME NEW x \in Nodes, Locked(x)
      PROVE  /\ CurIdx(x, Mem(x)) \in DOMAIN Children(x)
             /\ x # n => n \in Below(Cur(x)) /\ n \in Below(x)
  <2>1. CurIdx(x, Mem(x)) \in DOMAIN Children(x)
    BY <1>7 DEF TreeInv, NodeInv, NodeOK
  <2>2. ASSUME x # n PROVE n \in Below(Cur(x)) /\ n \in Below(x)
    <3>1. PICK i \in 1 .. Len(stack) : x = stack[i]
      BY <1>3, <1>4, <1>7
    <3>2. i < Len(stack)
      BY <1>2, <2>2, <3>1
    <3>3. n \in Below(Cur(x))
      BY <1>2, <3>1, <3>2 DEF TreeInv, Path
    <3>4. Cur(x) \in ChildSet(x) /\ Cur(x) \in Nodes
      BY <2>1, <1>1, TreeFacts DEF Cur
    <3> QED
      BY <1>1, <1>2, <3>3, <3>4, BelowFacts
  <2> QED
    BY <2>1, <2>2
<1>8. n \in Below(n)
  BY <1>1, <1>2, TreeFacts
<1> QED
  BY <1>2, <1>4, <1>5, <1>6, <1>7, <1>8

\* A child of the node that is ticked is ticked.
LEMMA Push ==
  ASSUME TypeOK, TreeInv, NEW n, Inside(n), tree' = tree,
         NEW i \in DOMAIN Children(n), Calls(n, i), CurIdx(n, Mem(n)') = i,
         \A x \in Nodes : x # n /\ n \in Below(x) => Mem(x)' = Mem(x)
  PROVE  /\ stack' \in Seq(Nodes) /\ Path' /\ ret' = None
         /\ \A x \in Nodes : Locked(x)' <=> n \in Below(x)
<1> DEFINE c == Child(n, i)
<1>1. stack \in Seq(Nodes) /\ stack # <<>> /\ tree \in DOMAIN Forest /\ n \in Nodes
  BY OnPath DEF TypeOK, Inside
<1>2. c \in Nodes /\ c \in ChildSet(n)
  BY <1>1, TreeFacts
<1>3. stack' = Append(stack, c) /\ ret' = None
  BY DEF Calls, Child
<1> HIDE DEF c
<1>4. /\ stack' \in Seq(Nodes) /\ stack' # <<>> /\ Len(stack') = Len(stack) + 1
      /\ \A j \in 1 .. Len(stack) : stack'[j] = stack[j]
      /\ stack'[Len(stack')] = c /\ Len(stack) \in Nat /\ Len(stack) >= 1
      /\ n = stack[Len(stack)]
  BY <1>1, <1>2, <1>3 DEF Inside, Last
<1>5. \A x : x \in ToSet(stack') <=> x \in ToSet(stack) \/ x = c
  BY <1>1, <1>4 DEF ToSet
<1>6. \A x \in Nodes : x # n /\ n \in Below(x) => Cur(x)' = Cur(x)
  BY SameTree DEF Cur
<1>7. Cur(n)' = c
  BY SameTree DEF Cur, c
<1>8. \A x \in Nodes : x \in ToSet(stack) <=> n \in Below(x)
  BY OnPath
<1>9. /\ n \in Below(n) /\ c \in Below(c) /\ c \in Below(n) /\ n \notin Below(c) /\ c # n
      /\ \A x \in Nodes : c \in Below(x) => x = c \/ n \in Below(x)
  BY <1>1, <1>2, TreeFacts, BelowFacts
<1>10. \A j \in 1 .. Len(stack) : j # Len(stack) => stack[j] # n
  BY <1>4 DEF TreeInv, Path
<1>11. \A j \in 1 .. Len(stack) : j # Len(stack) => Cur(stack[j])' = Cur(stack[j])
  <2> TAKE j \in 1 .. Len(stack)
  <2> HAVE j # Len(stack)
  <2>1. stack[j] \in Nodes /\ stack[j] \in ToSet(stack)
    BY <1>1, <1>4 DEF ToSet
  <2> QED
    BY <1>4, <1>6, <1>8, <1>10, <2>1
<1>12. Path'
  <2>1. stack'[1] = Root'
    BY <1>4, SameTree DEF TreeInv, Path, Inside
  <2>2. \A x \in Nodes' : Last(stack') \in Below(x)' => x \in ToSet(stack')
    BY <1>4, <1>5, <1>8, <1>9, SameTree DEF Last
  <2>3. ASSUME NEW j \in 1 .. Len(stack') - 1 PROVE stack'[j + 1] = Cur(stack[j])'
    <3>1. CASE j = Len(stack)
      BY <1>4, <1>7, <3>1
    <3>2. CASE j # Len(stack)
      <4>1. j \in 1 .. Len(stack) - 1 /\ j + 1 \in 1 .. Len(stack) /\ j \in 1 .. Len(stack)
        BY <1>4, <3>2
      <4>2. stack'[j + 1] = stack[j + 1] /\ stack'[j] = stack[j]
        BY <1>4, <4>1
      <4>3. stack[j + 1] = Cur(stack[j])
        BY <4>1 DEF TreeInv, Path
      <4> QED
        BY <1>11, <4>1, <4>2, <4>3, <3>2
    <3> QED
      BY <3>1, <3>2
  <2>4. ASSUME NEW j \in 1 .. Len(stack'), NEW k \in 1 .. Len(stack'), j < k
        PROVE  stack'[k] # stack'[j] /\ stack'[k] \in Below(Cur(stack[j]))'
    <3>1. j \in 1 .. Len(stack) /\ stack'[j] = stack[j] /\ stack[j] \in Nodes
      BY <1>1, <1>4, <2>4
    <3>2. CASE k # Len(stack')
      <4>1. k \in 1 .. Len(stack) /\ stack'[k] = stack[k] /\ j # Len(stack)
        BY <1>4, <2>4, <3>1, <3>2
      <4>2. stack[k] # stack[j] /\ stack[k] \in Below(Cur(stack[j]))
        BY <2>4, <3>1, <4>1 DEF TreeInv, Path
      <4> QED
        BY <1>11, <3>1, <4>1, <4>2, SameTree
    <3>3. CASE k = Len(stack') /\ j = Len(stack)
      BY <1>4, <1>7, <1>9, <3>1, <3>3, SameTree
    <3>4. CASE k = Len(stack') /\ j # Len(stack)
      <4>1. n \in Below(Cur(stack[j])) /\ stack[j] # n
        BY <1>4, <3>1, <3>4 DEF TreeInv, Path
      <4>2. stack[j] \in ToSet(stack)
        BY <1>1, <3>1 DEF ToSet
      <4>3. Locked(stack[j]) /\ n \in Below(stack[j])
        BY <3>1, <4>1, <4>2, OnPath
      <4>4. Cur(stack[j]) \in Nodes
        BY <3>1, <4>3, <1>1, OnPath, TreeFacts DEF Cur
      <4>5. c \in Below(Cur(stack[j])) /\ c # stack[j]
        BY <1>1, <1>2, <1>9, <3>1, <4>1, <4>3, <4>4, BelowFacts
      <4> QED
        BY <1>4, <1>11, <3>1, <3>4, <4>5, SameTree
    <3> QED
      BY <3>2, <3>3, <3>4
  <2> QED
    BY <2>1, <2>2, <2>3, <2>4 DEF Path
<1>13. ASSUME NEW x \in Nodes PROVE Locked(x)' <=> n \in Below(x)
  <2>1. Inside(x)' <=> x = c
    BY <1>4 DEF Inside, Last
  <2>2. Entered(x, {Kind(x)})' <=> x = c
    BY <2>1, <1>3 DEF Entered
  <2>3. Locked(x)' <=> x \in ToSet(stack') /\ x # c
    BY <2>2 DEF Locked
  <2>4. c \notin ToSet(stack)
    BY <1>2, <1>8, <1>9
  <2> QED
    BY <2>3, <2>4, <1>5, <1>8
<1> QED
  BY <1>3, <1>4, <1>12, <1>13

\* tick() of the node that is ticked is over: its parent goes on, if it has one.
LEMMA Pop ==
  ASSUME TypeOK, TreeInv, NEW n, Inside(n), tree' = tree,
         stack' = Front(stack), ret' # None,
         \A x \in Nodes : x # n /\ n \in Below(x) => Mem(x)' = Mem(x)
  PROVE  /\ stack' \in Seq(Nodes) /\ Path'
         /\ \A x \in Nodes : Locked(x)' <=> n \in Below(x) /\ x # n
         /\ \A x \in Nodes : Inside(x)' <=> n \in ChildSet(x)
         /\ (IF stack = <<>> THEN Root ELSE Cur(Last(stack)))' = n
<1> DEFINE k == Len(stack) - 1
<1>1. stack \in Seq(Nodes) /\ stack # <<>> /\ tree \in DOMAIN Forest /\ n \in Nodes
  BY OnPath DEF TypeOK, Inside
<1>2. /\ stack' \in Seq(Nodes) /\ Len(stack') = k /\ k \in Nat /\ Len(stack) = k + 1
      /\ \A j \in 1 .. k : stack'[j] = stack[j] /\ stack[j] \in Nodes
      /\ n = stack[k + 1] /\ (stack' = <<>> <=> k = 0)
  <2>1. Len(stack) \in Nat /\ Len(stack) >= 1 /\ n = stack[Len(stack)]
        /\ stack \in [1 .. Len(stack) -> Nodes]
    BY <1>1 DEF Inside, Last
  <2>2. k \in Nat /\ Len(stack) = k + 1
    BY <2>1
  <2>3. stack' = SubSeq(stack, 1, k)
    BY DEF Front
  <2> HIDE DEF k
  <2>4. stack' = [j \in 1 .. k |-> stack[j]]
    BY <2>2, <2>3, <1>1
  <2>5. \A j \in 1 .. k : stack[j] \in Nodes
    BY <2>1, <2>2
  <2>6. stack' \in Seq(Nodes) /\ Len(stack') = k
    BY <2>2, <2>3, <2>4, <2>5, <1>1
  <2> QED
    BY <2>1, <2>2, <2>4, <2>5, <2>6
<1> HIDE DEF k
<1>3. \A j \in 1 .. k : stack[j] # n
  BY <1>2 DEF TreeInv, Path
<1>4. \A x \in Nodes : x # n /\ n \in Below(x) => Cur(x)' = Cur(x)
  BY SameTree DEF Cur
<1>5. \A x \in Nodes : x \in ToSet(stack') <=> x \in ToSet(stack) /\ x # n
  BY <1>1, <1>2, <1>3 DEF ToSet
<1>6. \A x \in Nodes : x \in ToSet(stack) <=> n \in Below(x)
  BY OnPath
<1>7. \A j \in 1 .. k : Cur(stack[j])' = Cur(stack[j])
  <2> TAKE j \in 1 .. k
  <2>1. stack[j] \in Nodes /\ stack[j] \in ToSet(stack)
    BY <1>1, <1>2 DEF ToSet
  <2> QED
    BY <1>2, <1>3, <1>4, <1>6, <2>1
<1>8. \A j \in 1 .. k : /\ Locked(stack[j]) /\ n \in Below(stack[j])
                        /\ Cur(stack[j]) \in ChildSet(stack[j])
  <2> TAKE j \in 1 .. k
  <2>1. stack[j] \in ToSet(stack) /\ stack[j] \in Nodes
    BY <1>1, <1>2 DEF ToSet
  <2>2. Locked(stack[j]) /\ n \in Below(stack[j])
    BY <2>1, <1>3, OnPath
  <2> QED
    BY <2>1, <2>2, <1>1, OnPath, TreeFacts DEF Cur
<1>9. k # 0 => /\ Cur(stack[k]) = n /\ stack'[k] = stack[k] /\ Last(stack') = stack[k]
               /\ stack[k] \in Nodes
  <2> HAVE k # 0
  <2>1. k \in 1 .. Len(stack) - 1 /\ k \in 1 .. k
    BY <1>2
  <2> QED
    BY <2>1, <1>2 DEF TreeInv, Path, Last
<1>10. k = 0 => n = Root
  BY <1>2 DEF TreeInv, Path
<1>11. Path'
  <2>1. ASSUME stack' # <<>>
        PROVE  /\ stack'[1] = Root'
               /\ \A x \in Nodes' : Last(stack') \in Below(x)' => x \in ToSet(stack')
    <3>1. k # 0 /\ 1 \in 1 .. k /\ k \in 1 .. k
      BY <1>2, <2>1
    <3>2. stack'[1] = Root'
      BY <1>2, <3>1, SameTree, <1>1 DEF TreeInv, Path
    <3>3. n \in ChildSet(stack[k])
      BY <1>8, <1>9, <3>1
    <3>4. ASSUME NEW x \in Nodes, stack[k] \in Below(x) PROVE x \in ToSet(stack')
      BY <1>1, <1>5, <1>6, <1>9, <3>1, <3>3, <3>4, BelowFacts
    <3> QED
      BY <1>9, <3>1, <3>2, <3>4, SameTree
  <2>2. ASSUME NEW j \in 1 .. Len(stack') - 1 PROVE stack'[j + 1] = Cur(stack[j])'
    <3>1. j \in 1 .. Len(stack) - 1 /\ j + 1 \in 1 .. k /\ j \in 1 .. k
      BY <1>2
    <3> QED
      BY <1>2, <1>7, <3>1 DEF TreeInv, Path
  <2>3. ASSUME NEW j \in 1 .. Len(stack'), NEW l \in 1 .. Len(stack'), j < l
        PROVE  stack'[l] # stack'[j] /\ stack'[l] \in Below(Cur(stack[j]))'
    <3>1. j \in 1 .. k /\ l \in 1 .. k /\ j \in 1 .. Len(stack) /\ l \in 1 .. Len(stack)
      BY <1>2
    <3>2. stack[l] # stack[j] /\ stack[l] \in Below(Cur(stack[j]))
      BY <2>3, <3>1 DEF TreeInv, Path
    <3> QED
      BY <1>2, <1>7, <3>1, <3>2, SameTree
  <2> QED
    BY <2>1, <2>2, <2>3 DEF Path
<1>12. ASSUME NEW x \in Nodes PROVE Locked(x)' <=> n \in Below(x) /\ x # n
  <2>1. ~Entered(x, {Kind(x)})'
    BY DEF Entered
  <2> QED
    BY <2>1, <1>5, <1>6 DEF Locked
<1>13. ASSUME NEW x \in Nodes PROVE Inside(x)' <=> n \in ChildSet(x)
  <2>1. ASSUME n \in ChildSet(x) PROVE Inside(x)'
    <3>1. k # 0
      BY <1>1, <1>10, <2>1, TreeFacts, BelowFacts
    <3>2. k \in 1 .. k
      BY <1>2, <3>1
    <3>3. n \in ChildSet(stack[k]) /\ stack[k] \in Nodes
      BY <1>8, <1>9, <3>1, <3>2
    <3>4. n \in Below(x) /\ n \in Below(stack[k]) /\ x # n /\ stack[k] # n
      BY <1>1, <2>1, <3>3, <1>3, <3>2, BelowFacts, TreeFacts
    <3>5. stack[k] \in Below(x) /\ x \in Below(stack[k])
      BY <1>1, <2>1, <3>3, <3>4, BelowFacts
    <3>6. x = stack[k]
      BY <1>1, <3>3, <3>5, BelowFacts
    <3> QED
      BY <1>2, <1>9, <3>1, <3>6 DEF Inside
  <2>2. ASSUME Inside(x)' PROVE n \in ChildSet(x)
    <3>1. k # 0 /\ k \in 1 .. k
      BY <1>2, <2>2 DEF Inside
    <3> QED
      BY <1>8, <1>9, <2>2, <3>1 DEF Inside
  <2> QED
    BY <2>1, <2>2
<1>14. (IF stack = <<>> THEN Root ELSE Cur(Last(stack)))' = n
  <2>1. CASE k = 0
    BY <1>2, <1>10, <2>1, SameTree
  <2>2. CASE k # 0
    <3>1. k \in 1 .. k
      BY <1>2, <2>2
    <3>2. Cur(Last(stack))' = n
      BY <1>7, <1>9, <2>2, <3>1
    <3> QED
      BY <1>2, <2>2, <3>2
  <2> QED
    BY <2>1, <2>2
<1> QED
  BY <1>2, <1>11, <1>12, <1>13, <1>14

-----------------------------------------------------------------------------
(* Halts                                                                   *)

\* haltNode() reaches the nodes that run, from parent to child.
LEMMA HaltedFacts ==
  ASSUME TypeOK, NEW H \in SUBSET Nodes
  PROVE  /\ \A x \in Halted(H) :
              /\ x \in Nodes /\ status[x] = "RUNNING"
              /\ \E h \in H : x \in Below(h)
              /\ x \in H \/ \E y \in Halted(H) : x \in ChildSet(y)
         /\ \A x \in Nodes :
              status[x] = "RUNNING" /\ (x \in H \/ \E y \in Halted(H) : x \in ChildSet(y))
                => x \in Halted(H)
         /\ \A h \in H : \A x \in Below(h) :
              (\A y \in Below(h) : x \in Below(y) => status[y] = "RUNNING") => x \in Halted(H)
<1>1. tree \in DOMAIN Forest
  BY DEF TypeOK
<1>2. \A x : x \in Halted(H) <=>
               \E h \in H : /\ status[h] = "RUNNING" /\ x \in Below(h)
                            /\ \A y \in Below(h) : x \in Below(y) => status[y] = "RUNNING"
  BY DEF Halted, Running
<1>3. ASSUME NEW x \in Halted(H)
      PROVE  /\ x \in Nodes /\ status[x] = "RUNNING"
             /\ \E h \in H : x \in Below(h)
             /\ x \in H \/ \E y \in Halted(H) : x \in ChildSet(y)
  <2>1. PICK h \in H : /\ status[h] = "RUNNING" /\ x \in Below(h)
                       /\ \A y \in Below(h) : x \in Below(y) => status[y] = "RUNNING"
    BY <1>2, <1>3
  <2>2. x \in Nodes /\ x \in Below(x) /\ status[x] = "RUNNING" /\ h \in Nodes
    BY <1>1, <2>1, TreeFacts
  <2>3. ASSUME x # h PROVE \E y \in Halted(H) : x \in ChildSet(y)
    <3>1. PICK p \in Below(h) : x \in ChildSet(p)
      BY <1>1, <2>1, <2>2, <2>3, BelowFacts
    <3>2. p \in Nodes /\ x \in Below(p)
      BY <1>1, <2>2, <3>1, BelowFacts, TreeFacts
    <3>3. \A y \in Below(h) : p \in Below(y) => x \in Below(y) /\ status[y] = "RUNNING"
      BY <1>1, <2>1, <2>2, <3>2, BelowFacts, TreeFacts
    <3>4. p \in Halted(H)
      BY <1>2, <2>1, <3>3
    <3> QED
      BY <3>1, <3>4
  <2> QED
    BY <2>1, <2>2, <2>3
<1>4. ASSUME NEW x \in Nodes, status[x] = "RUNNING", x \in H PROVE x \in Halted(H)
  <2>1. x \in Below(x) /\ \A y \in Below(x) : x \in Below(y) => y = x
    BY <1>1, TreeFacts, BelowFacts
  <2> QED
    BY <1>2, <1>4, <2>1
<1>5. ASSUME NEW x \in Nodes, status[x] = "RUNNING", NEW y \in Halted(H), x \in ChildSet(y)
      PROVE  x \in Halted(H)
  <2>1. PICK h \in H : /\ status[h] = "RUNNING" /\ y \in Below(h)
                       /\ \A z \in Below(h) : y \in Below(z) => status[z] = "RUNNING"
    BY <1>2
  <2>2. h \in Nodes /\ y \in Nodes
    BY <1>1, <2>1, TreeFacts
  <2>3. x \in Below(h)
    BY <1>1, <1>5, <2>1, <2>2, BelowFacts
  <2>4. \A z \in Below(h) : x \in Below(z) => z = x \/ y \in Below(z)
    BY <1>1, <1>5, <2>2, BelowFacts, TreeFacts
  <2> QED
    BY <1>2, <1>5, <2>1, <2>3, <2>4
<1>6. ASSUME NEW h \in H, NEW x \in Below(h),
             \A y \in Below(h) : x \in Below(y) => status[y] = "RUNNING"
      PROVE  x \in Halted(H)
  <2>1. h \in Below(h) /\ x \in Below(h)
    BY <1>1, TreeFacts
  <2> QED
    BY <1>2, <1>6, <2>1
<1> QED
  BY <1>3, <1>4, <1>5, <1>6

\* What tick() leaves behind in the nodes it halts and resets, and in the others.
LEMMA LeavesFrame ==
  ASSUME TypeOK, tree' = tree, NEW n \in Nodes, NEW s, NEW m, NEW H, Leaves(n, s, m, H),
         H \subseteq ChildSet(n) \/ (H = {n} /\ s = "SKIPPED"),
         s \in Statuses \cup {"SKIPPED"}, n \in DOMAIN mem => m \in MemType(n)
  PROVE  /\ H \subseteq Nodes /\ Halted(H) \subseteq Below(n) /\ (n \in Halted(H) => H = {n})
         /\ status' \in [Nodes -> Statuses]
         /\ DOMAIN mem' = DOMAIN mem /\ \A x \in DOMAIN mem : mem'[x] \in MemType(x)
         /\ Mem(n)' = IF n \in DOMAIN mem THEN m ELSE Blank
         /\ status'[n] = IF s # "SKIPPED" THEN s ELSE IF H = {n} THEN "IDLE" ELSE status[n]
         /\ \A x \in Nodes : x # n /\ x \notin Halted(H) =>
              /\ Mem(x)' = Mem(x)
              /\ status'[x] = "RUNNING" <=> status[x] = "RUNNING"
              /\ status'[x] \in {status[x], "IDLE"}
              /\ x \notin Below(n) => status'[x] = status[x]
         /\ \A x \in Halted(H) :
              /\ \A c \in ChildSet(x) : status'[c] = "IDLE"
              /\ x # n => /\ status'[x] = "IDLE"
                          /\ Mem(x)' = IF Kind(x) \in {"SequenceWithMemory", "RunOnce",
                                                       "Precondition", "Loop"}
                                       THEN Mem(x) ELSE Blank
         /\ \A h \in H : status'[h] = "IDLE"
         /\ \A x \in DOMAIN mem \ {n} :
              mem'[x] = IF x \in Halted(H) THEN HaltedMem(x) ELSE mem[x]
<1> DEFINE halted == Halted(H)
           reset  == H \cup UNION {ChildSet(x) : x \in halted}
<1>1. tree \in DOMAIN Forest
  BY DEF TypeOK
<1>2. H \subseteq Nodes
  BY <1>1, TreeFacts
<1>3. /\ \A x \in halted : /\ x \in Nodes /\ status[x] = "RUNNING"
                           /\ \E h \in H : x \in Below(h)
                           /\ x \in H \/ \E y \in halted : x \in ChildSet(y)
      /\ \A x \in Nodes :
           status[x] = "RUNNING" /\ (x \in H \/ \E y \in halted : x \in ChildSet(y))
             => x \in halted
  BY <1>2, HaltedFacts
<1>4. /\ status' = [x \in Nodes |-> CASE x = n /\ s # "SKIPPED" -> s
                                      [] x \in reset            -> "IDLE"
                                      [] OTHER                  -> status[x]]
      /\ mem' = [x \in DOMAIN mem |-> CASE x = n        -> m
                                        [] x \in halted \ {n} -> HaltedMem(x)
                                        [] OTHER        -> mem[x]]
  BY Zenon DEF Leaves
<1> HIDE DEF halted
<1>5. \A x \in Nodes : x \in reset <=> x \in H \/ \E y \in halted : x \in ChildSet(y)
  OBVIOUS
<1>6. \A h \in H : h \in Below(n) /\ (h = n => H = {n} /\ s = "SKIPPED")
  BY <1>1, TreeFacts, BelowFacts
<1>7. ASSUME NEW x \in halted PROVE x \in Below(n) /\ (x = n => H = {n})
  <2>1. PICK h \in H : x \in Below(h)
    BY <1>3
  <2>2. h \in Nodes /\ x \in Nodes
    BY <1>2, <1>3
  <2> QED
    BY <1>1, <1>6, <2>1, <2>2, BelowFacts
<1>8. \A x \in Nodes : x \in reset => x \in Below(n) /\ (x = n => H = {n})
  <2> TAKE x \in Nodes
  <2> HAVE x \in reset
  <2>1. CASE x \in H
    BY <1>6, <2>1
  <2>2. ASSUME NEW y \in halted, x \in ChildSet(y) PROVE x \in Below(n) /\ x # n
    <3>1. y \in Nodes /\ y \in Below(n)
      BY <1>3, <1>7
    <3> QED
      BY <1>1, <2>2, <3>1, BelowFacts
  <2> QED
    BY <1>5, <2>1, <2>2
<1> HIDE DEF reset
<1>9. /\ status \in [Nodes -> Statuses] /\ "IDLE" \in Statuses
      /\ DOMAIN mem \subseteq Nodes /\ \A x \in DOMAIN mem : mem[x] \in MemType(x)
  BY DEF TypeOK, Statuses
<1>10. /\ \A x \in Nodes : x # n => status'[x] = IF x \in reset THEN "IDLE" ELSE status[x]
       /\ status'[n] = IF s # "SKIPPED" THEN s ELSE IF n \in reset THEN "IDLE" ELSE status[n]
       /\ DOMAIN status' = Nodes
  <2>1. ASSUME NEW x \in Nodes, x # n
        PROVE  status'[x] = IF x \in reset THEN "IDLE" ELSE status[x]
    <3>1. status'[x] = CASE x = n /\ s # "SKIPPED" -> s
                         [] x \in reset            -> "IDLE"
                         [] OTHER                  -> status[x]
      BY <1>4
    <3>2. CASE x \in reset
      BY <2>1, <3>1, <3>2
    <3>3. CASE x \notin reset
      BY <2>1, <3>1, <3>3
    <3> QED
      BY <3>2, <3>3
  <2>2. status'[n] = IF s # "SKIPPED" THEN s ELSE IF n \in reset THEN "IDLE" ELSE status[n]
    <3>1. status'[n] = CASE n = n /\ s # "SKIPPED" -> s
                         [] n \in reset            -> "IDLE"
                         [] OTHER                  -> status[n]
      BY <1>4
    <3>2. CASE s # "SKIPPED"
      <4>1. n = n /\ s # "SKIPPED"
        BY <3>2
      <4>2. n \in reset => H = {n} /\ s = "SKIPPED"
        BY <1>5, <1>6, <1>8
      <4> QED
        BY <3>1, <4>1, <4>2
    <3>3. CASE s = "SKIPPED" /\ n \in reset
      BY <3>1, <3>3
    <3>4. CASE s = "SKIPPED" /\ n \notin reset
      BY <3>1, <3>4
    <3> QED
      BY <3>2, <3>3, <3>4
  <2>3. DOMAIN status' = Nodes
    BY <1>4
  <2> QED
    BY <2>1, <2>2, <2>3
<1>11. status' \in [Nodes -> Statuses]
  <2>1. \A x \in Nodes : status'[x] \in Statuses
    BY <1>9, <1>10
  <2>2. status' = [x \in Nodes |-> status'[x]]
    BY <1>4
  <2> QED
    BY <2>1, <2>2
<1>12. \A x : Blank \in MemType(x)
  BY DEF Blank, MemType
<1>13. /\ DOMAIN mem' = DOMAIN mem
       /\ n \in DOMAIN mem => mem'[n] = m
       /\ \A x \in DOMAIN mem \ {n} : mem'[x] = IF x \in halted THEN HaltedMem(x) ELSE mem[x]
  <2>1. n \in halted => H = {n} /\ s = "SKIPPED"
    BY <1>6, <1>7
  <2>2. DOMAIN mem' = DOMAIN mem
    BY <1>4
  <2>3. ASSUME n \in DOMAIN mem PROVE mem'[n] = m
    <3>1. mem'[n] = CASE n = n      -> m
                      [] n \in halted \ {n} -> HaltedMem(n)
                      [] OTHER        -> mem[n]
      BY <1>4, <2>3
    <3> QED
      BY <3>1
  <2>4. ASSUME NEW x \in DOMAIN mem, x # n
        PROVE  mem'[x] = IF x \in halted THEN HaltedMem(x) ELSE mem[x]
    <3>1. mem'[x] = CASE x = n        -> m
                      [] x \in halted \ {n} -> HaltedMem(x)
                      [] OTHER        -> mem[x]
      BY <1>4
    <3>2. CASE x \in halted
      BY <2>4, <3>1, <3>2
    <3>3. CASE x \notin halted
      BY <2>4, <3>1, <3>3
    <3> QED
      BY <3>2, <3>3
  <2> QED
    BY <2>2, <2>3, <2>4
<1>14. \A x \in DOMAIN mem : mem'[x] \in MemType(x)
  <2>1. \A x \in DOMAIN mem : HaltedMem(x) \in MemType(x)
    BY <1>9, <1>12 DEF HaltedMem
  <2> QED
    BY <1>9, <1>13, <2>1
<1>15. \A x \in Nodes : Mem(x)' = IF x \in DOMAIN mem THEN mem'[x] ELSE Blank
  BY <1>13 DEF Mem, Blank
<1>16. n \in reset <=> H = {n}
  BY <1>5, <1>8
<1>17. \A x \in Nodes : x # n /\ x \notin halted =>
              /\ Mem(x)' = Mem(x)
              /\ status'[x] = "RUNNING" <=> status[x] = "RUNNING"
              /\ status'[x] \in {status[x], "IDLE"}
              /\ x \notin Below(n) => status'[x] = status[x]
  BY <1>3, <1>5, <1>8, <1>10, <1>13, <1>15 DEF Mem
<1>18. ASSUME NEW x \in halted
       PROVE  /\ \A c \in ChildSet(x) : status'[c] = "IDLE"
              /\ x # n => /\ status'[x] = "IDLE"
                          /\ Mem(x)' = IF Kind(x) \in {"SequenceWithMemory", "RunOnce",
                                                       "Precondition", "Loop"}
                                       THEN Mem(x) ELSE Blank
  <2>1. x \in Nodes /\ x \in reset
    BY <1>3, <1>5
  <2>2. \A c \in ChildSet(x) : c \in Nodes /\ c \in reset /\ c # n
    BY <1>1, <1>5, <1>7, <2>1, TreeFacts, BelowFacts
  <2>3. x # n => Mem(x)' = IF Kind(x) \in {"SequenceWithMemory", "RunOnce",
                                           "Precondition", "Loop"}
                           THEN Mem(x) ELSE Blank
    BY <1>13, <1>15, <2>1 DEF HaltedMem, Mem
  <2> QED
    BY <1>10, <2>1, <2>2, <2>3
<1>19. \A h \in H : status'[h] = "IDLE"
  BY <1>2, <1>5, <1>6, <1>10
<1> QED
  BY <1>2, <1>7, <1>10, <1>11, <1>13, <1>14, <1>15, <1>16, <1>17, <1>18, <1>19 DEF halted

\* All between a leaf that runs and a node that is not inside tick() run, too.
LEMMA Chain ==
  ASSUME TypeOK, TreeInv, NEW x \in Nodes, ~Locked(x), Live(x)
  PROVE  status[x] = "RUNNING"
<1>1. tree \in DOMAIN Forest
  BY DEF TypeOK
<1>2. PICK l \in Below(x) : Children(l) = <<>> /\ status[l] = "RUNNING"
  BY DEF Live
<1>3. CASE l # x
  <2>1. PICK i \in DOMAIN Children(x) : l \in Below(Child(x, i))
    BY <1>1, <1>3, BelowFacts
  <2>2. i \in LiveIdx(x)
    BY <1>2, <2>1 DEF LiveIdx, Live
  <2> QED
    BY <2>2 DEF TreeInv, NodeInv, NodeOK
<1> QED
  BY <1>2, <1>3

\* After tick() of n, or the handler of its timer, no leaf runs below what it has
\* halted, and no other leaf has begun to run but n.
LEMMA LeavesLive ==
  ASSUME TypeOK, TreeInv, tree' = tree, NEW n \in Nodes, NEW s, NEW m, NEW H,
         Leaves(n, s, m, H), s \in Statuses \cup {"SKIPPED"},
         n \in DOMAIN mem => m \in MemType(n),
         \/ H \subseteq ChildSet(n)
         \/ H = {n} /\ s = "SKIPPED" /\ ~Locked(n) /\ status[n] = "RUNNING",
         \A x \in Below(n) : x # n => ~Locked(x)
  PROVE  /\ \A x \in Nodes :
              Live(x)' => Live(x) \/ (n \in Below(x) /\ Children(n) = <<>> /\ s = "RUNNING")
         /\ \A x \in H \cup Halted(H) : x \in Nodes /\ ~Live(x)'
         /\ LiveIdx(n)' \subseteq LiveIdx(n) \ Index(n, H)
         /\ DoneIdx(n)' \subseteq DoneIdx(n) \ Index(n, H)
         /\ \A x \in Halted(H) : LiveIdx(x)' = {} /\ DoneIdx(x)' = {}
         /\ \A x \in Nodes : x # n =>
              /\ LiveIdx(x)' \subseteq
                   LiveIdx(x) \cup {i \in DOMAIN Children(x) :
                                      n \in Below(Child(x, i)) /\ Children(n) = <<>> /\ s = "RUNNING"}
              /\ DoneIdx(x)' \subseteq
                   DoneIdx(x) \cup {i \in DOMAIN Children(x) :
                                      n = Child(x, i) /\ s \in Completed /\ status[n] \notin Completed}
<1>1. tree \in DOMAIN Forest
  BY DEF TypeOK
<1>2. /\ H \subseteq Nodes /\ Halted(H) \subseteq Below(n) /\ (n \in Halted(H) => H = {n})
      /\ status'[n] = IF s # "SKIPPED" THEN s ELSE IF H = {n} THEN "IDLE" ELSE status[n]
      /\ \A x \in Nodes : x # n /\ x \notin Halted(H) =>
           /\ status'[x] = "RUNNING" <=> status[x] = "RUNNING"
           /\ status'[x] \in {status[x], "IDLE"}
      /\ \A x \in Halted(H) :
           /\ \A c \in ChildSet(x) : status'[c] = "IDLE"
           /\ x # n => status'[x] = "IDLE"
      /\ \A h \in H : status'[h] = "IDLE"
  BY LeavesFrame
<1>3. /\ \A x \in Halted(H) : x \in Nodes /\ \E h \in H : x \in Below(h)
      /\ \A h \in H : \A x \in Below(h) :
              (\A y \in Below(h) : x \in Below(y) => status[y] = "RUNNING") => x \in Halted(H)
  BY <1>2, HaltedFacts
<1>4. \A x : Live(x)' <=> \E l \in Below(x) : Children(l) = <<>> /\ status'[l] = "RUNNING"
  BY SameTree DEF Live
<1>5. ASSUME NEW l \in Nodes, status'[l] = "RUNNING"
      PROVE  /\ status[l] = "RUNNING" \/ (l = n /\ s = "RUNNING")
             /\ l \in Halted(H) => l = n /\ H # {n}
  BY <1>2, <1>5
<1>6. ASSUME NEW x \in Nodes, Live(x)'
      PROVE  Live(x) \/ (n \in Below(x) /\ Children(n) = <<>> /\ s = "RUNNING")
  <2>1. PICK l \in Below(x) : Children(l) = <<>> /\ status'[l] = "RUNNING"
    BY <1>4, <1>6
  <2>2. l \in Nodes
    BY <1>1, TreeFacts
  <2> QED
    BY <1>5, <2>1, <2>2 DEF Live
<1>7. ASSUME NEW x \in H \cup Halted(H) PROVE x \in Nodes /\ ~Live(x)'
  <2>1. x \in Nodes
    BY <1>2, <1>3
  <2>2. PICK h \in H : x \in Below(h)
    BY <1>1, <1>2, <1>3, TreeFacts
  <2>3. SUFFICES ASSUME Live(x)' PROVE FALSE
    BY <2>1
  <2>4. PICK l \in Below(x) : Children(l) = <<>> /\ status'[l] = "RUNNING"
    BY <1>4, <2>3
  <2>5. h \in Nodes /\ l \in Nodes /\ l \in Below(h)
    BY <1>1, <1>2, <2>1, <2>2, <2>4, TreeFacts, BelowFacts
  <2>6. h \in Below(n) /\ (h # n => h \in ChildSet(n) /\ n \notin Below(h))
    BY <1>1, TreeFacts, BelowFacts
  <2>7. l # n
    BY <1>2, <2>4, <2>5, <2>6
  <2>8. l \notin Halted(H) /\ status[l] = "RUNNING"
    BY <1>5, <2>4, <2>5, <2>7
  <2>9. ASSUME NEW y \in Below(h), l \in Below(y) PROVE status[y] = "RUNNING"
    <3>1. y \in Nodes /\ Live(y) /\ y \in Below(n)
      BY <1>1, <2>4, <2>5, <2>6, <2>8, <2>9, TreeFacts, BelowFacts DEF Live
    <3>2. CASE y = n
      BY <2>6, <3>2, <1>1, BelowFacts
    <3>3. CASE y # n
      <4>1. ~Locked(y)
        BY <3>1, <3>3
      <4> QED
        BY <3>1, <4>1, Chain
    <3> QED
      BY <3>2, <3>3
  <2> QED
    BY <1>3, <2>5, <2>8, <2>9
<1>8. ASSUME NEW x \in Nodes, NEW i \in DOMAIN Children(x)
      PROVE  Child(x, i) \in Nodes /\ Child(x, i) \in ChildSet(x) /\ Child(x, i) # x
  BY <1>1, TreeFacts, BelowFacts
<1>9. \A x : /\ LiveIdx(x)' = {i \in DOMAIN Children(x) : Live(Child(x, i))'}
             /\ DoneIdx(x)' = {i \in DOMAIN Children(x) : status'[Child(x, i)] \in Completed}
  BY SameTree DEF LiveIdx, DoneIdx
<1>10. LiveIdx(n)' \subseteq LiveIdx(n) \ Index(n, H)
  <2> SUFFICES ASSUME NEW i \in DOMAIN Children(n), Live(Child(n, i))'
               PROVE  Live(Child(n, i)) /\ Child(n, i) \notin H
    BY <1>9 DEF LiveIdx, Index
  <2>1. Child(n, i) \in Nodes /\ n \notin Below(Child(n, i))
    BY <1>1, TreeFacts, BelowFacts
  <2> QED
    BY <1>6, <1>7, <2>1, SameTree
<1>11. DoneIdx(n)' \subseteq DoneIdx(n) \ Index(n, H)
  <2> SUFFICES ASSUME NEW i \in DOMAIN Children(n), status'[Child(n, i)] \in Completed
               PROVE  status[Child(n, i)] \in Completed /\ Child(n, i) \notin H
    BY <1>9 DEF DoneIdx, Index
  <2>1. "IDLE" \notin Completed
    BY DEF Completed
  <2> QED
    BY <1>2, <1>8, <2>1
<1>12. ASSUME NEW x \in Halted(H) PROVE LiveIdx(x)' = {} /\ DoneIdx(x)' = {}
  <2>1. x \in Nodes /\ ~Live(x)'
    BY <1>7
  <2>2. ASSUME NEW i \in DOMAIN Children(x)
        PROVE ~Live(Child(x, i))' /\ status'[Child(x, i)] \notin Completed
    <3>1. Child(x, i) \in Nodes /\ Child(x, i) \in Below(x) /\ Child(x, i) \in ChildSet(x)
      BY <1>1, <2>1, TreeFacts, BelowFacts
    <3>2. \A l \in Below(Child(x, i)) : l \in Below(x)
      BY <1>1, <2>1, <3>1, TreeFacts, BelowFacts
    <3>3. status'[Child(x, i)] = "IDLE"
      BY <1>2, <3>1
    <3> QED
      BY <1>4, <2>1, <3>1, <3>2, <3>3, SameTree DEF Completed
  <2> QED
    BY <1>9, <2>2
<1>13. ASSUME NEW x \in Nodes, x # n
       PROVE  /\ LiveIdx(x)' \subseteq
                   LiveIdx(x) \cup {i \in DOMAIN Children(x) :
                                      n \in Below(Child(x, i)) /\ Children(n) = <<>> /\ s = "RUNNING"}
              /\ DoneIdx(x)' \subseteq
                   DoneIdx(x) \cup {i \in DOMAIN Children(x) :
                                      n = Child(x, i) /\ s \in Completed /\ status[n] \notin Completed}
  <2>1. \A i \in DOMAIN Children(x) : Live(Child(x, i))' =>
          Live(Child(x, i)) \/ (n \in Below(Child(x, i)) /\ Children(n) = <<>> /\ s = "RUNNING")
    BY <1>6, <1>8, SameTree
  <2>2. \A i \in DOMAIN Children(x) : status'[Child(x, i)] \in Completed =>
          \/ status[Child(x, i)] \in Completed
          \/ n = Child(x, i) /\ s \in Completed /\ status[n] \notin Completed
    BY <1>2, <1>8, <1>12 DEF Completed
  <2> QED
    BY <1>9, <2>1, <2>2 DEF LiveIdx, DoneIdx
<1> QED
  BY <1>6, <1>7, <1>10, <1>11, <1>12, <1>13

-----------------------------------------------------------------------------
(* The nodes that a step leaves alone                                      *)

\* The invariant of a node, told with the truth values of its two conditions.
LEMMA NodeInvIs ==
  ASSUME NEW x, NEW locked \in BOOLEAN, NEW back \in BOOLEAN
  PROVE  /\ (Locked(x) <=> locked) /\ (Inside(x) /\ ret \in Completed <=> back)
              => (NodeInv(x) <=>
                    NodeOK(x, status[x], Mem(x), locked, LiveIdx(x), DoneIdx(x), back))
         /\ tree' = tree /\ (Locked(x)' <=> locked) /\ (Inside(x)' /\ ret' \in Completed <=> back)
              => (NodeInv(x)' <=>
                    NodeOK(x, status'[x], Mem(x)', locked, LiveIdx(x)', DoneIdx(x)', back))
<1>1. ASSUME Locked(x) <=> locked, Inside(x) /\ ret \in Completed <=> back
      PROVE  NodeInv(x) <=> NodeOK(x, status[x], Mem(x), locked, LiveIdx(x), DoneIdx(x), back)
  <2>1. Locked(x) = locked /\ (Inside(x) /\ ret \in Completed) = back
    BY <1>1 DEF Locked
  <2> QED
    BY <2>1 DEF NodeInv
<1>2. ASSUME tree' = tree, Locked(x)' <=> locked, Inside(x)' /\ ret' \in Completed <=> back
      PROVE  NodeInv(x)' <=>
               NodeOK(x, status'[x], Mem(x)', locked, LiveIdx(x)', DoneIdx(x)', back)
  <2>1. Locked(x)' = locked /\ (Inside(x)' /\ ret' \in Completed) = back
    BY <1>2 DEF Locked
  <2>2. Completed' = Completed
    BY DEF Completed
  <2>3. NodeInv(x)' <=> NodeOK(x, status[x], Mem(x), Locked(x), LiveIdx(x), DoneIdx(x),
                               Inside(x) /\ ret \in Completed)'
    BY DEF NodeInv
  <2> QED
    BY <1>2, <2>1, <2>2, <2>3, SameNodeOK
<1> QED
  BY <1>1, <1>2

\* What the member records are, and what a node that is not locked has not.
LEMMA MemFacts ==
  ASSUME TypeOK
  PROVE  /\ \A x : Mem(x) \in MemType(x)
         /\ \A x \in DOMAIN mem : Mem(x) = mem[x]
         /\ \A x \in Nodes : (x \in DOMAIN mem <=> Kind(x) \in WithMem)
         /\ \A x : Inside(x) /\ ret \in Completed => Locked(x)
<1>1. \A x : Blank \in MemType(x)
  BY DEF Blank, MemType
<1>2. \A x : Inside(x) /\ ret \in Completed => Locked(x)
  <2> TAKE x
  <2> HAVE Inside(x) /\ ret \in Completed
  <2>1. stack \in Seq(Nodes) /\ stack # <<>>
    BY DEF TypeOK, Inside
  <2>2. x \in ToSet(stack)
    BY <2>1 DEF Inside, Last, ToSet
  <2> QED
    BY <2>2 DEF Locked, Entered, Completed, None
<1> QED
  BY <1>1, <1>2 DEF TypeOK, Mem

\* A step of tick() of n: its ancestors, the nodes below it, halted or not, and all
\* others keep their invariant.
LEMMA OthersStep ==
  ASSUME TypeOK, TreeInv, tree' = tree, NEW n \in Nodes, Inside(n), NEW s, NEW m, NEW H,
         Leaves(n, s, m, H), s \in Statuses \cup {"SKIPPED"},
         n \in DOMAIN mem => m \in MemType(n),
         \/ H \subseteq ChildSet(n)
         \/ H = {n} /\ s = "SKIPPED" /\ ~Locked(n) /\ status[n] = "RUNNING",
         \A x \in Nodes : x # n => (Locked(x)' <=> n \in Below(x)),
         \A x \in Nodes : x # n /\ Inside(x)' /\ ret' \in Completed => n \in Below(x),
         s \in Completed /\ status[n] \notin Completed => 
           \A x \in Nodes : n \in ChildSet(x) => Inside(x)' /\ ret' \in Completed
  PROVE  \A x \in Nodes : x # n => NodeInv(x)'
<1>1. tree \in DOMAIN Forest /\ \A x : Mem(x) \in MemType(x)
  BY MemFacts DEF TypeOK
<1>2. /\ \A x \in Nodes : Locked(x) <=> n \in Below(x) /\ (x = n => ret # None)
      /\ \A x \in Nodes : Locked(x) => /\ CurIdx(x, Mem(x)) \in DOMAIN Children(x)
                                       /\ x # n => n \in Below(Cur(x))
  BY OnPath
<1>3. \A x \in Below(n) : x # n => x \in Nodes /\ ~Locked(x) /\ n \notin Below(x)
  BY <1>1, <1>2, TreeFacts, BelowFacts
<1>4. \A x : Inside(x) => x = n
  BY DEF Inside
<1>5. /\ Halted(H) \subseteq Below(n)
      /\ \A x \in Nodes : x # n /\ x \notin Halted(H) =>
           Mem(x)' = Mem(x) /\ (status'[x] = "RUNNING" <=> status[x] = "RUNNING")
      /\ \A x \in Halted(H) : x # n =>
           /\ status'[x] = "IDLE"
           /\ Mem(x)' = IF Kind(x) \in {"SequenceWithMemory", "RunOnce", "Precondition", "Loop"}
                        THEN Mem(x) ELSE Blank
  BY LeavesFrame
<1>6. /\ \A x \in Halted(H) : LiveIdx(x)' = {} /\ DoneIdx(x)' = {}
      /\ \A x \in Nodes : x # n =>
              /\ LiveIdx(x)' \subseteq
                   LiveIdx(x) \cup {i \in DOMAIN Children(x) :
                                      n \in Below(Child(x, i)) /\ Children(n) = <<>> /\ s = "RUNNING"}
              /\ DoneIdx(x)' \subseteq
                   DoneIdx(x) \cup {i \in DOMAIN Children(x) :
                                      n = Child(x, i) /\ s \in Completed /\ status[n] \notin Completed}
  BY <1>3, LeavesLive
<1>7. \A x \in Halted(H) : status[x] = "RUNNING"
  BY LeavesFrame, HaltedFacts
<1>8. \A x \in Nodes : \A i \in DOMAIN Children(x) :
        n \in Below(Child(x, i)) => n \in Below(x) /\ x # n
  BY <1>1, TreeFacts, BelowFacts
<1>9. ASSUME NEW x \in Nodes, x # n, n \in Below(x) PROVE NodeInv(x)'
  <2> DEFINE L == LiveIdx(x) \cup {CurIdx(x, Mem(x))}
  <2>1. /\ Locked(x) /\ Locked(x)' /\ x \notin Halted(H)
        /\ n \in Below(Cur(x)) /\ CurIdx(x, Mem(x)) \in DOMAIN Children(x)
    BY <1>1, <1>2, <1>3, <1>5, <1>9
  <2>2. NodeOK(x, status[x], Mem(x), TRUE, LiveIdx(x), DoneIdx(x), FALSE)
    BY <1>4, <1>9, <2>1, NodeInvIs DEF TreeInv
  <2>3. \A i \in DOMAIN Children(x) : n \in Below(Child(x, i)) => i = CurIdx(x, Mem(x))
    BY <1>1, <2>1, BelowFacts DEF Cur
  <2>4. LiveIdx(x)' \subseteq L
    BY <1>6, <1>9, <2>3
  <2>5. Mem(x)' = Mem(x) /\ (status'[x] = "RUNNING" <=> status[x] = "RUNNING")
    BY <1>5, <1>9, <2>1
  <2>6. CASE Inside(x)' /\ ret' \in Completed
    <3>1. NodeOK(x, status[x], Mem(x), TRUE, L, DoneIdx(x)', TRUE)
      BY <1>1, <2>2, NodeOKGrow
    <3> HIDE DEF L
    <3>2. NodeOK(x, status'[x], Mem(x), TRUE, LiveIdx(x)', DoneIdx(x)', TRUE)
      BY <2>4, <2>5, <3>1, NodeOKMono
    <3> QED
      BY <2>1, <2>5, <2>6, <3>2, NodeInvIs
  <2>7. CASE ~(Inside(x)' /\ ret' \in Completed)
    <3>1. DoneIdx(x)' \subseteq DoneIdx(x)
      <4>1. \A i \in DOMAIN Children(x) : Child(x, i) \in ChildSet(x)
        BY <1>1, TreeFacts
      <4> QED
        BY <1>6, <1>9, <2>7, <4>1
    <3>2. NodeOK(x, status[x], Mem(x), TRUE, L, DoneIdx(x), FALSE)
      BY <1>1, <2>2, NodeOKGrow
    <3> HIDE DEF L
    <3>3. NodeOK(x, status'[x], Mem(x), TRUE, LiveIdx(x)', DoneIdx(x)', FALSE)
      BY <2>4, <2>5, <3>1, <3>2, NodeOKMono
    <3> QED
      BY <2>1, <2>5, <2>7, <3>3, NodeInvIs
  <2> QED
    BY <2>6, <2>7
<1>10. ASSUME NEW x \in Nodes, x # n, n \notin Below(x) PROVE NodeInv(x)'
  <2>1. /\ ~Locked(x) /\ ~Locked(x)' /\ ~(Inside(x)' /\ ret' \in Completed)
        /\ ~(Inside(x) /\ ret \in Completed)
    BY <1>2, <1>4, <1>10
  <2>2. NodeOK(x, status[x], Mem(x), FALSE, LiveIdx(x), DoneIdx(x), FALSE)
    BY <2>1, NodeInvIs DEF TreeInv
  <2>3. SUFFICES NodeOK(x, status'[x], Mem(x)', FALSE, LiveIdx(x)', DoneIdx(x)', FALSE)
    BY <2>1, NodeInvIs
  <2>4. CASE x \in Halted(H)
    <3>1. NodeOK(x, "RUNNING", Mem(x), FALSE, LiveIdx(x), DoneIdx(x), FALSE)
      BY <1>7, <2>2, <2>4
    <3>2. NodeOK(x, "IDLE",
                 IF Kind(x) \in {"SequenceWithMemory", "RunOnce", "Precondition", "Loop"}
                 THEN Mem(x) ELSE Blank, FALSE, {}, {}, FALSE)
      BY <1>1, <3>1, NodeOKHalted
    <3> QED
      BY <1>5, <1>6, <1>10, <2>4, <3>2
  <2>5. CASE x \notin Halted(H)
    <3>1. LiveIdx(x)' \subseteq LiveIdx(x) /\ DoneIdx(x)' \subseteq DoneIdx(x)
      <4>1. n \in Below(n)
        BY <1>1, TreeFacts
      <4> QED
        BY <1>6, <1>8, <1>10, <4>1
    <3>2. Mem(x)' = Mem(x) /\ (status'[x] = "RUNNING" <=> status[x] = "RUNNING")
      BY <1>5, <1>10, <2>5
    <3>3. NodeOK(x, status'[x], Mem(x), FALSE, LiveIdx(x)', DoneIdx(x)', FALSE)
      BY <2>2, <3>1, <3>2, NodeOKMono
    <3> QED
      BY <3>2, <3>3
  <2> QED
    BY <2>4, <2>5
<1> QED
  BY <1>9, <1>10

-----------------------------------------------------------------------------
(* Timers                                                                  *)

\* The invariant of a timer, told with the truth value of its last condition.
LEMMA TimerInvIs ==
  ASSUME tree' = tree, NEW x, NEW late \in BOOLEAN
  PROVE  /\ (x \in over <=> late)
              => (TimerInv(x) <=> TimerOK(x, status[x], mem[x], timer[x], stale[x], late))
         /\ (x \in over' <=> late)
              => (TimerInv(x)' <=> TimerOK(x, status'[x], mem'[x], timer'[x], stale'[x], late))
<1>1. ASSUME x \in over <=> late
      PROVE  TimerInv(x) <=> TimerOK(x, status[x], mem[x], timer[x], stale[x], late)
  <2>1. (x \in over) = late
    BY <1>1
  <2> QED
    BY <2>1 DEF TimerInv
<1>2. ASSUME x \in over' <=> late
      PROVE  TimerInv(x)' <=> TimerOK(x, status'[x], mem'[x], timer'[x], stale'[x], late)
  <2>1. (x \in over') = late
    BY <1>2
  <2>2. TimerInv(x)' <=> TimerOK(x, status[x], mem[x], timer[x], stale[x], x \in over)'
    BY DEF TimerInv
  <2> QED
    BY <2>1, <2>2, SameNodeOK
<1> QED
  BY <1>1, <1>2

\* The types of the timers and of their handlers.
Timers == /\ \A x \in DOMAIN timer : x \in DOMAIN mem /\ Kind(x) \in Timed
          /\ DOMAIN timer = {x \in Nodes : Kind(x) \in Timed}
          /\ timer \in [DOMAIN timer -> {"off", "added", "waiting", "signalled"}]
          /\ stale \in [DOMAIN timer -> SUBSET {"aborted", "due"}]
          /\ over \subseteq DOMAIN timer

\* The type invariant says as much of the timers.
LEMMA TypeTimers == TypeOK => Timers
<1> SUFFICES ASSUME TypeOK PROVE Timers
  OBVIOUS
<1>1. Timed \subseteq WithMem
  BY DEF WithMem
<1>2. DOMAIN timer = {x \in Nodes : Kind(x) \in Timed}
      /\ DOMAIN mem = {x \in Nodes : Kind(x) \in WithMem}
  BY DEF TypeOK
<1>3. \A x \in DOMAIN timer : x \in DOMAIN mem /\ Kind(x) \in Timed
  BY <1>1, <1>2
<1> QED
  BY <1>2, <1>3 DEF Timers, TypeOK

\* The timers of C are cancelled, the others go on.
LEMMA CancelsFrame ==
  ASSUME Timers, tree' = tree, NEW C \in SUBSET DOMAIN timer, NEW t, NEW o,
         t \in [DOMAIN timer -> {"off", "added", "waiting", "signalled"}],
         o \in [DOMAIN timer -> SUBSET {"aborted", "due"}], CancelsIn(C, t, o),
         DOMAIN mem' = DOMAIN mem
  PROVE  /\ Timers' /\ DOMAIN timer' = DOMAIN timer /\ over' = over
         /\ \A x \in C : timer'[x] = "off"
         /\ \A x \in DOMAIN timer \ C : timer'[x] = t[x] /\ stale'[x] = o[x]
<1>1. PICK late \in SUBSET {x \in C : t[x] = "waiting"} :
        /\ timer' = [x \in DOMAIN t |-> IF x \in C THEN "off" ELSE t[x]]
        /\ stale' = [x \in DOMAIN t |->
                   o[x] \cup
                   CASE x \in late                      -> {"due"}
                     [] x \notin C \/ t[x] = "off"      -> {}
                     [] x \notin late /\ x \in C /\ t[x] # "off" ->
                          IF Kind(x) = "Timeout" THEN {} ELSE {"aborted"}]
        /\ over' = over
  BY Zenon DEF CancelsIn
<1>2. DOMAIN t = DOMAIN timer /\ DOMAIN timer' = DOMAIN timer /\ DOMAIN stale' = DOMAIN timer
  BY <1>1
<1>3. \A x \in DOMAIN timer : timer'[x] = IF x \in C THEN "off" ELSE t[x]
  BY <1>1, <1>2
<1>4. ASSUME NEW x \in DOMAIN timer
      PROVE  stale'[x] \in SUBSET {"aborted", "due"} /\ (x \notin C => stale'[x] = o[x])
  <2>1. stale'[x] = o[x] \cup
                   CASE x \in late                      -> {"due"}
                     [] x \notin C \/ t[x] = "off"      -> {}
                     [] x \notin late /\ x \in C /\ t[x] # "off" ->
                          IF Kind(x) = "Timeout" THEN {} ELSE {"aborted"}
    BY <1>1, <1>2
  <2>2. o[x] \in SUBSET {"aborted", "due"}
    OBVIOUS
  <2>3. CASE x \in late
    <3>1. x \in C /\ ~(x \notin C \/ t[x] = "off")
      BY <2>3
    <3>2. stale'[x] = o[x] \cup {"due"}
      BY <2>1, <2>3, <3>1
    <3> QED
      BY <2>2, <3>1, <3>2
  <2>4. CASE x \notin C \/ t[x] = "off"
    <3>1. x \notin late
      BY <2>4
    <3>2. stale'[x] = o[x] \cup {}
      BY <2>1, <2>4, <3>1
    <3> QED
      BY <2>2, <3>2
  <2>5. CASE x \notin late /\ x \in C /\ t[x] # "off"
    <3>1. stale'[x] = o[x] \cup (IF Kind(x) = "Timeout" THEN {} ELSE {"aborted"})
      BY <2>1, <2>5
    <3> QED
      BY <2>2, <2>5, <3>1
  <2> QED
    BY <2>3, <2>4, <2>5
<1>5. timer' \in [DOMAIN timer -> {"off", "added", "waiting", "signalled"}]
  <2>1. \A x \in DOMAIN timer : timer'[x] \in {"off", "added", "waiting", "signalled"}
    BY <1>3
  <2>2. timer' = [x \in DOMAIN timer |-> timer'[x]]
    BY <1>1, <1>2
  <2> QED
    BY <2>1, <2>2
<1>6. stale' \in [DOMAIN timer -> SUBSET {"aborted", "due"}]
  <2>1. stale' = [x \in DOMAIN timer |-> stale'[x]]
    BY <1>1, <1>2
  <2> QED
    BY <1>4, <2>1
<1>7. Timers'
  BY <1>1, <1>2, <1>5, <1>6, SameTree DEF Timers, Timed
<1> QED
  BY <1>1, <1>2, <1>3, <1>4, <1>7

\* The timers of the halted nodes are cancelled: nothing is left of them but handlers.
LEMMA TimerOthers ==
  ASSUME TypeOK, tree' = tree, NEW n \in Nodes, NEW s, NEW m, NEW H, Leaves(n, s, m, H),
         H \subseteq ChildSet(n) \/ (H = {n} /\ s = "SKIPPED"),
         s \in Statuses \cup {"SKIPPED"}, n \in DOMAIN mem => m \in MemType(n),
         \A x \in DOMAIN timer : TimerInv(x),
         \A x \in DOMAIN timer : x # n =>
            IF x \in Halted(H) THEN timer'[x] = "off"
            ELSE timer'[x] = timer[x] /\ stale'[x] = stale[x] /\ (x \in over <=> x \in over')
  PROVE  \A x \in DOMAIN timer : x # n => TimerInv(x)'
<1>1. Timers
  BY TypeTimers
<1>2. /\ \A x \in Nodes : x # n /\ x \notin Halted(H) =>
           status'[x] = "RUNNING" <=> status[x] = "RUNNING"
      /\ \A x \in Halted(H) : x # n => status'[x] = "IDLE"
      /\ \A x \in DOMAIN mem \ {n} :
           mem'[x] = IF x \in Halted(H) THEN HaltedMem(x) ELSE mem[x]
  BY LeavesFrame
<1> TAKE x \in DOMAIN timer
<1> HAVE x # n
<1>3. x \in Nodes /\ x \in DOMAIN mem /\ Kind(x) \in Timed
  BY <1>1 DEF Timers
<1>4. PICK late \in BOOLEAN : x \in over' <=> late
  BY Zenon
<1>5. CASE x \in Halted(H)
  <2>1. timer'[x] = "off" /\ status'[x] = "IDLE" /\ mem'[x] = Blank
    BY <1>2, <1>3, <1>5 DEF HaltedMem, Timed
  <2>2. TimerOK(x, "IDLE", Blank, "off", stale'[x], late)
    BY DEF TimerOK
  <2> QED
    BY <1>4, <2>1, <2>2, TimerInvIs
<1>6. CASE x \notin Halted(H)
  <2>1. TimerOK(x, status[x], mem[x], timer[x], stale[x], late)
    BY <1>4, <1>6, TimerInvIs
  <2>2. /\ timer'[x] = timer[x] /\ stale'[x] = stale[x] /\ mem'[x] = mem[x]
        /\ status'[x] = "RUNNING" <=> status[x] = "RUNNING"
    BY <1>2, <1>3, <1>6
  <2>3. TimerOK(x, status'[x], mem[x], timer[x], stale[x], late)
    BY <2>1, <2>2 DEF TimerOK
  <2> QED
    BY <1>4, <2>2, <2>3, TimerInvIs
<1> QED
  BY <1>5, <1>6

-----------------------------------------------------------------------------
(* A step of tick()                                                        *)

\* The parts of the invariant that a step leaves, put together.
LEMMA Together ==
  ASSUME IInv, tree' = tree, NEW n \in Nodes, Inside(n), NEW s, NEW m, NEW H,
         Leaves(n, s, m, H), s \in Statuses \cup {"SKIPPED"},
         n \in DOMAIN mem => m \in MemType(n),
         \/ H \subseteq ChildSet(n)
         \/ H = {n} /\ s = "SKIPPED" /\ ~Locked(n) /\ status[n] = "RUNNING",
         \A x \in Nodes : x # n => (Locked(x)' <=> n \in Below(x)),
         \A x \in Nodes : x # n /\ Inside(x)' /\ ret' \in Completed => n \in Below(x),
         s \in Completed /\ status[n] \notin Completed =>
           \A x \in Nodes : n \in ChildSet(x) => Inside(x)' /\ ret' \in Completed,
         value' \in Values \cup {None}, wake' \in BOOLEAN, ret' \in Results \cup {None},
         stack' \in Seq(Nodes), Path', Returned', NodeInv(n)',
         Timers', DOMAIN timer' = DOMAIN timer, n \in DOMAIN timer => TimerInv(n)',
         \A x \in DOMAIN timer : x # n =>
            IF x \in Halted(H) THEN timer'[x] = "off"
            ELSE timer'[x] = timer[x] /\ stale'[x] = stale[x] /\ (x \in over <=> x \in over')
  PROVE  IInv'
<1>1. TypeOK /\ TreeInv /\ \A x \in DOMAIN timer : TimerInv(x)
  BY DEF IInv, Inside
<1>2. \A x \in Nodes : x # n => NodeInv(x)'
  BY <1>1, OthersStep
<1>3. \A x \in DOMAIN timer : x # n => TimerInv(x)'
  BY <1>1, TimerOthers
<1>4. /\ status' \in [Nodes -> Statuses]
      /\ DOMAIN mem' = DOMAIN mem /\ \A x \in DOMAIN mem : mem'[x] \in MemType(x)
  BY <1>1, LeavesFrame
<1>5. TypeOK'
  <2>1. /\ tree' \in DOMAIN Forest /\ Nodes' = Nodes
        /\ mem' = [x \in {x \in Nodes : Kind(x)' \in WithMem} |-> mem'[x]]
        /\ \A x \in DOMAIN mem' : mem'[x] \in MemType(x)'
    <3>1. mem' = [x \in DOMAIN mem |-> mem'[x]]
      BY DEF Leaves
    <3>2. DOMAIN mem = {x \in Nodes : Kind(x) \in WithMem}
      BY <1>1 DEF TypeOK
    <3>3. {x \in Nodes : Kind(x)' \in WithMem} = {x \in Nodes : Kind(x) \in WithMem}
      BY SameTree
    <3> QED
      BY <1>1, <1>4, <3>1, <3>2, <3>3, SameTree DEF TypeOK
  <2>2. Statuses' = Statuses /\ WithMem' = WithMem /\ None' = None /\ Results' = Results
    BY DEF Statuses, WithMem, None, Results, Completed, Sequences_, Fallbacks, Reactives,
           Parallels, Branches, Timed
  <2>3. /\ DOMAIN timer' = {x \in Nodes' : Kind(x)' \in Timed'}
        /\ timer' \in [DOMAIN timer' -> {"off", "added", "waiting", "signalled"}]
        /\ stale' \in [DOMAIN timer' -> SUBSET {"aborted", "due"}]
        /\ over' \subseteq DOMAIN timer'
    BY DEF Timers
  <2> QED
    BY <1>4, <2>1, <2>2, <2>3 DEF TypeOK
<1>6. TreeInv'
  <2>1. \A x \in Nodes' : NodeInv(x)'
    BY <1>2, SameTree
  <2> QED
    BY <2>1 DEF TreeInv
<1>7. ret' # "EXCEPTION"
  BY DEF Results, Completed, None
<1>8. \A x \in DOMAIN timer' : TimerInv(x)'
  BY <1>3
<1> QED
  BY <1>5, <1>6, <1>7, <1>8 DEF IInv

\* The timers of what is halted are cancelled.
LEMMA CancelsHalted ==
  ASSUME TypeOK, tree' = tree, NEW H, DOMAIN mem' = DOMAIN mem, Cancels(Halted(H))
  PROVE  /\ Timers' /\ DOMAIN timer' = DOMAIN timer /\ over' = over
         /\ \A x \in DOMAIN timer :
              IF x \in Halted(H) THEN timer'[x] = "off"
              ELSE timer'[x] = timer[x] /\ stale'[x] = stale[x]
<1>1. Timers
  BY TypeTimers
<1> DEFINE C == Halted(H) \cap DOMAIN timer
<1>2. CancelsIn(C, timer, stale) /\ C \in SUBSET DOMAIN timer
  BY DEF Cancels
<1> HIDE DEF C
<1>3. /\ Timers' /\ DOMAIN timer' = DOMAIN timer /\ over' = over
      /\ \A x \in C : timer'[x] = "off"
      /\ \A x \in DOMAIN timer \ C : timer'[x] = timer[x] /\ stale'[x] = stale[x]
  <2>1. /\ timer \in [DOMAIN timer -> {"off", "added", "waiting", "signalled"}]
        /\ stale \in [DOMAIN timer -> SUBSET {"aborted", "due"}]
    BY <1>1 DEF Timers
  <2> QED
    BY <1>1, <1>2, <2>1, CancelsFrame
<1> QED
  BY <1>3 DEF C

\* tick() of n goes on to a child.
LEMMA CallStep ==
  ASSUME IInv, tree' = tree, NEW n, Inside(n), NEW s \in Statuses, NEW m, NEW H,
         NEW i \in DOMAIN Children(n), Call(n, s, m, H, i),
         value' \in Values \cup {None}, wake' \in BOOLEAN, H \subseteq ChildSet(n),
         IF n \in DOMAIN mem THEN m \in MemType(n) ELSE m = Blank, CurIdx(n, m) = i,
         s \in Completed => status[n] \in Completed,
         NodeOK(n, s, m, TRUE, LiveIdx(n) \ Index(n, H), DoneIdx(n) \ Index(n, H), FALSE),
         n \in DOMAIN timer => TimerOK(n, s, m, timer[n], stale[n], n \in over)
  PROVE  IInv'
<1>1. TypeOK /\ TreeInv /\ \A x \in DOMAIN timer : TimerInv(x)
  BY DEF IInv, Inside
<1>2. n \in Nodes /\ tree \in DOMAIN Forest
      /\ \A x \in Nodes : Locked(x) <=> n \in Below(x) /\ (x = n => ret # None)
  BY <1>1, OnPath DEF TypeOK
<1>3. Leaves(n, s, m, H) /\ Cancels(Halted(H)) /\ Calls(n, i)
  BY DEF Call
<1>4. s # "SKIPPED"
  BY DEF Statuses, Completed
<1>5. /\ DOMAIN mem' = DOMAIN mem /\ Mem(n)' = m /\ status'[n] = s
      /\ Halted(H) \subseteq Below(n) /\ (n \in Halted(H) => H = {n})
      /\ \A x \in Nodes : x # n /\ x \notin Halted(H) => Mem(x)' = Mem(x)
  BY <1>1, <1>2, <1>3, <1>4, LeavesFrame
<1>6. /\ Timers' /\ DOMAIN timer' = DOMAIN timer /\ over' = over
      /\ \A x \in DOMAIN timer :
              IF x \in Halted(H) THEN timer'[x] = "off"
              ELSE timer'[x] = timer[x] /\ stale'[x] = stale[x]
  BY <1>1, <1>3, <1>5, CancelsHalted
<1>7. n \notin H /\ n \notin Halted(H)
  BY <1>2, <1>5, BelowFacts
<1>8. /\ stack' \in Seq(Nodes) /\ Path' /\ ret' = None
      /\ \A x \in Nodes : Locked(x)' <=> n \in Below(x)
  <2>1. \A x \in Nodes : x # n /\ n \in Below(x) => Mem(x)' = Mem(x)
    BY <1>2, <1>5, BelowFacts
  <2>2. CurIdx(n, Mem(n)') = i
    BY <1>5
  <2> QED
    BY <1>1, <1>3, <2>1, <2>2, Push
<1>9. ret' \notin Completed /\ Returned'
  BY <1>8 DEF Returned, Completed, Returning, None
<1>10. NodeInv(n)'
  <2> DEFINE L == LiveIdx(n) \ Index(n, H)
             C == DoneIdx(n) \ Index(n, H)
  <2>1. LiveIdx(n)' \subseteq L /\ DoneIdx(n)' \subseteq C
    <3>1. \A x \in Below(n) : x # n => ~Locked(x)
      BY <1>2, TreeFacts, BelowFacts
    <3>2. n \in DOMAIN mem => m \in MemType(n)
      OBVIOUS
    <3> QED
      BY <1>1, <1>2, <1>3, <3>1, <3>2, LeavesLive
  <2>2. NodeOK(n, s, m, TRUE, L, C, FALSE)
    OBVIOUS
  <2> HIDE DEF L, C
  <2>3. NodeOK(n, s, m, TRUE, LiveIdx(n)', DoneIdx(n)', FALSE)
    BY <2>1, <2>2, NodeOKMono
  <2>4. n \in Below(n)
    BY <1>2, TreeFacts
  <2> QED
    BY <1>2, <1>5, <1>8, <1>9, <2>3, <2>4, NodeInvIs
<1>11. ASSUME n \in DOMAIN timer PROVE TimerInv(n)'
  <2>1. PICK late \in BOOLEAN : n \in over <=> late
    BY Zenon
  <2>2. (n \in over) = late
    BY <2>1
  <2>3. TimerOK(n, s, m, timer[n], stale[n], late)
    BY <1>11, <2>2
  <2>4. n \in DOMAIN mem /\ mem'[n] = m
    BY <1>1, <1>5, <1>11, TypeTimers DEF Timers, Mem
  <2> QED
    BY <1>5, <1>6, <1>7, <1>11, <2>1, <2>3, <2>4, TimerInvIs
<1> QED
  <2>1. \A x \in Nodes : x # n => (Locked(x)' <=> n \in Below(x))
    BY <1>8
  <2>2. \A x \in DOMAIN timer : x # n =>
            IF x \in Halted(H) THEN timer'[x] = "off"
            ELSE timer'[x] = timer[x] /\ stale'[x] = stale[x] /\ (x \in over <=> x \in over')
    BY <1>6
  <2>3. ret' \in Results \cup {None} /\ s \in Statuses \cup {"SKIPPED"}
    BY <1>8
  <2>4. n \in DOMAIN mem => m \in MemType(n)
    OBVIOUS
  <2> QED
    BY <1>2, <1>3, <1>6, <1>8, <1>9, <1>10, <1>11, <2>1, <2>2, <2>3, <2>4, Together

\* tick() of n is over, and its parent goes on.
LEMMA Over ==
  ASSUME IInv, tree' = tree, NEW n, Inside(n), NEW s \in Results, NEW m, NEW H,
         Leaves(n, s, m, H), Exits(s),
         value' \in Values \cup {None}, wake' \in BOOLEAN,
         \/ H \subseteq ChildSet(n)
         \/ H = {n} /\ s = "SKIPPED" /\ ~Locked(n) /\ status[n] = "RUNNING",
         n \in DOMAIN mem => m \in MemType(n),
         NodeOK(n, status'[n], Mem(n)', FALSE, LiveIdx(n)', DoneIdx(n)', FALSE),
         s \in Returning => ~Live(n)',
         Timers', DOMAIN timer' = DOMAIN timer, n \in DOMAIN timer => TimerInv(n)',
         \A x \in DOMAIN timer : x # n =>
            IF x \in Halted(H) THEN timer'[x] = "off"
            ELSE timer'[x] = timer[x] /\ stale'[x] = stale[x] /\ (x \in over <=> x \in over')
  PROVE  IInv'
<1>1. TypeOK /\ TreeInv /\ \A x \in DOMAIN timer : TimerInv(x)
  BY DEF IInv, Inside
<1>2. n \in Nodes /\ tree \in DOMAIN Forest
  BY <1>1, OnPath DEF TypeOK
<1>3. stack' = Front(stack) /\ ret' = s
  BY DEF Exits
<1>4. s \in Statuses \cup {"SKIPPED"} /\ s # None
  BY DEF Statuses, Completed, Results, None
<1>5. /\ Halted(H) \subseteq Below(n)
      /\ \A x \in Nodes : x # n /\ x \notin Halted(H) => Mem(x)' = Mem(x)
      /\ s # "SKIPPED" => status'[n] = s
  BY <1>1, <1>2, <1>4, LeavesFrame
<1>6. \A x \in Nodes : x # n /\ n \in Below(x) => Mem(x)' = Mem(x)
  BY <1>2, <1>5, BelowFacts
<1>7. /\ stack' \in Seq(Nodes) /\ Path'
      /\ \A x \in Nodes : Locked(x)' <=> n \in Below(x) /\ x # n
      /\ \A x \in Nodes : Inside(x)' <=> n \in ChildSet(x)
      /\ (IF stack = <<>> THEN Root ELSE Cur(Last(stack)))' = n
  BY <1>1, <1>3, <1>4, <1>6, Pop
<1>8. Returned'
  <2>1. ret' \in Completed => status'[n] = ret'
    BY <1>3, <1>5 DEF Completed
  <2>2. ret' \in Returning => ~Live(n)'
    BY <1>3
  <2>3. Completed' = Completed /\ Returning' = Returning
    BY DEF Completed, Returning
  <2> DEFINE r == IF stack = <<>> THEN Root ELSE Cur(Last(stack))
  <2>4. r' = n
    BY <1>7
  <2>5. Returned <=> /\ ret \in Completed => status[r] = ret
                     /\ ret \in Returning => ~Live(r)
    BY DEF Returned
  <2>6. Returned' <=> /\ ret' \in Completed' => status'[r'] = ret'
                      /\ ret' \in Returning' => ~Live(r)'
    BY DEF Returned
  <2> HIDE DEF r
  <2> QED
    BY <2>1, <2>2, <2>3, <2>4, <2>6
<1>9. ~Inside(n)'
  BY <1>2, <1>7, BelowFacts, TreeFacts
<1>10. NodeInv(n)'
  BY <1>2, <1>7, <1>9, NodeInvIs
<1>11. \A x \in Nodes : x # n => (Locked(x)' <=> n \in Below(x))
  BY <1>7
<1>12. \A x \in Nodes : x # n /\ Inside(x)' /\ ret' \in Completed => n \in Below(x)
  BY <1>2, <1>7, BelowFacts
<1>13. s \in Completed /\ status[n] \notin Completed =>
           \A x \in Nodes : n \in ChildSet(x) => Inside(x)' /\ ret' \in Completed
  BY <1>3, <1>7
<1>14. ret' \in Results \cup {None}
  BY <1>3
<1> QED
  BY <1>2, <1>4, <1>7, <1>8, <1>10, <1>11, <1>12, <1>13, <1>14, Together

\* tick() of n returns s, and has halted children.
LEMMA LeavesOver ==
  ASSUME IInv, tree' = tree, NEW n, Inside(n), NEW s \in Results, NEW m, NEW H,
         Leaves(n, s, m, H), Exits(s), value' \in Values \cup {None}, wake' \in BOOLEAN,
         H \subseteq ChildSet(n), IF n \in DOMAIN mem THEN m \in MemType(n) ELSE m = Blank,
         NodeOK(n, IF s = "SKIPPED" THEN status[n] ELSE s, m, FALSE,
                LiveIdx(n) \ Index(n, H), DoneIdx(n) \ Index(n, H), FALSE),
         s = "SKIPPED" => /\ LiveIdx(n) \subseteq Index(n, H)
                          /\ Children(n) = <<>> => status[n] # "RUNNING",
         Timers', DOMAIN timer' = DOMAIN timer, n \in DOMAIN timer => TimerInv(n)',
         \A x \in DOMAIN timer : x # n =>
            IF x \in Halted(H) THEN timer'[x] = "off"
            ELSE timer'[x] = timer[x] /\ stale'[x] = stale[x] /\ (x \in over <=> x \in over')
  PROVE  IInv'
<1> DEFINE L == LiveIdx(n) \ Index(n, H)
           C == DoneIdx(n) \ Index(n, H)
           s1 == IF s = "SKIPPED" THEN status[n] ELSE s
<1>1. TypeOK /\ TreeInv
  BY DEF IInv, Inside
<1>2. n \in Nodes /\ tree \in DOMAIN Forest
      /\ \A x \in Nodes : Locked(x) <=> n \in Below(x) /\ (x = n => ret # None)
  BY <1>1, OnPath DEF TypeOK
<1>3. s \in Statuses \cup {"SKIPPED"}
  BY DEF Statuses, Completed, Results
<1>4. n \in DOMAIN mem => m \in MemType(n)
  OBVIOUS
<1>5. n \notin ChildSet(n)
  BY <1>2, TreeFacts, BelowFacts
<1>6. Mem(n)' = m /\ status'[n] = s1
  BY <1>1, <1>2, <1>3, <1>4, <1>5, LeavesFrame
<1>7. LiveIdx(n)' \subseteq L /\ DoneIdx(n)' \subseteq C
  <2>1. \A x \in Below(n) : x # n => ~Locked(x)
    BY <1>2, TreeFacts, BelowFacts
  <2> QED
    BY <1>1, <1>2, <1>3, <1>4, <2>1, LeavesLive
<1>8. NodeOK(n, s1, m, FALSE, L, C, FALSE)
  OBVIOUS
<1>9. s \in Returning => L = {} /\ (Children(n) = <<>> => s1 # "RUNNING")
  <2>1. CASE s = "SKIPPED"
    BY <2>1
  <2>2. CASE s # "SKIPPED"
    BY <1>8, <2>2 DEF Returning, NodeOK
  <2> QED
    BY <2>1, <2>2
<1> HIDE DEF L, C, s1
<1>10. NodeOK(n, status'[n], Mem(n)', FALSE, LiveIdx(n)', DoneIdx(n)', FALSE)
  <2>1. NodeOK(n, s1, m, FALSE, LiveIdx(n)', DoneIdx(n)', FALSE)
    BY <1>7, <1>8, NodeOKMono
  <2> QED
    BY <1>6, <2>1
<1>11. s \in Returning => ~Live(n)'
  <2> SUFFICES ASSUME s \in Returning, Live(n)' PROVE FALSE
    OBVIOUS
  <2>1. PICK l \in Below(n) : Children(l) = <<>> /\ status'[l] = "RUNNING"
    BY SameTree DEF Live
  <2>2. l # n
    BY <1>6, <1>9, <2>1
  <2>3. PICK i \in DOMAIN Children(n) : l \in Below(Child(n, i))
    BY <1>2, <2>1, <2>2, BelowFacts
  <2>4. Live(Child(n, i))'
    BY <2>1, <2>3, SameTree DEF Live
  <2>5. i \in LiveIdx(n)'
    BY <2>4, SameTree DEF LiveIdx
  <2> QED
    BY <1>7, <1>9, <2>5
<1> QED
  BY <1>4, <1>10, <1>11, Over

\* The same for a node that has no timer, or leaves it alone.
LEMMA CancelsOver ==
  ASSUME IInv, tree' = tree, NEW n, Inside(n), NEW s \in Results, NEW m, NEW H,
         Leaves(n, s, m, H), Cancels(Halted(H)), Exits(s),
         value' \in Values \cup {None}, wake' \in BOOLEAN,
         H \subseteq ChildSet(n), IF n \in DOMAIN mem THEN m \in MemType(n) ELSE m = Blank,
         NodeOK(n, IF s = "SKIPPED" THEN status[n] ELSE s, m, FALSE,
                LiveIdx(n) \ Index(n, H), DoneIdx(n) \ Index(n, H), FALSE),
         s = "SKIPPED" => /\ LiveIdx(n) \subseteq Index(n, H)
                          /\ Children(n) = <<>> => status[n] # "RUNNING",
         n \in DOMAIN timer => TimerOK(n, IF s = "SKIPPED" THEN status[n] ELSE s, m,
                                       timer[n], stale[n], n \in over)
  PROVE  IInv'
<1> DEFINE s1 == IF s = "SKIPPED" THEN status[n] ELSE s
<1>1. TypeOK /\ TreeInv
  BY DEF IInv, Inside
<1>2. n \in Nodes /\ tree \in DOMAIN Forest
  BY <1>1, OnPath DEF TypeOK
<1>3. s \in Statuses \cup {"SKIPPED"}
  BY DEF Statuses, Completed, Results
<1>4. n \in DOMAIN mem => m \in MemType(n)
  OBVIOUS
<1>5. n \notin ChildSet(n)
  BY <1>2, TreeFacts, BelowFacts
<1>6. /\ Mem(n)' = m /\ status'[n] = s1 /\ DOMAIN mem' = DOMAIN mem /\ n \notin Halted(H)
  BY <1>1, <1>2, <1>3, <1>4, <1>5, LeavesFrame
<1>7. /\ Timers' /\ DOMAIN timer' = DOMAIN timer /\ over' = over
      /\ \A x \in DOMAIN timer :
              IF x \in Halted(H) THEN timer'[x] = "off"
              ELSE timer'[x] = timer[x] /\ stale'[x] = stale[x]
  BY <1>1, <1>6, CancelsHalted
<1>8. ASSUME n \in DOMAIN timer PROVE TimerInv(n)'
  <2>1. PICK late \in BOOLEAN : n \in over <=> late
    BY Zenon
  <2>2. (n \in over) = late
    BY <2>1
  <2>3. TimerOK(n, s1, m, timer[n], stale[n], late)
    BY <1>8, <2>2
  <2>4. n \in DOMAIN mem /\ mem'[n] = m
    BY <1>1, <1>6, <1>8, TypeTimers DEF Timers, Mem
  <2> HIDE DEF s1
  <2> QED
    BY <1>6, <1>7, <1>8, <2>1, <2>3, <2>4, TimerInvIs
<1>9. \A x \in DOMAIN timer : x # n =>
            IF x \in Halted(H) THEN timer'[x] = "off"
            ELSE timer'[x] = timer[x] /\ stale'[x] = stale[x] /\ (x \in over <=> x \in over')
  BY <1>7
<1> HIDE DEF s1
<1> QED
  BY <1>7, <1>8, <1>9, LeavesOver

\* Two member records with the same members are the same.
LEMMA SameMembers ==
  ASSUME NEW n, NEW a \in MemType(n), NEW b \in MemType(n),
         a.idx = b.idx, a.skips = b.skips, a.count = b.count, a.done = b.done,
         a.on = b.on, a.hit = b.hit, a.fresh = b.fresh
  PROVE  a = b
BY DEF MemType

\* tick() of n returns s; Return() clears fresh.
LEMMA ReturnStep ==
  ASSUME IInv, tree' = tree, NEW n, Inside(n), NEW s \in Results, NEW m, NEW H,
         Return(n, s, m, H), value' \in Values \cup {None}, wake' \in BOOLEAN,
         H \subseteq ChildSet(n), IF n \in DOMAIN mem THEN m \in MemType(n) ELSE m = Blank,
         NodeOK(n, IF s = "SKIPPED" THEN status[n] ELSE s, [m EXCEPT !.fresh = FALSE], FALSE,
                LiveIdx(n) \ Index(n, H), DoneIdx(n) \ Index(n, H), FALSE),
         s = "SKIPPED" => /\ LiveIdx(n) \subseteq Index(n, H)
                          /\ Children(n) = <<>> => status[n] # "RUNNING",
         n \in DOMAIN timer => TimerOK(n, IF s = "SKIPPED" THEN status[n] ELSE s,
                                       [m EXCEPT !.fresh = FALSE],
                                       timer[n], stale[n], n \in over)
  PROVE  IInv'
<1> DEFINE m1 == [m EXCEPT !.fresh = FALSE]
<1>1. Leaves(n, s, m1, H) /\ Cancels(Halted(H)) /\ Exits(s)
  BY Zenon DEF Return
<1>2. IF n \in DOMAIN mem THEN m1 \in MemType(n) ELSE m1 = Blank
  <2>1. ASSUME m \in MemType(n) PROVE m1 \in MemType(n)
    BY <2>1 DEF MemType
  <2>2. ASSUME m = Blank PROVE m1 = Blank
    <3>1. Blank \in MemType(n) /\ m1 \in MemType(n)
      BY <2>2 DEF Blank, MemType
    <3>2. /\ m1.idx = Blank.idx /\ m1.skips = Blank.skips /\ m1.count = Blank.count
          /\ m1.done = Blank.done /\ m1.on = Blank.on /\ m1.hit = Blank.hit
          /\ m1.fresh = Blank.fresh
      BY <2>2 DEF Blank
    <3> QED
      BY <3>1, <3>2, SameMembers
  <2> QED
    BY <2>1, <2>2
<1> HIDE DEF m1
<1>3. /\ NodeOK(n, IF s = "SKIPPED" THEN status[n] ELSE s, m1, FALSE,
                LiveIdx(n) \ Index(n, H), DoneIdx(n) \ Index(n, H), FALSE)
      /\ n \in DOMAIN timer => TimerOK(n, IF s = "SKIPPED" THEN status[n] ELSE s,
                                       m1, timer[n], stale[n], n \in over)
  BY DEF m1
<1> QED
  BY <1>1, <1>2, <1>3, CancelsOver

\* The invariant, seen from the node that is ticked.
LEMMA Here ==
  ASSUME IInv, NEW n, Inside(n)
  PROVE  /\ TypeOK /\ TreeInv /\ n \in Nodes /\ tree \in DOMAIN Forest
         /\ ret \in Results \cup {None}
         /\ (n \in DOMAIN mem <=> Kind(n) \in WithMem) /\ (n \in DOMAIN timer <=> Kind(n) \in Timed)
         /\ Mem(n) \in MemType(n) /\ (n \in DOMAIN mem => Mem(n) = mem[n])
         /\ (n \notin DOMAIN mem => Mem(n) = Blank)
         /\ status[n] \in Statuses
         /\ ret = None => NodeOK(n, status[n], Mem(n), FALSE, LiveIdx(n), DoneIdx(n), FALSE)
         /\ ret # None =>
              /\ CurIdx(n, Mem(n)) \in DOMAIN Children(n)
              /\ ret \in Completed
                   => /\ NodeOK(n, status[n], Mem(n), TRUE, LiveIdx(n), DoneIdx(n), TRUE)
                      /\ status[Cur(n)] = ret
              /\ ret \notin Completed
                   => NodeOK(n, status[n], Mem(n), TRUE, LiveIdx(n), DoneIdx(n), FALSE)
              /\ ret \in Returning => CurIdx(n, Mem(n)) \notin LiveIdx(n)
         /\ LiveIdx(n) \subseteq DOMAIN Children(n) /\ DoneIdx(n) \subseteq DOMAIN Children(n)
<1>1. TypeOK /\ TreeInv /\ ret # "EXCEPTION"
  BY DEF IInv, Inside
<1>2. n \in Nodes /\ n \in Below(n) /\ tree \in DOMAIN Forest
  BY <1>1, OnPath, TreeFacts DEF TypeOK
<1>3. Locked(n) <=> ret # None
  BY <1>1, <1>2, OnPath
<1>4. ret = None => NodeOK(n, status[n], Mem(n), FALSE, LiveIdx(n), DoneIdx(n), FALSE)
  <2>1. None \notin Completed
    BY DEF None, Completed
  <2> QED
    BY <1>1, <1>2, <1>3, <2>1, NodeInvIs DEF TreeInv
<1>5. ASSUME ret # None
      PROVE  /\ CurIdx(n, Mem(n)) \in DOMAIN Children(n)
             /\ ret \in Completed
                  => /\ NodeOK(n, status[n], Mem(n), TRUE, LiveIdx(n), DoneIdx(n), TRUE)
                     /\ status[Cur(n)] = ret
             /\ ret \notin Completed
                  => NodeOK(n, status[n], Mem(n), TRUE, LiveIdx(n), DoneIdx(n), FALSE)
             /\ ret \in Returning => CurIdx(n, Mem(n)) \notin LiveIdx(n)
  <2>1. CurIdx(n, Mem(n)) \in DOMAIN Children(n)
    BY <1>1, <1>2, <1>3, <1>5, OnPath
  <2>2. ret \in Completed => NodeOK(n, status[n], Mem(n), TRUE, LiveIdx(n), DoneIdx(n), TRUE)
    BY <1>1, <1>2, <1>3, <1>5, NodeInvIs DEF TreeInv
  <2>3. ret \notin Completed
          => NodeOK(n, status[n], Mem(n), TRUE, LiveIdx(n), DoneIdx(n), FALSE)
    BY <1>1, <1>2, <1>3, <1>5, NodeInvIs DEF TreeInv
  <2>4. /\ ret \in Completed => status[Cur(n)] = ret
        /\ ret \in Returning => ~Live(Cur(n))
    BY <1>1 DEF TreeInv, Returned, Inside
  <2> QED
    BY <2>1, <2>2, <2>3, <2>4 DEF LiveIdx, Cur
<1>6. /\ (n \in DOMAIN mem <=> Kind(n) \in WithMem) /\ (n \in DOMAIN timer <=> Kind(n) \in Timed)
      /\ Mem(n) \in MemType(n) /\ (n \in DOMAIN mem => Mem(n) = mem[n])
      /\ (n \notin DOMAIN mem => Mem(n) = Blank)
  BY <1>1, <1>2, MemFacts, TypeTimers DEF Timers, Mem
<1>7. ret \in Results \cup {None} /\ status[n] \in Statuses
  BY <1>1, <1>2 DEF TypeOK
<1>8. LiveIdx(n) \subseteq DOMAIN Children(n) /\ DoneIdx(n) \subseteq DOMAIN Children(n)
  BY DEF LiveIdx, DoneIdx
<1> QED
  BY <1>1, <1>2, <1>4, <1>5, <1>6, <1>7, <1>8

\* The places of the children that are halted.
LEMMA IndexFacts ==
  ASSUME tree \in DOMAIN Forest, NEW n \in Nodes
  PROVE  /\ Index(n, {}) = {} /\ Index(n, ChildSet(n)) = DOMAIN Children(n)
         /\ \A i \in DOMAIN Children(n) :
              /\ Index(n, {Child(n, i)}) = {i}
              /\ Index(n, ChildSet(n) \ {Child(n, i)}) = DOMAIN Children(n) \ {i}
         /\ \A a \in Int : \A j \in Index(n, {Child(n, i) : i \in a .. N(n)}) : j >= a
         /\ \A a \in Int : \A j \in DOMAIN Children(n) :
              j >= a => j \in Index(n, {Child(n, i) : i \in a .. N(n)})
         /\ \A a \in Nat \ {0} : {Child(n, i) : i \in a .. N(n)} \subseteq ChildSet(n)
<1>1. DOMAIN Children(n) = 1 .. N(n) /\ N(n) \in Nat
  BY ArityFacts
<1>2. \A i \in DOMAIN Children(n) : Child(n, i) \in ChildSet(n)
  BY TreeFacts
<1>3. \A i, j \in DOMAIN Children(n) : Child(n, i) = Child(n, j) => i = j
  BY TreeFacts, BelowFacts
<1> QED
  BY <1>1, <1>2, <1>3 DEF Index

\* tick() of n goes on to a child, and halts none.
LEMMA CallNone ==
  ASSUME IInv, tree' = tree, NEW n, Inside(n), NEW s \in Statuses, NEW m,
         NEW i \in DOMAIN Children(n), Call(n, s, m, {}, i),
         value' \in Values \cup {None}, wake' \in BOOLEAN,
         IF n \in DOMAIN mem THEN m \in MemType(n) ELSE m = Blank, CurIdx(n, m) = i,
         s \in Completed => status[n] \in Completed,
         NodeOK(n, s, m, TRUE, LiveIdx(n), DoneIdx(n), FALSE),
         n \in DOMAIN timer => TimerOK(n, s, m, timer[n], stale[n], n \in over)
  PROVE  IInv'
<1> DEFINE H == {}
<1>1. n \in Nodes /\ tree \in DOMAIN Forest
  BY Here
<1>2. LiveIdx(n) = LiveIdx(n) \ Index(n, H) /\ DoneIdx(n) = DoneIdx(n) \ Index(n, H)
  BY <1>1, IndexFacts
<1>3. H \subseteq ChildSet(n) /\ Call(n, s, m, H, i)
  OBVIOUS
<1> HIDE DEF H
<1>4. NodeOK(n, s, m, TRUE, LiveIdx(n) \ Index(n, H), DoneIdx(n) \ Index(n, H), FALSE)
  BY <1>2
<1> QED
  BY <1>3, <1>4, CallStep

\* tick() of n returns, and has halted no child.
LEMMA ReturnNone ==
  ASSUME IInv, tree' = tree, NEW n, Inside(n), NEW s \in Results, NEW m,
         Return(n, s, m, {}), value' \in Values \cup {None}, wake' \in BOOLEAN,
         IF n \in DOMAIN mem THEN m \in MemType(n) ELSE m = Blank,
         NodeOK(n, IF s = "SKIPPED" THEN status[n] ELSE s, [m EXCEPT !.fresh = FALSE], FALSE,
                LiveIdx(n), DoneIdx(n), FALSE),
         s = "SKIPPED" => LiveIdx(n) = {} /\ (Children(n) = <<>> => status[n] # "RUNNING"),
         n \in DOMAIN timer => TimerOK(n, IF s = "SKIPPED" THEN status[n] ELSE s,
                                       [m EXCEPT !.fresh = FALSE],
                                       timer[n], stale[n], n \in over)
  PROVE  IInv'
<1> DEFINE H  == {}
           m1 == [m EXCEPT !.fresh = FALSE]
           s1 == IF s = "SKIPPED" THEN status[n] ELSE s
<1>1. n \in Nodes /\ tree \in DOMAIN Forest
  BY Here
<1>2. LiveIdx(n) = LiveIdx(n) \ Index(n, H) /\ DoneIdx(n) = DoneIdx(n) \ Index(n, H)
  BY <1>1, IndexFacts
<1>3. /\ H \subseteq ChildSet(n) /\ Return(n, s, m, H)
      /\ s = "SKIPPED" => LiveIdx(n) \subseteq Index(n, H)
      /\ NodeOK(n, s1, m1, FALSE, LiveIdx(n), DoneIdx(n), FALSE)
  OBVIOUS
<1> HIDE DEF H, m1, s1
<1>4. NodeOK(n, s1, m1, FALSE, LiveIdx(n) \ Index(n, H), DoneIdx(n) \ Index(n, H), FALSE)
  BY <1>2, <1>3
<1> QED
  BY <1>3, <1>4, ReturnStep DEF s1, m1

\* tick() of n returns, and has halted each child.
LEMMA ReturnAll ==
  ASSUME IInv, tree' = tree, NEW n, Inside(n), NEW s \in Results, NEW m,
         Return(n, s, m, ChildSet(n)), value' \in Values \cup {None}, wake' \in BOOLEAN,
         IF n \in DOMAIN mem THEN m \in MemType(n) ELSE m = Blank,
         NodeOK(n, IF s = "SKIPPED" THEN status[n] ELSE s, [m EXCEPT !.fresh = FALSE], FALSE,
                {}, {}, FALSE),
         s = "SKIPPED" /\ Children(n) = <<>> => status[n] # "RUNNING",
         n \in DOMAIN timer => TimerOK(n, IF s = "SKIPPED" THEN status[n] ELSE s,
                                       [m EXCEPT !.fresh = FALSE],
                                       timer[n], stale[n], n \in over)
  PROVE  IInv'
<1> DEFINE m1 == [m EXCEPT !.fresh = FALSE]
           s1 == IF s = "SKIPPED" THEN status[n] ELSE s
           H  == ChildSet(n)
<1>1. n \in Nodes /\ tree \in DOMAIN Forest
      /\ LiveIdx(n) \subseteq DOMAIN Children(n) /\ DoneIdx(n) \subseteq DOMAIN Children(n)
  BY Here
<1>2. LiveIdx(n) \ Index(n, H) = {} /\ DoneIdx(n) \ Index(n, H) = {}
  BY <1>1, IndexFacts
<1>3. /\ NodeOK(n, s1, m1, FALSE, {}, {}, FALSE) /\ Return(n, s, m, H) /\ H \subseteq ChildSet(n)
      /\ LiveIdx(n) \subseteq Index(n, H)
  BY <1>2
<1> HIDE DEF m1, s1, H
<1>4. NodeOK(n, s1, m1, FALSE, LiveIdx(n) \ Index(n, H), DoneIdx(n) \ Index(n, H), FALSE)
  BY <1>2, <1>3
<1> QED
  BY <1>3, <1>4, ReturnStep DEF s1, m1

-----------------------------------------------------------------------------
(* Control nodes                                                           *)

\* Sequence and Fallback, and their relatives.
LEMMA OrderedKeeps ==
  ASSUME IInv, NEW n, Inside(n), OrderedStep(n)
  PROVE  IInv'
<1> DEFINE m == mem[n]
           L == LiveIdx(n)
           C == DoneIdx(n)
<1>1. /\ n \in Nodes /\ tree \in DOMAIN Forest /\ ret \in Results \cup {None}
      /\ status[n] \in Statuses /\ L \subseteq DOMAIN Children(n) /\ C \subseteq DOMAIN Children(n)
      /\ TypeOK
  BY Here
<1>2. Kind(n) \in Ordered /\ tree' = tree /\ value' = value /\ wake' \in {wake, TRUE}
  BY DEF OrderedStep, OrderedTick, OrderedRunning, OrderedStop, OrderedPass, OrderedSkip,
         OrderedEnd, OrderedCaught, Entered, Back
<1>3. value' \in Values \cup {None} /\ wake' \in BOOLEAN
  BY <1>1, <1>2 DEF TypeOK
<1>4. n \in DOMAIN mem /\ n \notin DOMAIN timer /\ Mem(n) = m /\ m \in MemType(n)
  BY <1>2, Here DEF Ordered, WithMem, Timed, Sequences_, Fallbacks
<1>5. /\ DOMAIN Children(n) = 1 .. N(n) /\ N(n) \in Nat /\ N(n) >= 1 /\ Children(n) # <<>>
      /\ Kind(n) = "TryCatch" => N(n) >= 2
  <2>1. Kind(n) \in Controls
    BY <1>2 DEF Controls
  <2> QED
    BY <1>1, <2>1, ArityFacts DEF N
<1>6. ASSUME NEW s, NEW m2, NEW locked \in BOOLEAN, NEW L2, NEW C2, NEW back \in BOOLEAN
      PROVE  NodeOK(n, s, m2, locked, L2, C2, back) <=>
               /\ ~locked /\ s # "RUNNING" => L2 = {}
               /\ locked => CurIdx(n, m2) \in DOMAIN Children(n)
               /\ OrderedOK(n, s, m2, locked, L2, C2)
  BY <1>2 DEF NodeOK, Ordered, Sequences_, Fallbacks, Reactives, Parallels, Decorators, Plain,
              Loops, Clocked
<1>7. \A m2 : CurIdx(n, m2) = IF Kind(n) = "TryCatch" /\ m2.on THEN N(n) ELSE m2.idx
  BY <1>2 DEF CurIdx, Controls
<1>8. /\ Index(n, {}) = {} /\ Index(n, ChildSet(n)) = DOMAIN Children(n)
      /\ \A a \in Int : \A j \in DOMAIN Children(n) :
              j >= a => j \in Index(n, {Child(n, i) : i \in a .. N(n)})
      /\ \A a \in Nat \ {0} : {Child(n, i) : i \in a .. N(n)} \subseteq ChildSet(n)
  BY <1>1, IndexFacts
<1>9. m.idx \in 1 .. N(n) /\ m.skips \in Nat /\ m.on \in BOOLEAN /\ m.fresh \in BOOLEAN
  BY <1>4, <1>5 DEF MemType
<1>10. ASSUME ret # None
       PROVE  /\ OrderedOK(n, status[n], m, TRUE, L, C) /\ CurIdx(n, m) \in DOMAIN Children(n)
              /\ status[n] = "RUNNING"
              /\ ret \in Returning => L = {}
  <2>1. /\ CurIdx(n, m) \in DOMAIN Children(n)
        /\ NodeOK(n, status[n], m, TRUE, L, C, TRUE) \/ NodeOK(n, status[n], m, TRUE, L, C, FALSE)
        /\ ret \in Returning => CurIdx(n, m) \notin L
    BY <1>4, <1>10, Here
  <2>2. OrderedOK(n, status[n], m, TRUE, L, C)
    BY <1>6, <2>1
  <2> QED
    BY <2>1, <2>2 DEF OrderedOK
<1> HIDE DEF m, L, C
<1>11. ASSUME NEW m0 \in MemType(n), NEW i \in 1 .. N(n), CallNext(n, m0, i),
              m0.on => Kind(n) = "TryCatch" /\ i = N(n),
              L \subseteq {i}, C = {} \/ Kind(n) = "SequenceWithMemory" \/ status[n] = "RUNNING"
       PROVE  IInv'
  <2>1. PICK f \in BOOLEAN : Call(n, "RUNNING", [At(m0, i) EXCEPT !.fresh = f], {}, i)
    BY <1>11, Zenon DEF CallNext
  <2> DEFINE m1 == [At(m0, i) EXCEPT !.fresh = f]
  <2>2. m1 \in MemType(n) /\ m1.idx = i /\ m1.on = m0.on
    BY <1>5 DEF At, MemType
  <2>3. Call(n, "RUNNING", m1, {}, i)
    BY <2>1
  <2> HIDE DEF m1
  <2>4. CurIdx(n, m1) = i
    BY <1>7, <1>11, <2>2
  <2>5. OrderedOK(n, "RUNNING", m1, TRUE, L, C)
    BY <1>11, <2>2, <2>4 DEF OrderedOK
  <2>6. NodeOK(n, "RUNNING", m1, TRUE, L, C, FALSE)
    BY <1>5, <1>6, <2>4, <2>5
  <2>7. "RUNNING" \in Statuses /\ "RUNNING" \notin Completed /\ i \in DOMAIN Children(n)
    BY <1>5 DEF Statuses, Completed
  <2> QED
    BY <1>2, <1>3, <1>4, <2>2, <2>3, <2>4, <2>6, <2>7, CallNone DEF L, C
<1>12. ASSUME NEW s \in Results, NEW m0 \in MemType(n), NEW H \in SUBSET ChildSet(n),
              Return(n, s, m0, H), status[n] = "RUNNING", m0.on => Kind(n) = "TryCatch",
              IF s = "RUNNING" THEN L \subseteq {CurIdx(n, m0)} /\ H = {}
              ELSE /\ L \subseteq Index(n, H)
                   /\ s # "SKIPPED" /\ Kind(n) # "SequenceWithMemory"
                        => m0.idx = 1 /\ H = ChildSet(n)
       PROVE  IInv'
  <2> DEFINE m1 == [m0 EXCEPT !.fresh = FALSE]
             s1 == IF s = "SKIPPED" THEN status[n] ELSE s
  <2>1. m1 \in MemType(n) /\ m1.idx = m0.idx /\ m1.on = m0.on
    BY DEF MemType
  <2> HIDE DEF m1
  <2>2. CurIdx(n, m1) = CurIdx(n, m0)
    BY <1>7, <2>1
  <2>3. L \ Index(n, H) \subseteq {CurIdx(n, m1)} /\ (s # "RUNNING" => L \ Index(n, H) = {})
    BY <1>8, <1>12, <2>2
  <2>4. H = ChildSet(n) => C \ Index(n, H) = {}
    BY <1>1, <1>8
  <2>5. OrderedOK(n, s1, m1, FALSE, L \ Index(n, H), C \ Index(n, H))
    <3>1. CASE Kind(n) = "SequenceWithMemory"
      BY <1>12, <2>1, <2>3, <3>1 DEF OrderedOK
    <3>2. CASE Kind(n) # "SequenceWithMemory" /\ s # "RUNNING" /\ s # "SKIPPED"
      BY <1>12, <2>1, <2>3, <2>4, <3>2 DEF OrderedOK
    <3>3. CASE s = "RUNNING" \/ s = "SKIPPED"
      <4>1. s1 = "RUNNING"
        BY <1>12, <3>3
      <4> QED
        BY <1>12, <2>1, <2>3, <4>1 DEF OrderedOK
    <3> QED
      BY <3>1, <3>2, <3>3
  <2>6. s1 # "RUNNING" => L \ Index(n, H) = {}
    BY <2>3
  <2>7. NodeOK(n, s1, m1, FALSE, L \ Index(n, H), C \ Index(n, H), FALSE)
    <3> HIDE DEF s1
    <3> QED
      BY <1>6, <2>5, <2>6
  <2>8. s = "SKIPPED" => L \subseteq Index(n, H) /\ Children(n) # <<>>
    BY <1>5, <1>12
  <2> QED
    BY <1>2, <1>3, <1>4, <1>12, <2>7, <2>8, ReturnStep DEF L, C, m1
<1>13. "RUNNING" \in Results /\ Stop(n) \in {"SUCCESS", "FAILURE"} /\ Pass(n) \in {"SUCCESS", "FAILURE"}
       /\ Stop(n) \in Results /\ Pass(n) \in Results /\ {} \in SUBSET ChildSet(n)
       /\ {"FAILURE", "SKIPPED"} \subseteq Results
  BY DEF Results, Completed, Stop, Pass
<1>14. ret # None => OrderedOK(n, status[n], m, TRUE, L, C)
  BY <1>10
<1>15. CASE OrderedTick(n)
  <2> DEFINE m0 == IF status[n] # "IDLE" THEN m ELSE [m EXCEPT !.skips = 0, !.on = FALSE]
             i  == IF m0.on THEN N(n) ELSE m0.idx
  <2>1. CallNext(n, m0, i) /\ ret = None
    BY <1>15 DEF OrderedTick, Entered, m
  <2>2. NodeOK(n, status[n], m, FALSE, L, C, FALSE)
    BY <1>4, <2>1, Here DEF L, C
  <2>3. OrderedOK(n, status[n], m, FALSE, L, C) /\ (status[n] # "RUNNING" => L = {})
    BY <1>6, <2>2
  <2>4. m0 \in MemType(n) /\ m0.idx = m.idx /\ (m0.on => m.on) /\ (status[n] # "IDLE" => m0 = m)
    BY <1>4 DEF MemType
  <2> HIDE DEF m0
  <2>5. i \in 1 .. N(n)
    BY <1>5, <1>9, <2>4
  <2>6. m0.on => Kind(n) = "TryCatch" /\ i = N(n)
    BY <2>3, <2>4 DEF OrderedOK
  <2>7. L \subseteq {i}
    BY <1>7, <2>3, <2>4, <2>6 DEF OrderedOK
  <2>8. C = {} \/ Kind(n) = "SequenceWithMemory" \/ status[n] = "RUNNING"
    BY <2>3 DEF OrderedOK
  <2> QED
    BY <1>11, <2>1, <2>4, <2>5, <2>6, <2>7, <2>8
<1>16. CASE OrderedRunning(n)
  <2>1. Return(n, "RUNNING", m, {}) /\ ret # None
    BY <1>16 DEF OrderedRunning, Back, m
  <2> QED
    BY <1>4, <1>10, <1>12, <1>13, <2>1 DEF OrderedOK
<1>17. CASE OrderedStop(n)
  <2>1. /\ ret = Stop(n) /\ ret # None /\ ~m.on
        /\ CASE Kind(n) = "SequenceWithMemory" ->
                 Return(n, Stop(n), m, {Child(n, j) : j \in m.idx .. N(n)})
             [] Kind(n) = "TryCatch" ->
                 Call(n, "RUNNING", [At(m, 1) EXCEPT !.on = TRUE], ChildSet(n), N(n))
             [] OTHER ->
                 Return(n, Stop(n), At(m, 1), ChildSet(n))
    BY <1>17 DEF OrderedStop, Back, m
  <2>2. L = {} /\ status[n] = "RUNNING" /\ OrderedOK(n, status[n], m, TRUE, L, C)
    BY <1>10, <1>13, <2>1 DEF Returning
  <2>3. CASE Kind(n) = "SequenceWithMemory"
    <3>1. Return(n, Stop(n), m, {Child(n, j) : j \in m.idx .. N(n)})
      BY <2>1, <2>3
    <3>2. {Child(n, j) : j \in m.idx .. N(n)} \in SUBSET ChildSet(n)
      BY <1>8, <1>9
    <3>3. {} \subseteq Index(n, {Child(n, j) : j \in m.idx .. N(n)})
      OBVIOUS
    <3> QED
      BY <1>4, <1>12, <1>13, <2>1, <2>2, <2>3, <3>1, <3>2, <3>3
  <2>4. CASE Kind(n) = "TryCatch"
    <3> DEFINE m1 == [At(m, 1) EXCEPT !.on = TRUE]
    <3>1. Call(n, "RUNNING", m1, ChildSet(n), N(n))
      BY <2>1, <2>4
    <3>2. m1 \in MemType(n) /\ m1.on /\ m1.idx = 1
      BY <1>4 DEF At, MemType
    <3> HIDE DEF m1
    <3>3. CurIdx(n, m1) = N(n) /\ N(n) \in 1 .. N(n)
      BY <1>5, <1>7, <2>4, <3>2
    <3>4. OrderedOK(n, "RUNNING", m1, TRUE, L \ Index(n, ChildSet(n)), C \ Index(n, ChildSet(n)))
      BY <2>2, <2>4, <3>2 DEF OrderedOK
    <3>5. NodeOK(n, "RUNNING", m1, TRUE, L \ Index(n, ChildSet(n)), C \ Index(n, ChildSet(n)), FALSE)
      BY <1>5, <1>6, <3>3, <3>4
    <3>6. "RUNNING" \in Statuses /\ "RUNNING" \notin Completed
      BY DEF Statuses, Completed
    <3> QED
      BY <1>2, <1>3, <1>4, <1>5, <3>1, <3>2, <3>3, <3>5, <3>6, CallStep DEF L, C
  <2>5. CASE Kind(n) # "SequenceWithMemory" /\ Kind(n) # "TryCatch"
    <3>1. Return(n, Stop(n), At(m, 1), ChildSet(n))
      BY <2>1, <2>5
    <3>2. At(m, 1) \in MemType(n) /\ At(m, 1).idx = 1 /\ ~At(m, 1).on
      BY <1>4, <2>1 DEF At, MemType
    <3> QED
      BY <1>12, <1>13, <2>2, <3>1, <3>2
  <2> QED
    BY <2>3, <2>4, <2>5
<1>18. CASE OrderedPass(n)
  <2>1. /\ ret = Pass(n) /\ ret # None /\ ~m.on /\ m.idx < LastTry(n)
        /\ IF m.fresh THEN Return(n, "RUNNING", At(m, m.idx + 1), {})
           ELSE CallNext(n, m, m.idx + 1)
    BY <1>18 DEF OrderedPass, Back, m
  <2>2. L = {} /\ status[n] = "RUNNING"
    BY <1>10, <1>13, <2>1 DEF Returning
  <2>3. m.idx + 1 \in 1 .. N(n)
    BY <1>5, <1>9, <2>1 DEF LastTry
  <2>4. At(m, m.idx + 1) \in MemType(n) /\ ~At(m, m.idx + 1).on
    BY <1>4, <1>5, <2>1, <2>3 DEF At, MemType
  <2> QED
    BY <1>4, <1>11, <1>12, <1>13, <2>1, <2>2, <2>3, <2>4
<1>19. CASE OrderedSkip(n)
  <2> DEFINE m0 == [m EXCEPT !.skips = @ + 1]
  <2>1. ret = "SKIPPED" /\ ret # None /\ ~m.on /\ m.idx < LastTry(n) /\ CallNext(n, m0, m.idx + 1)
    BY <1>19 DEF OrderedSkip, Back, m
  <2>2. L = {} /\ status[n] = "RUNNING"
    BY <1>10, <2>1 DEF Returning
  <2>3. m.idx + 1 \in 1 .. N(n)
    BY <1>5, <1>9, <2>1 DEF LastTry
  <2>4. m0 \in MemType(n) /\ ~m0.on
    BY <1>4, <2>1 DEF MemType
  <2> HIDE DEF m0
  <2> QED
    BY <1>11, <2>1, <2>2, <2>3, <2>4
<1>20. CASE OrderedEnd(n)
  <2>1. /\ ret \in {Pass(n), "SKIPPED"} /\ ret # None
        /\ \E s \in {"SKIPPED", Pass(n)} : Return(n, s, Blank, ChildSet(n))
    <3>1. /\ ret \in {Pass(n), "SKIPPED"} /\ ret # None
          /\ LET skips == m.skips + (IF ret = "SKIPPED" THEN 1 ELSE 0)
             IN Return(n, IF skips = LastTry(n) THEN "SKIPPED" ELSE Pass(n), Blank, ChildSet(n))
      BY <1>20 DEF OrderedEnd, Back, m
    <3> QED
      BY <3>1
  <2>2. L = {} /\ status[n] = "RUNNING"
    BY <1>10, <1>13, <2>1 DEF Returning
  <2>3. Blank \in MemType(n) /\ ~Blank.on /\ Blank.idx = 1
    BY DEF Blank, MemType
  <2> QED
    BY <1>12, <1>13, <2>1, <2>2, <2>3
<1>21. CASE OrderedCaught(n)
  <2> DEFINE m0 == [At(m, 1) EXCEPT !.on = FALSE]
  <2>1. ret # "RUNNING" /\ ret # None /\ Return(n, "FAILURE", m0, ChildSet(n))
    BY <1>21 DEF OrderedCaught, Back, m
  <2>2. ret \in Returning
    BY <1>1, <2>1 DEF Returning, Results, Completed
  <2>3. L = {} /\ status[n] = "RUNNING"
    BY <1>10, <2>1, <2>2
  <2>4. m0 \in MemType(n) /\ ~m0.on /\ m0.idx = 1
    BY <1>4 DEF At, MemType
  <2> HIDE DEF m0
  <2> QED
    BY <1>12, <1>13, <2>1, <2>3, <2>4
<1> QED
  BY <1>15, <1>16, <1>17, <1>18, <1>19, <1>20, <1>21 DEF OrderedStep

\* The members as the constructor left them, and members without fresh.
LEMMA BlankFacts ==
  ASSUME NEW n
  PROVE  /\ Blank \in MemType(n) /\ [Blank EXCEPT !.fresh = FALSE] = Blank
         /\ Blank.idx = 1 /\ Blank.skips = 0 /\ Blank.count = 0 /\ Blank.done = {}
         /\ ~Blank.on /\ ~Blank.hit /\ ~Blank.fresh
         /\ \A m \in MemType(n) :
              /\ [m EXCEPT !.fresh = FALSE] \in MemType(n)
              /\ [m EXCEPT !.fresh = FALSE].idx = m.idx
              /\ [m EXCEPT !.fresh = FALSE].skips = m.skips
              /\ [m EXCEPT !.fresh = FALSE].count = m.count
              /\ [m EXCEPT !.fresh = FALSE].done = m.done
              /\ [m EXCEPT !.fresh = FALSE].on = m.on
              /\ [m EXCEPT !.fresh = FALSE].hit = m.hit
              /\ [m EXCEPT !.fresh = FALSE].fresh = FALSE
<1> DEFINE b == [Blank EXCEPT !.fresh = FALSE]
<1>1. Blank \in MemType(n) /\ b \in MemType(n)
  BY DEF Blank, MemType
<1>2. /\ b.idx = Blank.idx /\ b.skips = Blank.skips /\ b.count = Blank.count
      /\ b.done = Blank.done /\ b.on = Blank.on /\ b.hit = Blank.hit
      /\ b.fresh = Blank.fresh
  BY DEF Blank
<1>3. b = Blank
  BY <1>1, <1>2, SameMembers
<1>4. /\ Blank.idx = 1 /\ Blank.skips = 0 /\ Blank.count = 0 /\ Blank.done = {}
      /\ ~Blank.on /\ ~Blank.hit /\ ~Blank.fresh
  BY DEF Blank
<1>5. ASSUME NEW m \in MemType(n)
      PROVE  /\ [m EXCEPT !.fresh = FALSE] \in MemType(n)
             /\ [m EXCEPT !.fresh = FALSE].idx = m.idx
             /\ [m EXCEPT !.fresh = FALSE].skips = m.skips
             /\ [m EXCEPT !.fresh = FALSE].count = m.count
             /\ [m EXCEPT !.fresh = FALSE].done = m.done
             /\ [m EXCEPT !.fresh = FALSE].on = m.on
             /\ [m EXCEPT !.fresh = FALSE].hit = m.hit
             /\ [m EXCEPT !.fresh = FALSE].fresh = FALSE
  BY DEF MemType
<1> QED
  BY <1>1, <1>3, <1>4, <1>5

\* What holds at any node with children that is ticked.
LEMMA Ticked ==
  ASSUME IInv, NEW n, Inside(n), Kind(n) \in Controls \cup Decorators
  PROVE  /\ DOMAIN Children(n) = 1 .. N(n) /\ N(n) \in Nat /\ N(n) >= 1
         /\ Children(n) # <<>> /\ 1 \in DOMAIN Children(n)
         /\ value \in Values \cup {None} /\ wake \in BOOLEAN
         /\ Completed \subseteq Results /\ Completed \subseteq Statuses
         /\ Returning \subseteq Results /\ "RUNNING" \in Results /\ "RUNNING" \in Statuses
         /\ "RUNNING" \notin Completed /\ "SKIPPED" \notin Completed /\ None \notin Results
         /\ \A s \in Results : s # "RUNNING" => s \in Returning
<1>1. TypeOK /\ n \in Nodes /\ tree \in DOMAIN Forest
  BY Here
<1>2. DOMAIN Children(n) = 1 .. N(n) /\ N(n) \in Nat /\ N(n) >= 1
  BY <1>1, ArityFacts
<1>3. Children(n) # <<>> /\ 1 \in DOMAIN Children(n)
  BY <1>2 DEF N
<1>4. /\ Completed \subseteq Results /\ Completed \subseteq Statuses
      /\ Returning \subseteq Results /\ "RUNNING" \in Results /\ "RUNNING" \in Statuses
      /\ "RUNNING" \notin Completed /\ "SKIPPED" \notin Completed /\ None \notin Results
      /\ \A s \in Results : s # "RUNNING" => s \in Returning
  BY DEF Completed, Results, Statuses, Returning, None
<1> QED
  BY <1>1, <1>2, <1>3, <1>4 DEF TypeOK

\* ReactiveSequence and ReactiveFallback.
LEMMA ReactiveKeeps ==
  ASSUME IInv, NEW n, Inside(n), ReactiveStep(n)
  PROVE  IInv'
<1> DEFINE m == mem[n]
           L == LiveIdx(n)
           C == DoneIdx(n)
<1>1. /\ n \in Nodes /\ tree \in DOMAIN Forest /\ ret \in Results \cup {None}
      /\ status[n] \in Statuses /\ L \subseteq DOMAIN Children(n) /\ C \subseteq DOMAIN Children(n)
  BY Here
<1>2. Kind(n) \in Reactives /\ tree' = tree /\ value' = value /\ wake' = wake
  BY DEF ReactiveStep, ReactiveTick, ReactiveRunning, ReactiveStop, ReactiveNext, Entered, Back
<1>3. Kind(n) \in Controls
  BY <1>2 DEF Controls
<1>4. n \in DOMAIN mem /\ n \notin DOMAIN timer /\ Mem(n) = m /\ m \in MemType(n)
  BY <1>2, Here DEF WithMem, Timed, Reactives
<1>5. /\ DOMAIN Children(n) = 1 .. N(n) /\ N(n) \in Nat /\ N(n) >= 1 /\ Children(n) # <<>>
      /\ 1 \in DOMAIN Children(n)
      /\ value' \in Values \cup {None} /\ wake' \in BOOLEAN /\ "RUNNING" \in Results
      /\ "RUNNING" \in Statuses /\ "RUNNING" \notin Completed /\ "SKIPPED" \notin Completed
      /\ None \notin Results
  BY <1>2, <1>3, Ticked
<1>6. ASSUME NEW s, NEW m2, NEW locked \in BOOLEAN, NEW L2, NEW C2, NEW back \in BOOLEAN
      PROVE  NodeOK(n, s, m2, locked, L2, C2, back) <=>
               /\ ~locked /\ s # "RUNNING" => L2 = {}
               /\ locked => m2.idx \in DOMAIN Children(n)
               /\ ReactiveOK(n, s, m2, locked, L2, C2)
  BY <1>2, <1>3 DEF NodeOK, Ordered, Sequences_, Fallbacks, Reactives, Parallels, Decorators,
              Plain, Loops, Clocked, CurIdx
<1>7. \A m2 : CurIdx(n, m2) = m2.idx
  BY <1>2, <1>3 DEF CurIdx, Reactives
<1>8. Blank \in MemType(n) /\ [Blank EXCEPT !.fresh = FALSE] = Blank /\ Blank.idx = 1
  BY BlankFacts
<1>9. ASSUME ret # None PROVE m.idx \in 1 .. N(n) /\ status[n] = "RUNNING"
  <2>1. /\ CurIdx(n, m) \in DOMAIN Children(n)
        /\ NodeOK(n, status[n], m, TRUE, L, C, TRUE) \/ NodeOK(n, status[n], m, TRUE, L, C, FALSE)
    BY <1>4, <1>9, Here
  <2>2. ReactiveOK(n, status[n], m, TRUE, L, C)
    BY <1>6, <2>1
  <2> QED
    BY <1>5, <1>7, <2>1, <2>2 DEF ReactiveOK
<1> HIDE DEF m, L, C
<1>10. ASSUME NEW s \in Results, Return(n, s, Blank, ChildSet(n)), status[n] = "RUNNING"
       PROVE  IInv'
  <2>1. NodeOK(n, IF s = "SKIPPED" THEN status[n] ELSE s, Blank, FALSE, {}, {}, FALSE)
    BY <1>6 DEF ReactiveOK
  <2> QED
    BY <1>2, <1>4, <1>5, <1>8, <1>10, <2>1, ReturnAll
<1>11. CASE ReactiveTick(n)
  <2>1. Call(n, "RUNNING", Blank, {}, 1)
    BY <1>11 DEF ReactiveTick
  <2>2. NodeOK(n, "RUNNING", Blank, TRUE, L, C, FALSE)
    BY <1>5, <1>6, <1>8 DEF ReactiveOK
  <2> QED
    BY <1>2, <1>4, <1>5, <1>7, <1>8, <2>1, <2>2, CallNone DEF L, C
<1>12. CASE ReactiveRunning(n)
  <2> DEFINE H == ChildSet(n) \ {Child(n, m.idx)}
  <2>1. Return(n, "RUNNING", Blank, H) /\ ret # None
    BY <1>12 DEF ReactiveRunning, Back, m
  <2>2. Index(n, H) = DOMAIN Children(n) \ {m.idx}
    BY <1>1, <1>5, <1>9, <2>1, IndexFacts
  <2>3. H \subseteq ChildSet(n)
    OBVIOUS
  <2> HIDE DEF H
  <2>4. NodeOK(n, "RUNNING", Blank, FALSE, L \ Index(n, H), C \ Index(n, H), FALSE)
    BY <1>1, <1>6, <2>2 DEF ReactiveOK
  <2> QED
    BY <1>2, <1>4, <1>5, <1>8, <2>1, <2>3, <2>4, ReturnStep DEF L, C
<1>13. CASE ReactiveStop(n)
  <2>1. Return(n, Stop(n), Blank, ChildSet(n)) /\ ret # None
    BY <1>13 DEF ReactiveStop, Back
  <2>2. Stop(n) \in Results
    BY DEF Stop, Results, Completed
  <2> QED
    BY <1>9, <1>10, <2>1, <2>2
<1>14. CASE ReactiveNext(n)
  <2> DEFINE H == IF ret = "SKIPPED" THEN {Child(n, m.idx)} ELSE {}
             k == m.skips + (IF ret = "SKIPPED" THEN 1 ELSE 0)
             m1 == [At(m, m.idx + 1) EXCEPT !.skips = k]
  <2>1. /\ ret # None
        /\ IF m.idx < N(n) THEN Call(n, "RUNNING", m1, H, m.idx + 1)
           ELSE Return(n, IF k = N(n) THEN "SKIPPED" ELSE Pass(n), Blank, ChildSet(n))
    BY <1>14 DEF ReactiveNext, Back, m
  <2>2. CASE m.idx < N(n)
    <3>1. k \in Nat /\ m.idx + 1 \in 1 .. N(n)
      <4>1. m.skips \in Nat
        BY <1>4 DEF MemType
      <4> QED
        BY <1>5, <1>9, <2>1, <2>2, <4>1
    <3>2. m1 \in MemType(n) /\ m1.idx = m.idx + 1
      <4> HIDE DEF k
      <4> QED
        BY <1>4, <1>5, <3>1 DEF At, MemType
    <3>3. H \subseteq ChildSet(n)
      BY <1>1, <1>5, <1>9, <2>1, TreeFacts
    <3> HIDE DEF m1, H
    <3>4. NodeOK(n, "RUNNING", m1, TRUE, L \ Index(n, H), C \ Index(n, H), FALSE)
      <4>1. ReactiveOK(n, "RUNNING", m1, TRUE, L \ Index(n, H), C \ Index(n, H))
        BY DEF ReactiveOK
      <4> QED
        BY <1>5, <1>6, <3>1, <3>2, <4>1
    <3> QED
      BY <1>2, <1>4, <1>5, <1>7, <2>1, <2>2, <3>1, <3>2, <3>3, <3>4, CallStep DEF L, C
  <2>3. CASE ~(m.idx < N(n))
    <3>1. PICK s \in {"SKIPPED", Pass(n)} : Return(n, s, Blank, ChildSet(n))
      BY <2>1, <2>3
    <3>2. s \in Results
      BY <3>1 DEF Pass, Results, Completed
    <3> QED
      BY <1>9, <1>10, <2>1, <3>1, <3>2
  <2> QED
    BY <2>2, <2>3
<1> QED
  BY <1>11, <1>12, <1>13, <1>14 DEF ReactiveStep

\* First(S) is the least number of S.
LEMMA FirstIs ==
  ASSUME NEW S \in SUBSET Nat, S # {}
  PROVE  First(S) \in S /\ \A j \in S : First(S) <= j
<1> DEFINE R == OpToRel(<, Nat)
<1>1. IsWellFoundedOn(R, Nat)
  BY NatLessThanWellFounded
<1>2. \A x, y \in Nat : y < x => <<y, x>> \in R
  BY DEF OpToRel
<1> HIDE DEF R
<1>3. PICK x \in S : \A y \in S : ~ (<<y, x>> \in R)
  BY <1>1, WFMin
<1>4. ASSUME NEW y \in S PROVE x <= y
  <2>1. x \in Nat /\ y \in Nat /\ ~ (<<y, x>> \in R)
    BY <1>3
  <2>2. ~ (y < x)
    BY <1>2, <2>1
  <2> QED
    BY <2>1, <2>2
<1>5. \E i \in S : \A j \in S : i <= j
  BY <1>4
<1> QED
  BY <1>5 DEF First

\* The counters of a Parallel after the result of a child.
LEMMA CountedIs ==
  ASSUME NEW n, NEW m \in MemType(n), m.idx \in 1 .. Len(Children(n))
  PROVE  /\ Counted(m) \in MemType(n) /\ Counted(m).idx = m.idx
         /\ Counted(m).done = IF ret \in Completed THEN m.done \cup {m.idx} ELSE m.done
         /\ Counted(m).skips = IF ret = "SKIPPED" THEN m.skips + 1 ELSE m.skips
<1> DEFINE d == IF ret \in Completed THEN m.done \cup {m.idx} ELSE m.done
           c == IF ret = "FAILURE" THEN m.count + 1 ELSE m.count
           k == IF ret = "SKIPPED" THEN m.skips + 1 ELSE m.skips
<1>1. d \in SUBSET (1 .. Len(Children(n))) /\ c \in Nat /\ k \in Nat
  BY DEF MemType
<1>2. Counted(m) = [m EXCEPT !.done = d, !.count = c, !.skips = k]
  BY DEF Counted
<1> HIDE DEF d, c, k
<1>3. /\ Counted(m) \in MemType(n) /\ Counted(m).idx = m.idx
      /\ Counted(m).done = d /\ Counted(m).skips = k
  BY <1>1, <1>2 DEF MemType
<1> QED
  BY <1>3 DEF d, k

\* An exception leaves the tree: its timers go on.
LEMMA ThrowKeeps ==
  ASSUME IInv, tree' = tree, value' = value, wake' = wake, Throw
  PROVE  IInv'
<1>1. /\ stack' = <<>> /\ ret' = "EXCEPTION" /\ status' = status /\ mem' = mem
      /\ timer' = timer /\ stale' = stale /\ over' = over
  BY DEF Throw, timerVars
<1>2. TypeOK'
  <2>1. /\ Nodes' = Nodes /\ \A x : Kind(x)' = Kind(x) /\ MemType(x)' = MemType(x)
    BY SameTree
  <2>2. stack' \in Seq(Nodes')
    BY <1>1
  <2>3. {x \in Nodes : Kind(x) \in WithMem}' = {x \in Nodes : Kind(x) \in WithMem}
        /\ {x \in Nodes : Kind(x) \in Timed}' = {x \in Nodes : Kind(x) \in Timed}
    BY <2>1 DEF WithMem, Timed, Sequences_, Fallbacks, Reactives, Parallels, Branches
  <2> QED
    BY <1>1, <2>1, <2>2, <2>3 DEF IInv, TypeOK, Statuses, Completed, None, Results
<1>3. ASSUME NEW x \in DOMAIN timer' PROVE TimerInv(x)'
  <2>1. PICK late \in BOOLEAN : x \in over <=> late
    BY Zenon
  <2>2. x \in over' <=> late
    BY <1>1, <2>1
  <2>3. TimerInv(x)
    BY <1>1, <1>3 DEF IInv
  <2>4. TimerOK(x, status'[x], mem'[x], timer'[x], stale'[x], late)
    BY <1>1, <2>1, <2>3, TimerInvIs
  <2> QED
    BY <2>2, <2>4, TimerInvIs
<1> QED
  BY <1>1, <1>2, <1>3 DEF IInv

\* Parallel and ParallelAll.
LEMMA ParallelKeeps ==
  ASSUME IInv, NEW n, Inside(n), ParallelStep(n)
  PROVE  IInv'
<1> DEFINE m == mem[n]
           L == LiveIdx(n)
           C == DoneIdx(n)
<1>1. /\ n \in Nodes /\ tree \in DOMAIN Forest /\ ret \in Results \cup {None}
      /\ status[n] \in Statuses /\ L \subseteq DOMAIN Children(n) /\ C \subseteq DOMAIN Children(n)
  BY Here
<1>2. Kind(n) \in Parallels /\ tree' = tree /\ value' = value /\ wake' = wake
  BY DEF ParallelStep, ParallelThrow, ParallelTick, ParallelBack, ParallelAllBack, Entered, Back,
         Parallels
<1>3. Kind(n) \in Controls
  BY <1>2 DEF Controls
<1>4. n \in DOMAIN mem /\ n \notin DOMAIN timer /\ Mem(n) = m /\ m \in MemType(n)
  BY <1>2, Here DEF WithMem, Timed, Parallels
<1>5. /\ DOMAIN Children(n) = 1 .. N(n) /\ N(n) \in Nat /\ N(n) >= 1 /\ Children(n) # <<>>
      /\ N(n) = Len(Children(n))
      /\ value' \in Values \cup {None} /\ wake' \in BOOLEAN /\ "RUNNING" \in Results
      /\ "RUNNING" \in Statuses /\ "RUNNING" \notin Completed /\ "SKIPPED" \in Results
      /\ "SUCCESS" \in Results /\ "FAILURE" \in Results /\ "SKIPPED" \in Returning
      /\ "SKIPPED" \notin Completed
  BY <1>2, <1>3, Ticked DEF N, Returning
<1>6. ASSUME NEW s, NEW m2, NEW locked \in BOOLEAN, NEW L2, NEW C2, NEW back \in BOOLEAN
      PROVE  NodeOK(n, s, m2, locked, L2, C2, back) <=>
               /\ ~locked /\ s # "RUNNING" => L2 = {}
               /\ locked => m2.idx \in DOMAIN Children(n)
               /\ ParallelOK(n, s, m2, locked, L2, C2)
  BY <1>2, <1>3 DEF NodeOK, Ordered, Sequences_, Fallbacks, Reactives, Parallels, Decorators,
              Plain, Loops, Clocked, CurIdx
<1>7. \A m2 : CurIdx(n, m2) = m2.idx
  BY <1>2, <1>3 DEF CurIdx, Parallels
<1>8. /\ Blank \in MemType(n) /\ [Blank EXCEPT !.fresh = FALSE] = Blank
      /\ Blank.idx = 1 /\ Blank.done = {}
  BY BlankFacts
<1>9. m.done \in SUBSET (1 .. N(n)) /\ m.skips \in Nat /\ m.count \in Nat
  BY <1>4, <1>5 DEF MemType
<1>10. ASSUME ret # None
       PROVE  /\ m.idx \in 1 .. N(n) /\ ParallelOK(n, status[n], m, TRUE, L, C)
              /\ status[n] = "RUNNING" /\ (ret = "SKIPPED" => m.idx \notin L)
  <2>1. /\ CurIdx(n, m) \in DOMAIN Children(n)
        /\ NodeOK(n, status[n], m, TRUE, L, C, TRUE) \/ NodeOK(n, status[n], m, TRUE, L, C, FALSE)
        /\ ret \in Returning => CurIdx(n, m) \notin L
    BY <1>4, <1>10, Here
  <2>2. ParallelOK(n, status[n], m, TRUE, L, C)
    BY <1>6, <2>1
  <2> QED
    BY <1>5, <1>7, <2>1, <2>2 DEF ParallelOK
<1> HIDE DEF m, L, C
<1>11. ASSUME NEW s \in Results, Return(n, s, Blank, ChildSet(n)), s # "SKIPPED"
       PROVE  IInv'
  <2>1. Blank.done # 1 .. N(n)
    BY <1>5, <1>8
  <2>2. ParallelOK(n, s, Blank, FALSE, {}, {})
    BY <2>1 DEF ParallelOK
  <2>3. NodeOK(n, s, Blank, FALSE, {}, {}, FALSE)
    BY <1>6, <2>2
  <2> QED
    BY <1>2, <1>4, <1>5, <1>8, <1>11, <2>3, ReturnAll
<1>12. ASSUME ret # None
       PROVE  /\ Counted(m) \in MemType(n) /\ Counted(m).idx = m.idx
              /\ Counted(m).done \in SUBSET (1 .. N(n))
              /\ Counted(m).skips \in Nat /\ Counted(m).count \in Nat
              /\ Counted(m).skips <= m.idx
              /\ Counted(m).skips = m.idx => \A i \in L : i > m.idx
              /\ ret = "SKIPPED" \/ Counted(m).skips <= m.idx - 1
              /\ ret = "SKIPPED" => Counted(m).done # 1 .. N(n)
  <2>1. m.idx \in 1 .. N(n) /\ ParallelOK(n, status[n], m, TRUE, L, C)
        /\ (ret = "SKIPPED" => m.idx \notin L)
    BY <1>10, <1>12
  <2>2. /\ Counted(m) \in MemType(n) /\ Counted(m).idx = m.idx
        /\ Counted(m).done = IF ret \in Completed THEN m.done \cup {m.idx} ELSE m.done
        /\ Counted(m).skips = IF ret = "SKIPPED" THEN m.skips + 1 ELSE m.skips
    BY <1>4, <1>5, <2>1, CountedIs
  <2>3. Counted(m).done \in SUBSET (1 .. N(n)) /\ Counted(m).count \in Nat
    BY <1>5, <2>2 DEF MemType
  <2>4. m.skips <= m.idx - 1 /\ (m.skips = m.idx - 1 => \A i \in L : i >= m.idx)
        /\ m.done # 1 .. N(n)
    BY <2>1 DEF ParallelOK
  <2>5. /\ Counted(m).skips \in Nat /\ Counted(m).skips <= m.idx
        /\ ret = "SKIPPED" \/ Counted(m).skips <= m.idx - 1
    BY <1>9, <2>1, <2>2, <2>4
  <2>6. ASSUME Counted(m).skips = m.idx, NEW i \in L PROVE i > m.idx
    <3>1. ret = "SKIPPED" /\ m.skips = m.idx - 1
      BY <1>9, <2>1, <2>2, <2>4, <2>6
    <3>2. i >= m.idx /\ i # m.idx /\ i \in 1 .. N(n)
      BY <1>1, <1>5, <2>1, <2>4, <2>6, <3>1
    <3> QED
      BY <1>5, <2>1, <3>2
  <2>7. ret = "SKIPPED" => Counted(m).done # 1 .. N(n)
    BY <1>5, <2>2, <2>4
  <2> QED
    BY <2>2, <2>3, <2>5, <2>6, <2>7
<1> DEFINE rest == Pending(n, Counted(m), m.idx)
<1>13. ASSUME ret # None, rest # {},
              Call(n, "RUNNING", At(Counted(m), First(rest)), {}, First(rest))
       PROVE  IInv'
  <2> DEFINE i  == First(rest)
             m1 == At(Counted(m), i)
  <2>1. m.idx \in 1 .. N(n)
    BY <1>10, <1>13
  <2>2. rest \in SUBSET Nat
    BY <1>5, <2>1 DEF Pending
  <2>3. i \in rest
    BY <1>13, <2>2, FirstIs
  <2> HIDE DEF i
  <2>4. i \in 1 .. N(n) /\ i >= m.idx + 1 /\ i \notin Counted(m).done
    BY <1>5, <2>1, <2>3 DEF Pending
  <2> HIDE DEF rest
  <2>5. /\ m1 \in MemType(n) /\ m1.idx = i /\ m1.done = Counted(m).done
        /\ m1.skips = Counted(m).skips
    BY <1>5, <1>12, <1>13, <2>4 DEF At, MemType
  <2>6. Call(n, "RUNNING", m1, {}, i)
    BY <1>13 DEF i
  <2> HIDE DEF m1
  <2>7. m1.skips <= m1.idx - 1
    BY <1>5, <1>12, <1>13, <2>1, <2>4, <2>5
  <2>8. ASSUME m1.skips = m1.idx - 1, NEW j \in L PROVE j >= m1.idx
    <3>1. Counted(m).skips = m.idx /\ i = m.idx + 1
      BY <1>12, <1>13, <2>1, <2>4, <2>5, <2>8
    <3>2. j > m.idx /\ j \in 1 .. N(n)
      BY <1>1, <1>5, <1>12, <1>13, <2>8, <3>1
    <3> QED
      BY <1>5, <2>1, <2>5, <3>1, <3>2
  <2>9. ParallelOK(n, "RUNNING", m1, TRUE, L, C)
    BY <2>4, <2>5, <2>7, <2>8 DEF ParallelOK
  <2>10. NodeOK(n, "RUNNING", m1, TRUE, L, C, FALSE)
    BY <1>5, <1>6, <2>4, <2>5, <2>9
  <2> QED
    BY <1>2, <1>4, <1>5, <1>7, <2>4, <2>5, <2>6, <2>10, CallNone DEF L, C
<1>14. ASSUME ret # None, NEW s \in {"SKIPPED", "RUNNING"},
              Return(n, s, [At(Counted(m), 1) EXCEPT !.skips = 0], {}),
              s = "SKIPPED" => Counted(m).skips = N(n), Counted(m).done # 1 .. N(n)
       PROVE  IInv'
  <2> DEFINE m1 == [At(Counted(m), 1) EXCEPT !.skips = 0]
             m2 == [m1 EXCEPT !.fresh = FALSE]
  <2>1. Counted(m) \in MemType(n) /\ status[n] = "RUNNING" /\ m.idx \in 1 .. N(n)
    BY <1>10, <1>12, <1>14
  <2>2. m1 \in MemType(n) /\ m1.done = Counted(m).done
    BY <2>1 DEF At, MemType
  <2>3. Return(n, s, m1, {})
    BY <1>14
  <2> HIDE DEF m1
  <2>4. m2.done = Counted(m).done
    BY <2>2, BlankFacts
  <2> HIDE DEF m2
  <2>5. (IF s = "SKIPPED" THEN status[n] ELSE s) = "RUNNING"
    BY <1>14, <2>1
  <2>6. ParallelOK(n, "RUNNING", m2, FALSE, L, C)
    BY <1>14, <2>4 DEF ParallelOK
  <2>7. NodeOK(n, "RUNNING", m2, FALSE, L, C, FALSE)
    BY <1>6, <2>6
  <2>8. s = "SKIPPED" => L = {}
    <3> HAVE s = "SKIPPED"
    <3>1. m.idx = N(n) /\ \A i \in L : i > N(n)
      BY <1>5, <1>12, <1>14, <2>1
    <3> QED
      BY <1>1, <1>5, <3>1
  <2>9. s \in Results
    BY <1>5
  <2> QED
    BY <1>2, <1>4, <1>5, <2>2, <2>3, <2>5, <2>7, <2>8, <2>9, ReturnNone DEF L, C, m2
<1>15. IsFiniteSet(1 .. N(n)) /\ Cardinality(1 .. N(n)) = N(n)
  BY <1>5, FS_Interval
<1>16. CASE ParallelTick(n)
  <2> DEFINE S  == Pending(n, m, 0)
             i  == First(S)
             m1 == [At(m, i) EXCEPT !.skips = 0]
  <2>1. Call(n, "RUNNING", m1, {}, i) /\ ret = None
    BY <1>16 DEF ParallelTick, Entered, m
  <2>2. NodeOK(n, status[n], m, FALSE, L, C, FALSE)
    BY <1>4, <2>1, Here DEF L, C
  <2>3. m.done # 1 .. N(n)
    BY <1>6, <2>2 DEF ParallelOK
  <2>4. S \in SUBSET (1 .. N(n)) /\ S # {} /\ \A j \in S : j \notin m.done
    <3>1. PICK j \in 1 .. N(n) : j \notin m.done
      BY <1>9, <2>3
    <3>2. \A k : k \in S <=> k \in 1 .. N(n) /\ k \notin m.done
      BY DEF Pending
    <3> HIDE DEF S
    <3> QED
      BY <3>1, <3>2
  <2> HIDE DEF S
  <2>5. i \in S
    <3>1. S \in SUBSET Nat
      BY <1>5, <2>4
    <3> QED
      BY <2>4, <3>1, FirstIs
  <2>6. i \in 1 .. N(n) /\ i \notin m.done
    BY <2>4, <2>5
  <2> HIDE DEF i
  <2>7. m1 \in MemType(n) /\ m1.idx = i /\ m1.done = m.done /\ m1.skips = 0
    BY <1>4, <1>5, <2>6 DEF At, MemType
  <2> HIDE DEF m1
  <2>8. \A j \in L : j >= 1
    BY <1>1, <1>5
  <2>9. ParallelOK(n, "RUNNING", m1, TRUE, L, C)
    BY <1>5, <2>3, <2>6, <2>7, <2>8 DEF ParallelOK
  <2>10. NodeOK(n, "RUNNING", m1, TRUE, L, C, FALSE)
    BY <1>5, <1>6, <2>6, <2>7, <2>9
  <2> QED
    BY <1>2, <1>4, <1>5, <1>7, <2>1, <2>6, <2>7, <2>10, CallNone DEF L, C
<1>17. CASE ParallelBack(n)
  <2> DEFINE m1 == Counted(m)
  <2>1. ret # None /\ Kind(n) = "Parallel"
    BY <1>17 DEF ParallelBack, Back
  <2>2. /\ ret # None
        /\ CASE Succeeds(n, m1) -> Return(n, "SUCCESS", Blank, ChildSet(n))
             [] ~Succeeds(n, m1) /\ Fails(n, m1) -> Return(n, "FAILURE", Blank, ChildSet(n))
             [] ~Succeeds(n, m1) /\ ~Fails(n, m1) /\ rest # {} ->
                  Call(n, "RUNNING", At(m1, First(rest)), {}, First(rest))
             [] OTHER -> Return(n, IF m1.skips = N(n) THEN "SKIPPED" ELSE "RUNNING",
                                [At(m1, 1) EXCEPT !.skips = 0], {})
    <3>1. m1.idx = m.idx
      BY <1>12, <2>1
    <3>2. rest = Pending(n, m1, m1.idx)
      BY <3>1
    <3> HIDE DEF rest
    <3> QED
      BY <1>17, <2>1, <3>2 DEF ParallelBack, m
  <2> HIDE DEF rest
  <2>3. CASE Succeeds(n, m1)
    BY <1>5, <1>11, <2>2, <2>3
  <2>4. CASE ~Succeeds(n, m1) /\ Fails(n, m1)
    BY <1>5, <1>11, <2>2, <2>4
  <2>5. CASE ~Succeeds(n, m1) /\ ~Fails(n, m1) /\ rest # {}
    <3>1. Call(n, "RUNNING", At(m1, First(rest)), {}, First(rest))
      BY <2>2, <2>5
    <3> QED
      BY <1>13, <2>1, <2>5, <3>1
  <2>6. CASE ~Succeeds(n, m1) /\ ~Fails(n, m1) /\ ~(rest # {})
    <3>1. Return(n, IF m1.skips = N(n) THEN "SKIPPED" ELSE "RUNNING",
                 [At(m1, 1) EXCEPT !.skips = 0], {})
      BY <2>2, <2>6
    <3>2. m1.done # 1 .. N(n)
      <4> SUFFICES ASSUME m1.done = 1 .. N(n) PROVE FALSE
        OBVIOUS
      <4>1. m1.count \in Nat /\ m1.skips \in Nat
        BY <1>12, <2>1
      <4>2. Threshold(n, "success") \in Int
        <5>1. Port("param", n).success \in Int
          BY <1>1, <2>1, ArityFacts
        <5> QED
          BY <1>5, <5>1 DEF Threshold
      <4>3. Cardinality(m1.done) = N(n)
        BY <1>15
      <4> HIDE DEF m1
      <4>4. ~(N(n) - m1.count >= Threshold(n, "success"))
        BY <2>6, <4>3 DEF Succeeds
      <4>5. ~(N(n) - m1.count < Threshold(n, "success"))
        BY <2>6 DEF Fails
      <4> QED
        BY <1>5, <4>1, <4>2, <4>4, <4>5
    <3> QED
      BY <1>14, <2>1, <3>1, <3>2
  <2> QED
    BY <2>3, <2>4, <2>5, <2>6
<1>18. CASE ParallelAllBack(n)
  <2> DEFINE m1   == Counted(m)
             idle == [At(m1, 1) EXCEPT !.skips = 0]
             all  == m1.skips + Cardinality(m1.done) >= N(n)
  <2>1. ret # None
    BY <1>18 DEF ParallelAllBack, Back
  <2>2. /\ ret # None
        /\ CASE rest # {} -> Call(n, "RUNNING", At(m1, First(rest)), {}, First(rest))
             [] rest = {} /\ m1.skips = N(n) -> Return(n, "SKIPPED", idle, {})
             [] rest = {} /\ m1.skips # N(n) /\ all ->
                  Return(n, IF m1.count >= Threshold(n, "failure") THEN "FAILURE" ELSE "SUCCESS",
                         Blank, ChildSet(n))
             [] OTHER -> Return(n, "RUNNING", idle, {})
    <3>1. m1.idx = m.idx
      BY <1>12, <2>1
    <3>2. rest = Pending(n, m1, m1.idx)
      BY <3>1
    <3> HIDE DEF rest
    <3> QED
      BY <1>18, <2>1, <3>2 DEF ParallelAllBack, m
  <2>3. m1.skips \in Nat /\ m.idx \in 1 .. N(n)
    BY <1>10, <1>12, <2>1
  <2> HIDE DEF rest
  <2>4. CASE rest # {}
    BY <1>13, <2>1, <2>2, <2>4
  <2>5. CASE rest = {} /\ m1.skips = N(n)
    <3>1. Return(n, "SKIPPED", idle, {})
      BY <2>2, <2>5
    <3>2. m1.done # 1 .. N(n)
      BY <1>5, <1>12, <2>1, <2>3, <2>5
    <3> QED
      BY <1>14, <2>1, <2>5, <3>1, <3>2
  <2>6. CASE rest = {} /\ m1.skips # N(n) /\ all
    <3>1. PICK s \in {"FAILURE", "SUCCESS"} : Return(n, s, Blank, ChildSet(n))
      BY <2>2, <2>6
    <3> QED
      BY <1>5, <1>11, <3>1
  <2>7. CASE rest = {} /\ m1.skips # N(n) /\ ~all
    <3>1. Return(n, "RUNNING", idle, {})
      BY <2>2, <2>7
    <3>2. m1.done # 1 .. N(n)
      BY <1>5, <1>15, <2>3, <2>7
    <3> QED
      BY <1>14, <2>1, <3>1, <3>2
  <2> QED
    BY <2>4, <2>5, <2>6, <2>7
<1>19. CASE ParallelThrow(n)
  BY <1>2, <1>19, ThrowKeeps DEF ParallelThrow
<1> QED
  BY <1>16, <1>17, <1>18, <1>19 DEF ParallelStep

\* Member records of which at most one member has changed.
LEMMA BlankBut ==
  ASSUME NEW n, NEW a \in MemType(n)
  PROVE  /\ a = [Blank EXCEPT !.idx = a.idx] <=>
              /\ a.skips = 0 /\ a.count = 0 /\ a.done = {} /\ ~a.on /\ ~a.hit /\ ~a.fresh
         /\ a = [Blank EXCEPT !.count = a.count] <=>
              /\ a.idx = 1 /\ a.skips = 0 /\ a.done = {} /\ ~a.on /\ ~a.hit /\ ~a.fresh
         /\ a = [Blank EXCEPT !.on = a.on] <=>
              /\ a.idx = 1 /\ a.skips = 0 /\ a.count = 0 /\ a.done = {} /\ ~a.hit /\ ~a.fresh
         /\ a = Blank <=>
              /\ a.idx = 1 /\ a.skips = 0 /\ a.count = 0 /\ a.done = {}
              /\ ~a.on /\ ~a.hit /\ ~a.fresh
<1> DEFINE bi == [Blank EXCEPT !.idx = a.idx]
           bc == [Blank EXCEPT !.count = a.count]
           bo == [Blank EXCEPT !.on = a.on]
<1>1. /\ Blank \in MemType(n) /\ bi \in MemType(n) /\ bc \in MemType(n) /\ bo \in MemType(n)
      /\ a.on \in BOOLEAN /\ a.hit \in BOOLEAN /\ a.fresh \in BOOLEAN
  BY DEF Blank, MemType
<1>2. /\ bi.idx = a.idx /\ bi.skips = 0 /\ bi.count = 0 /\ bi.done = {}
      /\ bi.on = FALSE /\ bi.hit = FALSE /\ bi.fresh = FALSE
  BY DEF Blank
<1>3. /\ bc.idx = 1 /\ bc.skips = 0 /\ bc.count = a.count /\ bc.done = {}
      /\ bc.on = FALSE /\ bc.hit = FALSE /\ bc.fresh = FALSE
  BY DEF Blank
<1>4. /\ bo.idx = 1 /\ bo.skips = 0 /\ bo.count = 0 /\ bo.done = {}
      /\ bo.on = a.on /\ bo.hit = FALSE /\ bo.fresh = FALSE
  BY DEF Blank
<1>5. /\ Blank.idx = 1 /\ Blank.skips = 0 /\ Blank.count = 0 /\ Blank.done = {}
      /\ Blank.on = FALSE /\ Blank.hit = FALSE /\ Blank.fresh = FALSE
  BY DEF Blank
<1> HIDE DEF bi, bc, bo
<1>6. a = bi <=> /\ a.skips = 0 /\ a.count = 0 /\ a.done = {} /\ ~a.on /\ ~a.hit /\ ~a.fresh
  BY <1>1, <1>2, SameMembers
<1>7. a = bc <=> /\ a.idx = 1 /\ a.skips = 0 /\ a.done = {} /\ ~a.on /\ ~a.hit /\ ~a.fresh
  BY <1>1, <1>3, SameMembers
<1>8. a = bo <=>
        /\ a.idx = 1 /\ a.skips = 0 /\ a.count = 0 /\ a.done = {} /\ ~a.hit /\ ~a.fresh
  BY <1>1, <1>4, SameMembers
<1>9. a = Blank <=> /\ a.idx = 1 /\ a.skips = 0 /\ a.count = 0 /\ a.done = {}
                    /\ ~a.on /\ ~a.hit /\ ~a.fresh
  BY <1>1, <1>5, SameMembers
<1> QED
  BY <1>6, <1>7, <1>8, <1>9 DEF bi, bc, bo

\* IfThenElse and WhileDoElse.
LEMMA BranchKeeps ==
  ASSUME IInv, NEW n, Inside(n),
         \/ BranchTick(n) \/ BranchChoose(n) \/ BranchNoElse(n) \/ BranchThrow(n)
         \/ BranchRunning(n) \/ BranchDone(n)
  PROVE  IInv'
<1> DEFINE m == mem[n]
           L == LiveIdx(n)
           C == DoneIdx(n)
<1>1. /\ n \in Nodes /\ tree \in DOMAIN Forest /\ ret \in Results \cup {None}
      /\ status[n] \in Statuses /\ L \subseteq DOMAIN Children(n) /\ C \subseteq DOMAIN Children(n)
  BY Here
<1>2. /\ Kind(n) \in {"IfThenElse", "WhileDoElse"}
      /\ tree' = tree /\ value' = value /\ wake' = wake
  BY DEF BranchTick, BranchChoose, BranchNoElse, BranchThrow, BranchRunning, BranchDone,
         Entered, Back
<1>3. Kind(n) \in Controls
  BY <1>2 DEF Controls, Branches
<1>4. n \in DOMAIN mem /\ n \notin DOMAIN timer /\ Mem(n) = m /\ m \in MemType(n)
  BY <1>2, Here DEF WithMem, Timed, Branches
<1>5. /\ DOMAIN Children(n) = 1 .. N(n) /\ N(n) \in 2 .. 3 /\ Children(n) # <<>>
      /\ value' \in Values \cup {None} /\ wake' \in BOOLEAN /\ "RUNNING" \in Results
      /\ "RUNNING" \in Statuses /\ "RUNNING" \notin Completed /\ "FAILURE" \in Results
      /\ Completed \subseteq Returning /\ "SKIPPED" \notin Completed
      /\ \A s \in Results : s # "RUNNING" => s \in Returning
  BY <1>1, <1>2, <1>3, Ticked, ArityFacts DEF Completed, Returning
<1>6. ASSUME NEW s, NEW m2, NEW locked \in BOOLEAN, NEW L2, NEW C2, NEW back \in BOOLEAN
      PROVE  NodeOK(n, s, m2, locked, L2, C2, back) <=>
               /\ ~locked /\ s # "RUNNING" => L2 = {}
               /\ locked => m2.idx \in DOMAIN Children(n)
               /\ BranchOK(n, s, m2, locked, L2, C2)
  BY <1>2, <1>3 DEF NodeOK, Ordered, Sequences_, Fallbacks, Reactives, Parallels, Decorators,
              Plain, Loops, Clocked, CurIdx
<1>7. \A m2 : CurIdx(n, m2) = m2.idx
  BY <1>2, <1>3 DEF CurIdx
<1>8. /\ Blank \in MemType(n) /\ [Blank EXCEPT !.fresh = FALSE] = Blank /\ Blank.idx = 1
      /\ Blank = [Blank EXCEPT !.idx = Blank.idx]
  BY BlankFacts, BlankBut
<1>9. ASSUME ret # None
      PROVE  /\ m.idx \in 1 .. N(n) /\ BranchOK(n, status[n], m, TRUE, L, C)
             /\ status[n] = "RUNNING" /\ (ret \in Returning => m.idx \notin L)
  <2>1. /\ CurIdx(n, m) \in DOMAIN Children(n)
        /\ NodeOK(n, status[n], m, TRUE, L, C, TRUE) \/ NodeOK(n, status[n], m, TRUE, L, C, FALSE)
        /\ ret \in Returning => CurIdx(n, m) \notin L
    BY <1>4, <1>9, Here
  <2>2. BranchOK(n, status[n], m, TRUE, L, C)
    BY <1>6, <2>1
  <2> QED
    BY <1>5, <1>7, <2>1, <2>2 DEF BranchOK
<1>10. NodeOK(n, status[n], m, FALSE, L, C, FALSE) \/ ret # None
  BY <1>4, Here
<1>11. m = [Blank EXCEPT !.idx = m.idx] /\ (Kind(n) = "IfThenElse" => L \subseteq {m.idx})
  <2>1. CASE ret # None
    BY <1>9, <2>1 DEF BranchOK
  <2>2. CASE ret = None
    <3>1. BranchOK(n, status[n], m, FALSE, L, C)
      BY <1>6, <1>10, <2>2
    <3> QED
      BY <3>1 DEF BranchOK
  <2> QED
    BY <2>1, <2>2
<1> HIDE DEF m, L, C
<1>12. ASSUME NEW i \in 1 .. N(n)
       PROVE  /\ At(m, i) \in MemType(n) /\ At(m, i).idx = i /\ ~At(m, i).fresh
              /\ At(m, i) = [Blank EXCEPT !.idx = i]
              /\ [At(m, i) EXCEPT !.fresh = FALSE] \in MemType(n)
              /\ [At(m, i) EXCEPT !.fresh = FALSE].idx = i
              /\ [At(m, i) EXCEPT !.fresh = FALSE] = [Blank EXCEPT !.idx = i]
  <2> DEFINE a == At(m, i)
             b == [a EXCEPT !.fresh = FALSE]
  <2>1. /\ m.skips = 0 /\ m.count = 0 /\ m.done = {} /\ ~m.on /\ ~m.hit /\ ~m.fresh
    BY <1>4, <1>11, BlankBut
  <2>2. /\ a \in MemType(n) /\ a.idx = i /\ a.skips = m.skips /\ a.count = m.count
        /\ a.done = m.done /\ a.on = m.on /\ a.hit = m.hit /\ a.fresh = m.fresh
    BY <1>4, <1>5 DEF At, MemType
  <2> HIDE DEF a
  <2>3. /\ b \in MemType(n) /\ b.idx = i /\ b.skips = a.skips /\ b.count = a.count
        /\ b.done = a.done /\ b.on = a.on /\ b.hit = a.hit /\ ~b.fresh
    BY <2>2, BlankFacts
  <2> HIDE DEF b
  <2>4. a = [Blank EXCEPT !.idx = i] /\ b = [Blank EXCEPT !.idx = i]
    BY <2>1, <2>2, <2>3, BlankBut
  <2> QED
    BY <2>1, <2>2, <2>3, <2>4 DEF a, b
<1>13. CASE BranchTick(n)
  <2> DEFINE i == IF Kind(n) = "IfThenElse" THEN m.idx ELSE 1
  <2>1. Call(n, "RUNNING", At(m, i), {}, i) /\ ret = None
    BY <1>13 DEF BranchTick, Entered, m
  <2>2. i \in 1 .. N(n)
    BY <1>4, <1>5 DEF MemType
  <2>3. Kind(n) = "IfThenElse" => L \subseteq {i}
    BY <1>11
  <2> HIDE DEF i
  <2> DEFINE m1 == At(m, i)
  <2>4. m1 \in MemType(n) /\ m1.idx = i /\ m1 = [Blank EXCEPT !.idx = i]
    BY <1>12, <2>2
  <2>5. Call(n, "RUNNING", m1, {}, i)
    BY <2>1
  <2> HIDE DEF m1
  <2>6. BranchOK(n, "RUNNING", m1, TRUE, L, C)
    BY <2>3, <2>4 DEF BranchOK
  <2>7. NodeOK(n, "RUNNING", m1, TRUE, L, C, FALSE)
    <3>1. m1.idx \in DOMAIN Children(n)
      BY <1>5, <2>2, <2>4
    <3> QED
      BY <1>6, <2>6, <3>1
  <2>8. i \in DOMAIN Children(n) /\ CurIdx(n, m1) = i
    BY <1>5, <1>7, <2>2, <2>4
  <2> QED
    BY <1>2, <1>4, <1>5, <2>4, <2>5, <2>7, <2>8, CallNone DEF L, C
<1>14. CASE BranchChoose(n)
  <2> DEFINE i == IF ret = "SUCCESS" THEN 2 ELSE 3
             H == IF Kind(n) = "WhileDoElse" /\ N(n) = 3 THEN {Child(n, 5 - i)} ELSE {}
  <2>1. /\ ret # None /\ ret \in Completed /\ i <= N(n) /\ m.idx = 1
        /\ Call(n, "RUNNING", At(m, i), H, i)
    BY <1>14 DEF BranchChoose, Back, m
  <2>2. i \in 1 .. N(n)
    BY <1>5, <2>1
  <2>3. Kind(n) = "WhileDoElse" /\ N(n) = 3 => 5 - i \in 1 .. N(n)
    BY <1>5, <2>1
  <2>4. H \subseteq ChildSet(n)
    BY <1>1, <1>5, <2>3, TreeFacts
  <2>5. Kind(n) = "IfThenElse" => L = {}
    BY <1>5, <1>9, <1>11, <2>1
  <2> HIDE DEF i, H
  <2> DEFINE m1 == At(m, i)
  <2>6. m1 \in MemType(n) /\ m1.idx = i /\ m1 = [Blank EXCEPT !.idx = i]
    BY <1>12, <2>2
  <2>7. Call(n, "RUNNING", m1, H, i)
    BY <2>1
  <2> HIDE DEF m1
  <2>8. BranchOK(n, "RUNNING", m1, TRUE, L \ Index(n, H), C \ Index(n, H))
    BY <2>5, <2>6 DEF BranchOK
  <2>9. NodeOK(n, "RUNNING", m1, TRUE, L \ Index(n, H), C \ Index(n, H), FALSE)
    <3>1. m1.idx \in DOMAIN Children(n)
      BY <1>5, <2>2, <2>6
    <3> QED
      BY <1>6, <2>8, <3>1
  <2>10. i \in DOMAIN Children(n) /\ CurIdx(n, m1) = i
    BY <1>5, <1>7, <2>2, <2>6
  <2> QED
    BY <1>2, <1>4, <1>5, <2>4, <2>6, <2>7, <2>9, <2>10, CallStep DEF L, C
<1>15. CASE BranchNoElse(n)
  <2> DEFINE m2 == [m EXCEPT !.fresh = FALSE]
  <2>1. /\ ret = "FAILURE" /\ ret # None /\ m.idx = 1
        /\ Return(n, "FAILURE", m, IF Kind(n) = "IfThenElse" THEN {} ELSE ChildSet(n))
    BY <1>15 DEF BranchNoElse, Back, None, m
  <2>2. m2 = [Blank EXCEPT !.idx = m2.idx] /\ m2.idx = 1
    <3>1. /\ m.skips = 0 /\ m.count = 0 /\ m.done = {} /\ ~m.on /\ ~m.hit /\ ~m.fresh
      BY <1>4, <1>11, BlankBut
    <3>2. /\ m2 \in MemType(n) /\ m2.idx = 1 /\ m2.skips = 0 /\ m2.count = 0 /\ m2.done = {}
          /\ ~m2.on /\ ~m2.hit /\ ~m2.fresh
      BY <1>4, <2>1, <3>1, BlankFacts
    <3> HIDE DEF m2
    <3> QED
      BY <3>2, BlankBut
  <2> HIDE DEF m2
  <2>3. CASE Kind(n) = "IfThenElse"
    <3>1. Return(n, "FAILURE", m, {}) /\ L = {}
      BY <1>5, <1>9, <1>11, <2>1, <2>3 DEF Completed
    <3>2. BranchOK(n, "FAILURE", m2, FALSE, L, C)
      BY <2>2, <2>3, <3>1 DEF BranchOK
    <3>3. NodeOK(n, "FAILURE", m2, FALSE, L, C, FALSE)
      BY <1>6, <3>1, <3>2
    <3> QED
      BY <1>2, <1>4, <1>5, <3>1, <3>3, ReturnNone DEF L, C, m2
  <2>4. CASE Kind(n) # "IfThenElse"
    <3>1. Return(n, "FAILURE", m, ChildSet(n))
      BY <2>1, <2>4
    <3>2. BranchOK(n, "FAILURE", m2, FALSE, {}, {})
      BY <2>2, <2>4 DEF BranchOK
    <3>3. NodeOK(n, "FAILURE", m2, FALSE, {}, {}, FALSE)
      BY <1>6, <3>2
    <3> QED
      BY <1>2, <1>4, <1>5, <3>1, <3>3, ReturnAll DEF m2
  <2> QED
    BY <2>3, <2>4
<1>16. CASE BranchThrow(n)
  BY <1>2, <1>16, ThrowKeeps DEF BranchThrow
<1>17. CASE BranchRunning(n)
  <2> DEFINE i  == IF Kind(n) = "IfThenElse" THEN m.idx ELSE 1
             m2 == [At(m, i) EXCEPT !.fresh = FALSE]
  <2>1. Return(n, "RUNNING", At(m, i), {}) /\ ret # None
    BY <1>17 DEF BranchRunning, Back, m
  <2>2. i \in 1 .. N(n)
    BY <1>4, <1>5 DEF MemType
  <2>3. Kind(n) = "IfThenElse" => L \subseteq {i}
    BY <1>11
  <2> HIDE DEF i
  <2>4. m2 = [Blank EXCEPT !.idx = i] /\ m2.idx = i
    BY <1>12, <2>2
  <2> HIDE DEF m2
  <2>5. BranchOK(n, "RUNNING", m2, FALSE, L, C)
    BY <2>3, <2>4 DEF BranchOK
  <2>6. NodeOK(n, "RUNNING", m2, FALSE, L, C, FALSE)
    BY <1>6, <2>5
  <2> QED
    BY <1>2, <1>4, <1>5, <1>12, <2>1, <2>2, <2>6, ReturnNone DEF L, C, m2
<1>18. CASE BranchDone(n)
  <2>1. Return(n, ret, Blank, ChildSet(n)) /\ ret # None /\ ret # "RUNNING"
    BY <1>18 DEF BranchDone, Back
  <2>2. status[n] = "RUNNING" /\ ret \in Results
    BY <1>1, <1>9, <2>1
  <2> DEFINE s1 == IF ret = "SKIPPED" THEN status[n] ELSE ret
  <2>3. BranchOK(n, s1, Blank, FALSE, {}, {})
    BY <1>8 DEF BranchOK
  <2>4. NodeOK(n, s1, Blank, FALSE, {}, {}, FALSE)
    <3> HIDE DEF s1
    <3> QED
      BY <1>6, <2>3
  <2> QED
    BY <1>2, <1>4, <1>5, <1>8, <2>1, <2>2, <2>4, ReturnAll
<1> QED
  BY <1>13, <1>14, <1>15, <1>16, <1>17, <1>18

\* Switch.
LEMMA SwitchKeeps ==
  ASSUME IInv, NEW n, Inside(n), SwitchTick(n) \/ SwitchBack(n)
  PROVE  IInv'
<1> DEFINE m == mem[n]
           L == LiveIdx(n)
           C == DoneIdx(n)
<1>1. /\ n \in Nodes /\ tree \in DOMAIN Forest /\ ret \in Results \cup {None}
      /\ status[n] \in Statuses /\ L \subseteq DOMAIN Children(n) /\ C \subseteq DOMAIN Children(n)
  BY Here
<1>2. Kind(n) = "Switch" /\ tree' = tree /\ value' = value /\ wake' = wake
  BY DEF SwitchTick, SwitchBack, Entered, Back
<1>3. Kind(n) \in Controls
  BY <1>2 DEF Controls, Branches
<1>4. n \in DOMAIN mem /\ n \notin DOMAIN timer /\ Mem(n) = m /\ m \in MemType(n)
  BY <1>2, Here DEF WithMem, Timed, Branches
<1>5. /\ DOMAIN Children(n) = 1 .. N(n) /\ N(n) \in Nat /\ Children(n) # <<>>
      /\ value' \in Values \cup {None} /\ wake' \in BOOLEAN /\ "RUNNING" \in Results
      /\ "RUNNING" \notin Completed /\ "SKIPPED" \in Results
      /\ "SKIPPED" \notin Completed
      /\ "SKIPPED" \in Returning
  BY <1>1, <1>2, <1>3, Ticked DEF Returning
<1>6. ASSUME NEW s, NEW m2, NEW locked \in BOOLEAN, NEW L2, NEW C2, NEW back \in BOOLEAN
      PROVE  NodeOK(n, s, m2, locked, L2, C2, back) <=>
               /\ ~locked /\ s # "RUNNING" => L2 = {}
               /\ locked => m2.idx \in DOMAIN Children(n)
               /\ SwitchOK(n, s, m2, locked, L2, C2, back)
  BY <1>2, <1>3 DEF NodeOK, Ordered, Sequences_, Fallbacks, Reactives, Parallels, Decorators,
              Plain, Loops, Clocked, CurIdx
<1>7. \A m2 : CurIdx(n, m2) = m2.idx
  BY <1>2, <1>3 DEF CurIdx
<1>8. /\ Blank \in MemType(n) /\ [Blank EXCEPT !.fresh = FALSE] = Blank
      /\ Blank.idx = 1 /\ Blank.count = 0
      /\ Blank = [Blank EXCEPT !.count = Blank.count]
  BY BlankFacts, BlankBut
<1> HIDE DEF m, L, C
<1>9. CASE SwitchTick(n)
  <2>1. PICK i \in DOMAIN Children(n) :
          Call(n, status[n], At(m, i),
            IF m.count \in {0, i} THEN {} ELSE {Child(n, m.count)}, i)
    BY <1>9 DEF SwitchTick, m
  <2> DEFINE H == IF m.count \in {0, i} THEN {} ELSE {Child(n, m.count)}
  <2>2. NodeOK(n, status[n], m, FALSE, L, C, FALSE)
    BY <1>4, <1>9, Here DEF SwitchTick, Entered, L, C
  <2>3. /\ SwitchOK(n, status[n], m, FALSE, L, C, FALSE)
    BY <1>6, <2>2
  <2>4. /\ m.count \in 0 .. N(n) /\ L \subseteq {m.count} /\ C = {}
    BY <2>3 DEF SwitchOK
  <2>5. /\ H \subseteq ChildSet(n) /\ L \ Index(n, H) \subseteq {i}
    <3>1. CASE m.count = i
      BY <2>4, <3>1
    <3>2. CASE m.count = 0
      <4>1. L = {}
        BY <1>1, <1>5, <2>4, <3>2
      <4> QED
        BY <3>2, <4>1
    <3>3. CASE m.count # i /\ m.count # 0
      <4>1. m.count \in DOMAIN Children(n) /\ H = {Child(n, m.count)}
        BY <1>5, <2>4, <3>3
      <4>2. /\ Index(n, {Child(n, m.count)}) = {m.count}
            /\ {Child(n, m.count)} \subseteq ChildSet(n)
        <5>1. Index(n, {Child(n, m.count)}) = {m.count}
          BY <1>1, <4>1, IndexFacts
        <5>2. Child(n, m.count) \in ChildSet(n)
          BY <1>1, <4>1, TreeFacts
        <5> QED
          BY <5>1, <5>2
      <4> HIDE DEF H
      <4> QED
        BY <2>4, <4>1, <4>2
    <3> QED
      BY <3>1, <3>2, <3>3
  <2> HIDE DEF H
  <2>6. At(m, i) \in MemType(n) /\ At(m, i).idx = i /\ At(m, i).count = m.count
    BY <1>4 DEF At, MemType
  <2>7. C \ Index(n, H) = {}
    BY <2>4
  <2>8. SwitchOK(n, status[n], At(m, i), TRUE, L \ Index(n, H), C \ Index(n, H), FALSE)
    BY <2>4, <2>5, <2>6, <2>7 DEF SwitchOK
  <2>9. NodeOK(n, status[n], At(m, i), TRUE, L \ Index(n, H), C \ Index(n, H), FALSE)
    BY <1>6, <2>6, <2>8
  <2>10. Call(n, status[n], At(m, i), H, i)
    BY <2>1 DEF H
  <2> QED
    BY <1>1, <1>2, <1>4, <1>5, <1>7, <2>5, <2>6, <2>9, <2>10, CallStep DEF L, C
<1>10. CASE SwitchBack(n)
  <2>1. /\ ret # None
        /\ CASE ret = "SKIPPED" -> Return(n, ret, Blank, {})
             [] ret = "RUNNING" -> Return(n, ret, [Blank EXCEPT !.count = m.idx], {})
             [] OTHER           -> Return(n, ret, Blank, ChildSet(n))
    BY <1>10 DEF SwitchBack, Back, m
  <2>2. ret \in Results
    BY <1>1, <2>1
  <2>3. /\ m.idx \in 1 .. N(n) /\ (ret \in Returning => m.idx \notin L)
        /\ IF ret \in Completed THEN NodeOK(n, status[n], m, TRUE, L, C, TRUE)
           ELSE NodeOK(n, status[n], m, TRUE, L, C, FALSE)
    BY <1>4, <1>5, <1>7, <2>1, Here DEF L, C
  <2>4. L \subseteq {m.idx} /\ (ret \notin Completed => C = {})
    <3>1. CASE ret \in Completed
      <4>1. NodeOK(n, status[n], m, TRUE, L, C, TRUE)
        BY <2>3, <3>1
      <4>2. SwitchOK(n, status[n], m, TRUE, L, C, TRUE)
        BY <1>6, <4>1
      <4> QED
        BY <3>1, <4>2 DEF SwitchOK
    <3>2. CASE ret \notin Completed
      <4>1. NodeOK(n, status[n], m, TRUE, L, C, FALSE)
        BY <2>3, <3>2
      <4>2. SwitchOK(n, status[n], m, TRUE, L, C, FALSE)
        BY <1>6, <4>1
      <4> QED
        BY <3>2, <4>2 DEF SwitchOK
    <3> QED
      BY <3>1, <3>2
  <2>5. CASE ret = "SKIPPED"
    <3>1. Return(n, "SKIPPED", Blank, {}) /\ L = {} /\ C = {}
      BY <1>5, <2>1, <2>3, <2>4, <2>5
    <3>2. SwitchOK(n, status[n], Blank, FALSE, L, C, FALSE)
      BY <1>5, <1>8, <3>1 DEF SwitchOK
    <3>3. NodeOK(n, status[n], Blank, FALSE, L, C, FALSE)
      BY <1>6, <3>1, <3>2
    <3> QED
      BY <1>2, <1>4, <1>5, <1>8, <3>1, <3>3, ReturnNone DEF L, C
  <2>6. CASE ret = "RUNNING"
    <3> DEFINE m1 == [Blank EXCEPT !.count = m.idx]
               m2 == [m1 EXCEPT !.fresh = FALSE]
    <3>1. Return(n, "RUNNING", m1, {}) /\ C = {}
      BY <1>5, <2>1, <2>4, <2>6
    <3>2. m.idx \in 1 .. N(n) /\ m.idx \in Nat
      BY <1>5, <2>3
    <3>3. /\ m1 \in MemType(n) /\ m1.count = m.idx /\ m1.idx = 1 /\ m1.skips = 0
          /\ m1.done = {} /\ ~m1.on /\ ~m1.hit /\ ~m1.fresh
      BY <3>2 DEF Blank, MemType
    <3> HIDE DEF m1
    <3>4. /\ m2 \in MemType(n) /\ m2.count = m.idx /\ m2.idx = 1 /\ m2.skips = 0
          /\ m2.done = {} /\ ~m2.on /\ ~m2.hit /\ ~m2.fresh
      BY <3>3, BlankFacts
    <3> HIDE DEF m2
    <3>5. m2 = [Blank EXCEPT !.count = m2.count]
      BY <3>4, BlankBut
    <3>6. SwitchOK(n, "RUNNING", m2, FALSE, L, C, FALSE)
      BY <1>5, <2>4, <3>1, <3>2, <3>4, <3>5 DEF SwitchOK
    <3>7. NodeOK(n, "RUNNING", m2, FALSE, L, C, FALSE)
      BY <1>6, <3>6
    <3> QED
      BY <1>2, <1>4, <1>5, <3>1, <3>3, <3>7, ReturnNone DEF L, C, m2
  <2>7. CASE ret # "SKIPPED" /\ ret # "RUNNING"
    <3>1. Return(n, ret, Blank, ChildSet(n))
      BY <2>1, <2>7
    <3>2. SwitchOK(n, ret, Blank, FALSE, {}, {}, FALSE)
      BY <1>5, <1>8 DEF SwitchOK
    <3>3. NodeOK(n, ret, Blank, FALSE, {}, {}, FALSE)
      BY <1>6, <3>2
    <3> QED
      BY <1>2, <1>4, <1>5, <1>8, <2>2, <2>7, <3>1, <3>3, ReturnAll
  <2> QED
    BY <2>5, <2>6, <2>7
<1> QED
  BY <1>9, <1>10

-----------------------------------------------------------------------------
(* Decorators                                                              *)

\* What is asked of a decorator beyond what is asked of its child.
DecoratorOK(n, s, m, locked, L) ==
  /\ Kind(n) \in Plain \ {"SubTree"} => (locked => s = "RUNNING")
  /\ Kind(n) \in Loops               => LoopOK(n, s, m, locked, L)
  /\ Kind(n) = "Precondition"        => (locked \/ L # {} => m.on)
  /\ Kind(n) = "Updated"             => UpdatedOK(s, m, locked, L)
  /\ Kind(n) = "RunOnce"             => RunOnceOK(s, m, locked, L)
  /\ Kind(n) = "Loop"                => (~locked /\ L # {} => m.on)
  /\ Kind(n) \in Clocked             => ClockOK(n, s, m, locked, L)

\* A decorator that is ticked, and its one child.
LEMMA DecoratorFacts ==
  ASSUME IInv, NEW n, Inside(n), Kind(n) \in Decorators
  PROVE  /\ DOMAIN Children(n) = {1} /\ \A m : CurIdx(n, m) = 1
         /\ Index(n, ChildSet(n)) = {1} /\ LiveIdx(n) \subseteq {1} /\ DoneIdx(n) \subseteq {1}
         /\ \A s, m, L, C : \A locked, back \in BOOLEAN :
              NodeOK(n, s, m, locked, L, C, back) <=>
                /\ ~locked /\ s # "RUNNING" => L = {}
                /\ C # {} => back
                /\ DecoratorOK(n, s, m, locked, L)
         /\ IF ret = None
            THEN /\ DecoratorOK(n, status[n], Mem(n), FALSE, LiveIdx(n))
                 /\ status[n] # "RUNNING" => LiveIdx(n) = {}
            ELSE /\ DecoratorOK(n, status[n], Mem(n), TRUE, LiveIdx(n))
                 /\ ret \in Returning => LiveIdx(n) = {}
         /\ ret \notin Completed => DoneIdx(n) = {}
<1>1. n \in Nodes /\ tree \in DOMAIN Forest
      /\ LiveIdx(n) \subseteq DOMAIN Children(n) /\ DoneIdx(n) \subseteq DOMAIN Children(n)
  BY Here
<1>2. N(n) = 1 /\ DOMAIN Children(n) = {1}
  <2>1. N(n) = 1 /\ DOMAIN Children(n) = 1 .. N(n)
    BY <1>1, ArityFacts
  <2> QED
    BY <2>1
<1>3. Kind(n) \notin Controls /\ Kind(n) # "Sleep"
  BY DEF Decorators, Controls, Ordered, Sequences_, Fallbacks, Reactives, Parallels, Branches,
         Plain, Loops, Clocked
<1>4. \A m : CurIdx(n, m) = 1
  BY <1>3 DEF CurIdx, Controls, Ordered, Sequences_
<1>5. Index(n, ChildSet(n)) = {1}
  BY <1>1, <1>2, IndexFacts
<1>6. ASSUME NEW s, NEW m, NEW L, NEW C, NEW locked \in BOOLEAN, NEW back \in BOOLEAN
      PROVE  NodeOK(n, s, m, locked, L, C, back) <=>
                /\ ~locked /\ s # "RUNNING" => L = {}
                /\ C # {} => back
                /\ DecoratorOK(n, s, m, locked, L)
  BY <1>2, <1>3, <1>4 DEF NodeOK, DecoratorOK, Controls, Branches
<1>7. CASE ret = None
  <2>1. NodeOK(n, status[n], Mem(n), FALSE, LiveIdx(n), DoneIdx(n), FALSE)
    BY <1>7, Here
  <2>2. /\ status[n] # "RUNNING" => LiveIdx(n) = {}
        /\ DoneIdx(n) = {} /\ DecoratorOK(n, status[n], Mem(n), FALSE, LiveIdx(n))
    BY <1>6, <2>1
  <2> QED
    BY <1>1, <1>2, <1>4, <1>5, <1>6, <1>7, <2>2
<1>8. CASE ret # None
  <2>1. ret \in Completed => NodeOK(n, status[n], Mem(n), TRUE, LiveIdx(n), DoneIdx(n), TRUE)
    BY <1>8, Here
  <2>2. ret \notin Completed => NodeOK(n, status[n], Mem(n), TRUE, LiveIdx(n), DoneIdx(n), FALSE)
    BY <1>8, Here
  <2>3. ret \in Returning => CurIdx(n, Mem(n)) \notin LiveIdx(n)
    BY <1>8, Here
  <2>4. DecoratorOK(n, status[n], Mem(n), TRUE, LiveIdx(n))
    BY <1>6, <2>1, <2>2
  <2>5. ret \notin Completed => DoneIdx(n) = {}
    BY <1>6, <2>2
  <2>6. ret \in Returning => LiveIdx(n) = {}
    BY <1>1, <1>2, <1>4, <2>3
  <2> QED
    BY <1>1, <1>2, <1>4, <1>5, <1>6, <1>8, <2>4, <2>5, <2>6
<1> QED
  BY <1>7, <1>8

\* A decorator that has been entered ticks its child.
LEMMA DecoratorCall ==
  ASSUME IInv, tree' = tree, NEW n, Inside(n), Kind(n) \in Decorators, ret = None,
         NEW s \in Statuses, NEW m, Call(n, s, m, {}, 1),
         value' \in Values \cup {None}, wake' \in BOOLEAN,
         IF n \in DOMAIN mem THEN m \in MemType(n) ELSE m = Blank,
         s \in Completed => status[n] \in Completed,
         DecoratorOK(n, s, m, TRUE, LiveIdx(n)),
         n \in DOMAIN timer => TimerOK(n, s, m, timer[n], stale[n], n \in over)
  PROVE  IInv'
<1>1. None \notin Completed
  BY DEF None, Completed
<1>2. 1 \in DOMAIN Children(n) /\ CurIdx(n, m) = 1 /\ DoneIdx(n) = {}
  BY <1>1, DecoratorFacts
<1>3. NodeOK(n, s, m, TRUE, LiveIdx(n), DoneIdx(n), FALSE)
  BY <1>2, DecoratorFacts
<1> QED
  BY <1>2, <1>3, CallNone

\* A decorator returns s, and halts its child if done.
LEMMA DecoratorReturn ==
  ASSUME IInv, tree' = tree, NEW n, Inside(n), Kind(n) \in Decorators,
         NEW s \in Results, NEW m, NEW done \in BOOLEAN,
         IF done THEN Return(n, s, m, ChildSet(n)) ELSE Return(n, s, m, {}),
         value' \in Values \cup {None}, wake' \in BOOLEAN,
         IF n \in DOMAIN mem THEN m \in MemType(n) ELSE m = Blank,
         ret \in Completed => done,
         done \/ s = "RUNNING" \/ LiveIdx(n) = {},
         DecoratorOK(n, IF s = "SKIPPED" THEN status[n] ELSE s, [m EXCEPT !.fresh = FALSE],
                     FALSE, IF done THEN {} ELSE LiveIdx(n)),
         n \in DOMAIN timer => TimerOK(n, IF s = "SKIPPED" THEN status[n] ELSE s,
                                       [m EXCEPT !.fresh = FALSE],
                                       timer[n], stale[n], n \in over)
  PROVE  IInv'
<1> DEFINE m1 == [m EXCEPT !.fresh = FALSE]
           s1 == IF s = "SKIPPED" THEN status[n] ELSE s
<1>1. /\ DecoratorOK(n, s1, m1, FALSE, IF done THEN {} ELSE LiveIdx(n))
      /\ n \in DOMAIN timer => TimerOK(n, s1, m1, timer[n], stale[n], n \in over)
  OBVIOUS
<1>2. Children(n) # <<>>
  BY Ticked
<1> HIDE DEF m1
<1>3. CASE done
  <2>1. DecoratorOK(n, s1, m1, FALSE, {})
    BY <1>1, <1>3
  <2> HIDE DEF s1
  <2>2. NodeOK(n, s1, m1, FALSE, {}, {}, FALSE)
    BY <2>1, DecoratorFacts
  <2> QED
    BY <1>1, <1>2, <1>3, <2>2, ReturnAll DEF m1, s1
<1>4. CASE ~done
  <2>1. DecoratorOK(n, s1, m1, FALSE, LiveIdx(n)) /\ (s1 # "RUNNING" => LiveIdx(n) = {})
    BY <1>1, <1>4
  <2>2. s = "SKIPPED" => LiveIdx(n) = {}
    BY <1>4
  <2> HIDE DEF s1
  <2>3. DoneIdx(n) = {}
    BY <1>4, DecoratorFacts
  <2>4. NodeOK(n, s1, m1, FALSE, LiveIdx(n), DoneIdx(n), FALSE)
    BY <2>1, <2>3, DecoratorFacts
  <2> QED
    BY <1>1, <1>2, <1>4, <2>2, <2>4, ReturnNone DEF m1, s1
<1> QED
  BY <1>3, <1>4

\* Inverter, ForceSuccess, ForceFailure, KeepRunningUntilFailure and SubTree.
LEMMA PlainKeeps ==
  ASSUME IInv, NEW n, Inside(n), PlainTick(n) \/ PlainBack(n)
  PROVE  IInv'
<1>1. Kind(n) \in Plain /\ tree' = tree /\ value' = value /\ wake' = wake
  BY DEF PlainTick, PlainBack, Entered, Back
<1>2. Kind(n) \in Decorators
  BY <1>1 DEF Decorators
<1>3. n \notin DOMAIN mem /\ n \notin DOMAIN timer /\ status[n] \in Statuses
      /\ Mem(n) = Blank /\ ret \in Results \cup {None}
  BY <1>1, Here DEF Plain, WithMem, Timed, Sequences_, Fallbacks, Reactives, Parallels, Branches
<1>4. /\ value' \in Values \cup {None} /\ wake' \in BOOLEAN
      /\ Completed \subseteq Results /\ Completed \subseteq Returning
      /\ "RUNNING" \in Results /\ "RUNNING" \in Statuses /\ "RUNNING" \notin Completed
      /\ \A s \in Results : s # "RUNNING" => s \in Returning
  BY <1>1, <1>2, Ticked DEF Completed, Returning
<1>5. \A s, m, L : \A locked \in BOOLEAN :
        DecoratorOK(n, s, m, locked, L) <=> (Kind(n) # "SubTree" /\ locked => s = "RUNNING")
  BY <1>1 DEF DecoratorOK, Plain, Loops, Clocked
<1>6. CASE PlainTick(n)
  <2> DEFINE s == IF Kind(n) = "SubTree" THEN RunningIfIdle(n) ELSE "RUNNING"
  <2>1. Call(n, s, Blank, {}, 1) /\ ret = None
    BY <1>6 DEF PlainTick, Entered
  <2>2. /\ s \in Statuses /\ (s \in Completed => status[n] \in Completed)
        /\ Kind(n) # "SubTree" => s = "RUNNING"
    BY <1>3, <1>4 DEF RunningIfIdle
  <2> HIDE DEF s
  <2>3. DecoratorOK(n, s, Blank, TRUE, LiveIdx(n))
    BY <1>5, <2>2
  <2> QED
    BY <1>1, <1>2, <1>3, <1>4, <2>1, <2>2, <2>3, DecoratorCall
<1>7. CASE PlainBack(n)
  <2> DEFINE s    == PlainResult(n)
             done == ret \in Completed
  <2>1. Return(n, s, Blank, Finished(n)) /\ ret # None
    BY <1>7 DEF PlainBack, Back
  <2>2. s \in Results /\ (ret = "RUNNING" => s = "RUNNING")
    BY <1>1, <1>3, <1>4, <2>1 DEF PlainResult, Plain, Completed
  <2> HIDE DEF s
  <2>3. IF done THEN Return(n, s, Blank, ChildSet(n)) ELSE Return(n, s, Blank, {})
    BY <2>1 DEF Finished
  <2>4. done \/ s = "RUNNING" \/ LiveIdx(n) = {}
    <3>1. ret = "RUNNING" \/ ret \in Returning
      BY <1>3, <1>4, <2>1
    <3> QED
      BY <1>2, <2>1, <2>2, <3>1, DecoratorFacts
  <2>5. DecoratorOK(n, IF s = "SKIPPED" THEN status[n] ELSE s, [Blank EXCEPT !.fresh = FALSE],
                     FALSE, IF done THEN {} ELSE LiveIdx(n))
    BY <1>5
  <2> QED
    BY <1>1, <1>2, <1>3, <1>4, <2>2, <2>3, <2>4, <2>5, DecoratorReturn
<1> QED
  BY <1>6, <1>7

\* Repeat and RetryUntilSuccessful.
LEMMA LoopKeeps ==
  ASSUME IInv, NEW n, Inside(n), LoopTick(n) \/ LoopAgain(n) \/ LoopBack(n)
  PROVE  IInv'
<1> DEFINE m == mem[n]
           L == LiveIdx(n)
<1>1. Kind(n) \in Loops /\ tree' = tree /\ value' = value /\ wake' \in {wake, TRUE}
  BY DEF LoopTick, LoopAgain, LoopBack, Entered, Back
<1>2. Kind(n) \in Decorators
  BY <1>1 DEF Decorators
<1>3. /\ n \in DOMAIN mem /\ n \notin DOMAIN timer /\ status[n] \in Statuses
      /\ Mem(n) = m /\ m \in MemType(n) /\ ret \in Results \cup {None}
  BY <1>1, Here DEF Loops, WithMem, Timed
<1>4. /\ value' \in Values \cup {None} /\ wake' \in BOOLEAN
      /\ "RUNNING" \in Results /\ "RUNNING" \in Statuses /\ "RUNNING" \notin Completed
      /\ \A s \in Results : s # "RUNNING" => s \in Returning
      /\ Again(n) \in Results /\ Again(n) # "SKIPPED" /\ Again(n) # "RUNNING" /\ Again(n) # None
      /\ Again(n) \in Returning
  BY <1>1, <1>2, Ticked DEF Again, Results, Completed, None, Returning
<1>5. \A s, m2, L2 : \A locked \in BOOLEAN :
        DecoratorOK(n, s, m2, locked, L2) <=> LoopOK(n, s, m2, locked, L2)
  BY <1>1 DEF DecoratorOK, Plain, Loops, Clocked
<1>6. Blank \in MemType(n) /\ [Blank EXCEPT !.fresh = FALSE] = Blank
  BY BlankFacts
<1>7. IF ret = None
      THEN LoopOK(n, status[n], m, FALSE, L) /\ (status[n] # "RUNNING" => L = {})
      ELSE LoopOK(n, status[n], m, TRUE, L) /\ (ret \in Returning => L = {})
  <2>1. CASE ret = None
    <3>1. DecoratorOK(n, status[n], Mem(n), FALSE, L) /\ (status[n] # "RUNNING" => L = {})
      BY <1>2, <2>1, DecoratorFacts
    <3> QED
      BY <1>3, <1>5, <2>1, <3>1
  <2>2. CASE ret # None
    <3>1. DecoratorOK(n, status[n], Mem(n), TRUE, L) /\ (ret \in Returning => L = {})
      BY <1>2, <2>2, DecoratorFacts
    <3> QED
      BY <1>3, <1>5, <2>2, <3>1
  <2> QED
    BY <2>1, <2>2
<1> HIDE DEF m, L
<1>8. ASSUME NEW s \in Results, Return(n, s, Blank, ChildSet(n)),
             s = "SKIPPED" => status[n] = "RUNNING"
      PROVE  IInv'
  <2>1. LoopOK(n, IF s = "SKIPPED" THEN status[n] ELSE s, [Blank EXCEPT !.fresh = FALSE],
               FALSE, {})
    BY <1>6, <1>8 DEF LoopOK
  <2>2. DecoratorOK(n, IF s = "SKIPPED" THEN status[n] ELSE s, [Blank EXCEPT !.fresh = FALSE],
                    FALSE, IF TRUE THEN {} ELSE LiveIdx(n))
    BY <1>5, <2>1
  <2> QED
    BY <1>1, <1>2, <1>3, <1>4, <1>6, <1>8, <2>2, DecoratorReturn
<1>9. CASE LoopTick(n)
  <2>1. /\ ret = None
        /\ IF Goes(n, m.count)
           THEN Call(n, "RUNNING", [m EXCEPT !.fresh = ChildIdle(n)], {}, 1)
           ELSE Return(n, Again(n), Blank, {})
    BY <1>9 DEF LoopTick, Entered, m
  <2>2. LoopOK(n, status[n], m, FALSE, L) /\ (status[n] # "RUNNING" => L = {})
    BY <1>7, <2>1
  <2>3. CASE Goes(n, m.count)
    <3>1. PICK f \in BOOLEAN : Call(n, "RUNNING", [m EXCEPT !.fresh = f], {}, 1)
      BY <2>1, <2>3, Zenon DEF ChildIdle
    <3> DEFINE m1 == [m EXCEPT !.fresh = f]
    <3>2. m1 \in MemType(n) /\ m1.count = m.count /\ Call(n, "RUNNING", m1, {}, 1)
      BY <1>3, <3>1 DEF MemType
    <3> HIDE DEF m1
    <3>3. LoopOK(n, "RUNNING", m1, TRUE, L)
      BY <2>3, <3>2 DEF LoopOK
    <3>4. DecoratorOK(n, "RUNNING", m1, TRUE, L)
      BY <1>5, <3>3
    <3> QED
      BY <1>1, <1>2, <1>3, <1>4, <2>1, <3>2, <3>4, DecoratorCall DEF L
  <2>4. CASE ~Goes(n, m.count)
    <3>1. Return(n, Again(n), Blank, {}) /\ L = {}
      BY <2>1, <2>2, <2>4 DEF LoopOK
    <3>2. LoopOK(n, IF Again(n) = "SKIPPED" THEN status[n] ELSE Again(n),
                 [Blank EXCEPT !.fresh = FALSE], FALSE, L)
      BY <1>4, <1>6, <3>1 DEF LoopOK
    <3>3. DecoratorOK(n, IF Again(n) = "SKIPPED" THEN status[n] ELSE Again(n),
                      [Blank EXCEPT !.fresh = FALSE], FALSE, IF FALSE THEN {} ELSE L)
      BY <1>5, <3>2
    <3>4. ret \notin Completed
      BY <2>1 DEF None, Completed
    <3> QED
      BY <1>1, <1>2, <1>3, <1>4, <1>6, <3>1, <3>3, <3>4, DecoratorReturn DEF L
  <2> QED
    BY <2>3, <2>4
<1>10. CASE LoopAgain(n)
  <2> DEFINE count == IF Port("param", n) = -1 THEN 0 ELSE m.count + 1
             m1    == [Blank EXCEPT !.count = count, !.fresh = TRUE]
             m2    == [m1 EXCEPT !.fresh = FALSE]
  <2>1. /\ ret = Again(n)
        /\ \/ ~Goes(n, count) /\ Return(n, Again(n), Blank, ChildSet(n))
           \/ Goes(n, count) /\ Return(n, "RUNNING", m1, ChildSet(n))
           \/ Goes(n, count) /\ Call(n, "RUNNING", m1, ChildSet(n), 1)
    BY <1>10 DEF LoopAgain, m
  <2>2. count \in Nat
    BY <1>3 DEF MemType
  <2> HIDE DEF count
  <2>3. m1 \in MemType(n) /\ m1.count = count
    BY <2>2 DEF Blank, MemType
  <2> HIDE DEF m1
  <2>4. m2.count = count
    BY <2>3, BlankFacts
  <2> HIDE DEF m2
  <2>5. CASE Return(n, Again(n), Blank, ChildSet(n))
    BY <1>4, <1>8, <2>5
  <2>6. CASE Goes(n, count) /\ Return(n, "RUNNING", m1, ChildSet(n))
    <3>1. LoopOK(n, "RUNNING", m2, FALSE, {})
      BY <2>4, <2>6 DEF LoopOK
    <3>2. DecoratorOK(n, "RUNNING", m2, FALSE, IF TRUE THEN {} ELSE LiveIdx(n))
      BY <1>5, <3>1
    <3> QED
      BY <1>1, <1>2, <1>3, <1>4, <2>3, <2>6, <3>2, DecoratorReturn DEF m2
  <2>7. CASE Goes(n, count) /\ Call(n, "RUNNING", m1, ChildSet(n), 1)
    <3> DEFINE H  == ChildSet(n)
               L2 == LiveIdx(n) \ Index(n, H)
               C2 == DoneIdx(n) \ Index(n, H)
    <3>1. /\ L2 = {} /\ C2 = {}
          /\ CurIdx(n, m1) = 1 /\ 1 \in DOMAIN Children(n) /\ H \subseteq ChildSet(n)
      BY <1>2, DecoratorFacts
    <3> HIDE DEF H, L2, C2
    <3>2. LoopOK(n, "RUNNING", m1, TRUE, L2)
      BY <2>3, <2>7 DEF LoopOK
    <3>3. DecoratorOK(n, "RUNNING", m1, TRUE, L2)
      BY <1>5, <3>2
    <3>4. NodeOK(n, "RUNNING", m1, TRUE, L2, C2, FALSE)
      BY <1>2, <3>1, <3>3, DecoratorFacts
    <3>5. Call(n, "RUNNING", m1, H, 1)
      BY <2>7 DEF H
    <3> QED
      BY <1>1, <1>3, <1>4, <2>3, <3>1, <3>4, <3>5, CallStep DEF L2, C2
  <2> QED
    BY <2>1, <2>5, <2>6, <2>7
<1>11. CASE LoopBack(n)
  <2>1. /\ ret # None /\ ret # Again(n)
        /\ Return(n, ret, IF ret \in Completed THEN Blank ELSE m,
                  IF ret = "RUNNING" THEN {} ELSE ChildSet(n))
    BY <1>11 DEF LoopBack, Back, m
  <2>2. LoopOK(n, status[n], m, TRUE, L) /\ (ret \in Returning => L = {}) /\ ret \in Results
    BY <1>3, <1>7, <2>1
  <2>3. status[n] = "RUNNING" /\ Goes(n, m.count)
    BY <2>2 DEF LoopOK
  <2> DEFINE m2 == [m EXCEPT !.fresh = FALSE]
  <2>4. m2.count = m.count
    BY <1>3, BlankFacts
  <2> HIDE DEF m2
  <2>5. CASE ret \in Completed
    BY <1>4, <1>8, <2>1, <2>2, <2>3, <2>5
  <2>6. CASE ret = "RUNNING"
    <3>1. Return(n, "RUNNING", m, {})
      BY <1>4, <2>1, <2>6
    <3>2. LoopOK(n, "RUNNING", m2, FALSE, L)
      BY <2>3, <2>4 DEF LoopOK
    <3>3. DecoratorOK(n, "RUNNING", m2, FALSE, IF FALSE THEN {} ELSE L)
      BY <1>5, <3>2
    <3> QED
      BY <1>1, <1>2, <1>3, <1>4, <2>6, <3>1, <3>3, DecoratorReturn DEF L, m2
  <2>7. CASE ret = "SKIPPED" /\ ret \notin Completed
    <3>1. Return(n, "SKIPPED", m, ChildSet(n)) /\ "SKIPPED" \in Results
      BY <1>4, <2>1, <2>2, <2>7
    <3>2. LoopOK(n, "RUNNING", m2, FALSE, {})
      BY <2>3, <2>4 DEF LoopOK
    <3>3. DecoratorOK(n, status[n], m2, FALSE, IF TRUE THEN {} ELSE LiveIdx(n))
      BY <1>5, <2>3, <3>2
    <3> QED
      BY <1>1, <1>2, <1>3, <1>4, <3>1, <3>3, DecoratorReturn DEF m2
  <2> QED
    BY <2>2, <2>5, <2>6, <2>7 DEF Results
<1> QED
  BY <1>9, <1>10, <1>11

\* Precondition.
LEMMA PreconditionKeeps ==
  ASSUME IInv, NEW n, Inside(n), PreconditionTick(n) \/ PreconditionBack(n)
  PROVE  IInv'
<1> DEFINE m == mem[n]
           L == LiveIdx(n)
<1>1. Kind(n) = "Precondition" /\ tree' = tree /\ value' = value /\ wake' = wake
  BY DEF PreconditionTick, PreconditionBack, Entered, Back
<1>2. Kind(n) \in Decorators
  BY <1>1 DEF Decorators
<1>3. /\ n \in DOMAIN mem /\ n \notin DOMAIN timer /\ status[n] \in Statuses
      /\ Mem(n) = m /\ m \in MemType(n) /\ ret \in Results \cup {None}
  BY <1>1, Here DEF WithMem, Timed
<1>4. /\ value' \in Values \cup {None} /\ wake' \in BOOLEAN /\ "RUNNING" \notin Completed
      /\ \A s \in Results : s # "RUNNING" => s \in Returning
      /\ None \notin Completed
  BY <1>1, <1>2, Ticked DEF None, Completed
<1>5. \A s, m2, L2 : \A locked \in BOOLEAN :
        DecoratorOK(n, s, m2, locked, L2) <=> (locked \/ L2 # {} => m2.on)
  BY <1>1 DEF DecoratorOK, Plain, Loops, Clocked
<1>6. /\ ret = None => (L # {} => m.on)
      /\ ret # None => m.on /\ (ret \in Returning => L = {})
  <2>1. CASE ret = None
    <3>1. DecoratorOK(n, status[n], Mem(n), FALSE, L)
      BY <1>2, <2>1, DecoratorFacts
    <3> QED
      BY <1>3, <1>5, <2>1, <3>1
  <2>2. CASE ret # None
    <3>1. DecoratorOK(n, status[n], Mem(n), TRUE, L) /\ (ret \in Returning => L = {})
      BY <1>2, <2>2, DecoratorFacts
    <3> QED
      BY <1>3, <1>5, <2>2, <3>1
  <2> QED
    BY <2>1, <2>2
<1> HIDE DEF m, L
<1>7. CASE PreconditionTick(n)
  <2>1. ret = None
    BY <1>7 DEF PreconditionTick, Entered
  <2>2. \/ Call(n, status[n], [m EXCEPT !.on = TRUE], {}, 1)
        \/ ~m.on /\ Return(n, Port("else", n), m, {})
    <3>1. PICK holds \in CASE m.on                   -> {TRUE}
                           [] ~m.on /\ Has("cond", n) -> {value \in Port("cond", n)}
                           [] OTHER                   -> BOOLEAN :
            IF holds THEN Call(n, status[n], [m EXCEPT !.on = TRUE], {}, 1)
            ELSE Return(n, Port("else", n), m, {})
      BY <1>7, Zenon DEF PreconditionTick, m
    <3>2. CASE m.on
      BY <3>1, <3>2
    <3>3. CASE ~m.on
      BY <3>1, <3>3
    <3> QED
      BY <3>2, <3>3
  <2>3. CASE Call(n, status[n], [m EXCEPT !.on = TRUE], {}, 1)
    <3> DEFINE m1 == [m EXCEPT !.on = TRUE]
    <3>1. m1 \in MemType(n) /\ m1.on /\ Call(n, status[n], m1, {}, 1)
      BY <1>3, <2>3 DEF MemType
    <3> HIDE DEF m1
    <3>2. DecoratorOK(n, status[n], m1, TRUE, L)
      BY <1>5, <3>1
    <3> QED
      BY <1>1, <1>2, <1>3, <1>4, <2>1, <3>1, <3>2, DecoratorCall DEF L
  <2>4. CASE ~m.on /\ Return(n, Port("else", n), m, {})
    <3> DEFINE s  == Port("else", n)
               s1 == IF s = "SKIPPED" THEN status[n] ELSE s
               m2 == [m EXCEPT !.fresh = FALSE]
    <3>1. s \in Results
      <4>1. n \in Nodes /\ tree \in DOMAIN Forest
        BY Here
      <4> QED
        BY <1>1, <4>1, ArityFacts
    <3>2. L = {}
      BY <1>6, <2>1, <2>4
    <3> HIDE DEF s1, m2
    <3>3. DecoratorOK(n, s1, m2, FALSE, IF FALSE THEN {} ELSE L)
      BY <1>5, <3>2
    <3>4. Return(n, s, m, {})
      BY <2>4
    <3> HIDE DEF s
    <3> QED
      BY <1>1, <1>2, <1>3, <1>4, <2>1, <3>1, <3>2, <3>3, <3>4, DecoratorReturn DEF L, m2, s1
  <2> QED
    BY <2>2, <2>3, <2>4
<1>8. CASE PreconditionBack(n)
  <2>1. /\ ret # None
        /\ Return(n, ret, IF ret \in Completed THEN Blank ELSE m,
                  IF ret \in Completed THEN ChildSet(n) ELSE {})
    BY <1>8 DEF PreconditionBack, Back, Finished, m
  <2>2. ret \in Results /\ m.on /\ (ret \in Returning => L = {})
    BY <1>3, <1>6, <2>1
  <2> DEFINE m0   == IF ret \in Completed THEN Blank ELSE m
             m2   == [m0 EXCEPT !.fresh = FALSE]
             s1   == IF ret = "SKIPPED" THEN status[n] ELSE ret
             done == ret \in Completed
  <2>3. m0 \in MemType(n) /\ (~done => m2.on)
    BY <1>3, <2>2, BlankFacts
  <2>4. IF done THEN Return(n, ret, m0, ChildSet(n)) ELSE Return(n, ret, m0, {})
    BY <2>1
  <2> HIDE DEF m0, m2, s1
  <2>5. DecoratorOK(n, s1, m2, FALSE, IF done THEN {} ELSE L)
    BY <1>5, <2>3
  <2>6. done \/ ret = "RUNNING" \/ L = {}
    BY <1>4, <2>2
  <2> QED
    BY <1>1, <1>2, <1>3, <1>4, <2>2, <2>3, <2>4, <2>5, <2>6, DecoratorReturn DEF L, m2, s1
<1> QED
  BY <1>7, <1>8

\* SkipUnlessUpdated and WaitValueUpdate.
LEMMA UpdatedKeeps ==
  ASSUME IInv, NEW n, Inside(n), UpdatedTick(n) \/ UpdatedBack(n)
  PROVE  IInv'
<1> DEFINE m == mem[n]
           L == LiveIdx(n)
<1>1. Kind(n) = "Updated" /\ tree' = tree /\ value' = value /\ wake' = wake
  BY DEF UpdatedTick, UpdatedBack, Entered, Back
<1>2. Kind(n) \in Decorators
  BY <1>1 DEF Decorators
<1>3. /\ n \in DOMAIN mem /\ n \notin DOMAIN timer /\ status[n] \in Statuses
      /\ Mem(n) = m /\ m \in MemType(n) /\ ret \in Results \cup {None}
  BY <1>1, Here DEF WithMem, Timed
<1>4. /\ value' \in Values \cup {None} /\ wake' \in BOOLEAN /\ "RUNNING" \notin Completed
      /\ \A s \in Results : s # "RUNNING" => s \in Returning
      /\ None \notin Completed
  BY <1>1, <1>2, Ticked DEF None, Completed
<1>5. \A s, m2, L2 : \A locked \in BOOLEAN :
        DecoratorOK(n, s, m2, locked, L2) <=> UpdatedOK(s, m2, locked, L2)
  BY <1>1 DEF DecoratorOK, Plain, Loops, Clocked
<1>6. IF ret = None
      THEN UpdatedOK(status[n], m, FALSE, L) /\ (status[n] # "RUNNING" => L = {})
      ELSE UpdatedOK(status[n], m, TRUE, L) /\ (ret \in Returning => L = {})
  <2>1. CASE ret = None
    <3>1. DecoratorOK(n, status[n], Mem(n), FALSE, L) /\ (status[n] # "RUNNING" => L = {})
      BY <1>2, <2>1, DecoratorFacts
    <3> QED
      BY <1>3, <1>5, <2>1, <3>1
  <2>2. CASE ret # None
    <3>1. DecoratorOK(n, status[n], Mem(n), TRUE, L) /\ (ret \in Returning => L = {})
      BY <1>2, <2>2, DecoratorFacts
    <3> QED
      BY <1>3, <1>5, <2>2, <3>1
  <2> QED
    BY <2>1, <2>2
<1> HIDE DEF m, L
<1>7. m = [Blank EXCEPT !.on = m.on]
  BY <1>6 DEF UpdatedOK
<1>8. ASSUME NEW on \in BOOLEAN
      PROVE  /\ [m EXCEPT !.on = on] \in MemType(n)
             /\ [[m EXCEPT !.on = on] EXCEPT !.fresh = FALSE].on = on
             /\ [[m EXCEPT !.on = on] EXCEPT !.fresh = FALSE] = [Blank EXCEPT !.on = on]
  <2> DEFINE a == [m EXCEPT !.on = on]
             b == [a EXCEPT !.fresh = FALSE]
  <2>1. /\ m.idx = 1 /\ m.skips = 0 /\ m.count = 0 /\ m.done = {} /\ ~m.hit /\ ~m.fresh
    BY <1>3, <1>7, BlankBut
  <2>2. /\ a \in MemType(n) /\ a.idx = m.idx /\ a.skips = m.skips /\ a.count = m.count
        /\ a.done = m.done /\ a.on = on /\ a.hit = m.hit /\ a.fresh = m.fresh
    BY <1>3 DEF MemType
  <2> HIDE DEF a
  <2>3. /\ b \in MemType(n) /\ b.idx = a.idx /\ b.skips = a.skips /\ b.count = a.count
        /\ b.done = a.done /\ b.on = a.on /\ b.hit = a.hit /\ ~b.fresh
    BY <2>2, BlankFacts
  <2> HIDE DEF b
  <2>4. b = [Blank EXCEPT !.on = b.on] /\ b.on = on
    BY <2>1, <2>2, <2>3, BlankBut
  <2> QED
    BY <2>2, <2>4 DEF a, b
<1>9. CASE UpdatedTick(n)
  <2>1. /\ ret = None
        /\ Call(n, status[n], m, {}, 1) \/ (~m.on /\ Return(n, Port("else", n), m, {}))
    BY <1>9 DEF UpdatedTick, Entered, m
  <2>2. CASE Call(n, status[n], m, {}, 1)
    <3>1. UpdatedOK(status[n], m, TRUE, L)
      BY <1>7 DEF UpdatedOK
    <3>2. DecoratorOK(n, status[n], m, TRUE, L)
      BY <1>5, <3>1
    <3> QED
      BY <1>1, <1>2, <1>3, <1>4, <2>1, <2>2, <3>2, DecoratorCall DEF L
  <2>3. CASE ~m.on /\ Return(n, Port("else", n), m, {})
    <3> DEFINE s  == Port("else", n)
               s1 == IF s = "SKIPPED" THEN status[n] ELSE s
               m2 == [m EXCEPT !.fresh = FALSE]
    <3>1. s \in Results
      <4>1. n \in Nodes /\ tree \in DOMAIN Forest
        BY Here
      <4> QED
        BY <1>1, <4>1, ArityFacts
    <3>2. L = {}
      BY <1>6, <2>1, <2>3 DEF UpdatedOK
    <3>3. m2 = [Blank EXCEPT !.on = m2.on] /\ ~m2.on
      <4>1. /\ m.idx = 1 /\ m.skips = 0 /\ m.count = 0 /\ m.done = {} /\ ~m.hit /\ ~m.fresh
        BY <1>3, <1>7, BlankBut
      <4>2. /\ m2 \in MemType(n) /\ m2.idx = m.idx /\ m2.skips = m.skips /\ m2.count = m.count
            /\ m2.done = m.done /\ m2.on = m.on /\ m2.hit = m.hit /\ ~m2.fresh
        BY <1>3, BlankFacts
      <4> HIDE DEF m2
      <4> QED
        BY <2>3, <4>1, <4>2, BlankBut
    <3> HIDE DEF s1, m2
    <3>4. UpdatedOK(s1, m2, FALSE, L)
      BY <3>2, <3>3 DEF UpdatedOK
    <3>5. DecoratorOK(n, s1, m2, FALSE, IF FALSE THEN {} ELSE L)
      BY <1>5, <3>4
    <3>6. Return(n, s, m, {})
      BY <2>3
    <3> HIDE DEF s
    <3> QED
      BY <1>1, <1>2, <1>3, <1>4, <2>1, <3>1, <3>2, <3>5, <3>6, DecoratorReturn DEF L, m2, s1
  <2> QED
    BY <2>1, <2>2, <2>3
<1>10. CASE UpdatedBack(n)
  <2> DEFINE on   == ret = "RUNNING"
             m0   == [m EXCEPT !.on = on]
             m2   == [m0 EXCEPT !.fresh = FALSE]
             s1   == IF ret = "SKIPPED" THEN status[n] ELSE ret
             done == ret \in Completed
  <2>1. /\ ret # None
        /\ Return(n, ret, m0, IF done THEN ChildSet(n) ELSE {})
    BY <1>10 DEF UpdatedBack, Back, Finished, m
  <2>2. ret \in Results /\ (ret \in Returning => L = {})
    BY <1>3, <1>6, <2>1
  <2>3. on \in BOOLEAN /\ (on <=> ret = "RUNNING")
    OBVIOUS
  <2> HIDE DEF on
  <2>4. m0 \in MemType(n) /\ m2.on = on /\ m2 = [Blank EXCEPT !.on = on]
    BY <1>8, <2>3, Zenon
  <2>5. IF done THEN Return(n, ret, m0, ChildSet(n)) ELSE Return(n, ret, m0, {})
    BY <2>1
  <2> HIDE DEF m0, m2
  <2>6. UpdatedOK(s1, m2, FALSE, IF done THEN {} ELSE L)
    BY <1>4, <2>2, <2>3, <2>4 DEF UpdatedOK
  <2> HIDE DEF s1
  <2>7. DecoratorOK(n, s1, m2, FALSE, IF done THEN {} ELSE L)
    BY <1>5, <2>6
  <2>8. done \/ ret = "RUNNING" \/ L = {}
    BY <1>4, <2>2
  <2> QED
    BY <1>1, <1>2, <1>3, <1>4, <2>2, <2>4, <2>5, <2>7, <2>8, DecoratorReturn DEF L, m2, s1
<1> QED
  BY <1>9, <1>10

\* RunOnce.
LEMMA RunOnceKeeps ==
  ASSUME IInv, NEW n, Inside(n), RunOnceTick(n) \/ RunOnceBack(n)
  PROVE  IInv'
<1> DEFINE m == mem[n]
           L == LiveIdx(n)
<1>1. Kind(n) = "RunOnce" /\ tree' = tree /\ value' = value /\ wake' = wake
  BY DEF RunOnceTick, RunOnceBack, Entered, Back
<1>2. Kind(n) \in Decorators
  BY <1>1 DEF Decorators
<1>3. /\ n \in DOMAIN mem /\ n \notin DOMAIN timer /\ status[n] \in Statuses
      /\ Mem(n) = m /\ m \in MemType(n) /\ ret \in Results \cup {None}
  BY <1>1, Here DEF WithMem, Timed
<1>4. /\ value' \in Values \cup {None} /\ wake' \in BOOLEAN /\ "RUNNING" \notin Completed
      /\ \A s \in Results : s # "RUNNING" => s \in Returning
      /\ None \notin Completed /\ "RUNNING" \in Statuses /\ "SKIPPED" \in Results
  BY <1>1, <1>2, Ticked DEF None, Completed, Returning
<1>5. \A s, m2, L2 : \A locked \in BOOLEAN :
        DecoratorOK(n, s, m2, locked, L2) <=> RunOnceOK(s, m2, locked, L2)
  BY <1>1 DEF DecoratorOK, Plain, Loops, Clocked
<1>6. IF ret = None THEN RunOnceOK(status[n], m, FALSE, L)
      ELSE RunOnceOK(status[n], m, TRUE, L) /\ (ret \in Returning => L = {})
  <2>1. CASE ret = None
    <3>1. DecoratorOK(n, status[n], Mem(n), FALSE, L)
      BY <1>2, <2>1, DecoratorFacts
    <3> QED
      BY <1>3, <1>5, <2>1, <3>1
  <2>2. CASE ret # None
    <3>1. DecoratorOK(n, status[n], Mem(n), TRUE, L) /\ (ret \in Returning => L = {})
      BY <1>2, <2>2, DecoratorFacts
    <3> QED
      BY <1>3, <1>5, <2>2, <3>1
  <2> QED
    BY <2>1, <2>2
<1> HIDE DEF m, L
<1>7. CASE RunOnceTick(n)
  <2>1. /\ ret = None
        /\ IF m.on THEN Return(n, "SKIPPED", m, {}) ELSE Call(n, "RUNNING", m, {}, 1)
    BY <1>7 DEF RunOnceTick, Entered, m
  <2>2. CASE m.on
    <3> DEFINE m2 == [m EXCEPT !.fresh = FALSE]
    <3>1. Return(n, "SKIPPED", m, {}) /\ L = {}
      BY <1>6, <2>1, <2>2 DEF RunOnceOK
    <3> HIDE DEF m2
    <3>2. RunOnceOK(status[n], m2, FALSE, L)
      BY <3>1 DEF RunOnceOK
    <3>3. DecoratorOK(n, status[n], m2, FALSE, IF FALSE THEN {} ELSE L)
      BY <1>5, <3>2
    <3> QED
      BY <1>1, <1>2, <1>3, <1>4, <2>1, <3>1, <3>3, DecoratorReturn DEF L, m2
  <2>3. CASE ~m.on
    <3>1. Call(n, "RUNNING", m, {}, 1)
      BY <2>1, <2>3
    <3>2. RunOnceOK("RUNNING", m, TRUE, L)
      BY <2>3 DEF RunOnceOK
    <3>3. DecoratorOK(n, "RUNNING", m, TRUE, L)
      BY <1>5, <3>2
    <3> QED
      BY <1>1, <1>2, <1>3, <1>4, <2>1, <3>1, <3>3, DecoratorCall DEF L
  <2> QED
    BY <2>2, <2>3
<1>8. CASE RunOnceBack(n)
  <2> DEFINE done == ret \in Completed
             m0   == [m EXCEPT !.on = done]
             m2   == [m0 EXCEPT !.fresh = FALSE]
             s1   == IF ret = "SKIPPED" THEN status[n] ELSE ret
  <2>1. /\ ret # None
        /\ Return(n, ret, m0, IF done THEN ChildSet(n) ELSE {})
    BY <1>8 DEF RunOnceBack, Back, Finished, m
  <2>2. ret \in Results /\ (ret \in Returning => L = {})
    BY <1>3, <1>6, <2>1
  <2>3. IF done THEN Return(n, ret, m0, ChildSet(n)) ELSE Return(n, ret, m0, {})
    BY <2>1
  <2>4. m0 \in MemType(n) /\ m0.on = done /\ (ret \in Completed => done)
    <3>1. done \in BOOLEAN /\ (ret \in Completed => done)
      OBVIOUS
    <3> HIDE DEF done
    <3> QED
      BY <1>3, <3>1 DEF MemType
  <2> HIDE DEF m0
  <2>5. m2.on = done
    BY <2>4, BlankFacts
  <2> HIDE DEF m2, s1
  <2>6. RunOnceOK(s1, m2, FALSE, IF done THEN {} ELSE L)
    BY <2>5 DEF RunOnceOK
  <2>7. DecoratorOK(n, s1, m2, FALSE, IF done THEN {} ELSE L)
    BY <1>5, <2>6
  <2>8. done \/ ret = "RUNNING" \/ L = {}
    BY <1>4, <2>2
  <2> QED
    BY <1>1, <1>2, <1>3, <1>4, <2>2, <2>3, <2>4, <2>7, <2>8, DecoratorReturn DEF L, m2, s1
<1> QED
  BY <1>7, <1>8

\* LoopNode.
LEMMA QueueKeeps ==
  ASSUME IInv, NEW n, Inside(n), QueueTick(n) \/ QueueBack(n)
  PROVE  IInv'
<1> DEFINE m == mem[n]
           L == LiveIdx(n)
<1>1. Kind(n) = "Loop" /\ tree' = tree /\ value' = value /\ wake' = wake
  BY DEF QueueTick, QueueBack, Entered, Back
<1>2. Kind(n) \in Decorators
  BY <1>1 DEF Decorators
<1>3. /\ n \in DOMAIN mem /\ n \notin DOMAIN timer /\ status[n] \in Statuses
      /\ Mem(n) = m /\ m \in MemType(n) /\ ret \in Results \cup {None}
  BY <1>1, Here DEF WithMem, Timed
<1>4. /\ value' \in Values \cup {None} /\ wake' \in BOOLEAN /\ "RUNNING" \notin Completed
      /\ \A s \in Results : s # "RUNNING" => s \in Returning
      /\ None \notin Completed /\ "RUNNING" \in Statuses /\ "RUNNING" \in Results
      /\ "FAILURE" \in Results /\ "FAILURE" \in Completed
  BY <1>1, <1>2, Ticked DEF None, Completed
<1>5. \A s, m2, L2 : \A locked \in BOOLEAN :
        DecoratorOK(n, s, m2, locked, L2) <=> (~locked /\ L2 # {} => m2.on)
  BY <1>1 DEF DecoratorOK, Plain, Loops, Clocked
<1>6. /\ ret = None => (L # {} => m.on) /\ (status[n] # "RUNNING" => L = {})
      /\ ret \in Returning => L = {}
  <2>1. CASE ret = None
    <3>1. DecoratorOK(n, status[n], Mem(n), FALSE, L) /\ (status[n] # "RUNNING" => L = {})
      BY <1>2, <2>1, DecoratorFacts
    <3>2. None \notin Returning
      BY DEF None, Returning
    <3> QED
      BY <1>3, <1>5, <2>1, <3>1, <3>2
  <2>2. CASE ret # None
    BY <1>2, <2>2, DecoratorFacts
  <2> QED
    BY <2>1, <2>2
<1> HIDE DEF m, L
<1>7. CASE QueueTick(n)
  <2> DEFINE m0 == IF status[n] # "IDLE" THEN m ELSE [Blank EXCEPT !.count = Port("param", n)]
             md == [m0 EXCEPT !.count = @ - 1]
             s  == RunningIfIdle(n)
  <2>1. /\ ret = None
        /\ \/ Call(n, s, m0, {}, 1)
           \/ m0.count > 0 /\ Call(n, s, md, {}, 1)
           \/ ~m0.on /\ Return(n, Port("else", n), m0, {})
    <3>1. /\ ret = None
          /\ CASE m0.on                   -> Call(n, s, m0, {}, 1)
               [] ~m0.on /\ m0.count > 0 -> Call(n, s, md, {}, 1)
               [] OTHER                   -> Return(n, Port("else", n), m0, {})
      BY <1>7 DEF QueueTick, Entered, m
    <3> HIDE DEF m0, md, s
    <3> QED
      BY <3>1
  <2>2. m0 \in MemType(n) /\ (m0 = m \/ status[n] = "IDLE")
    <3>1. Port("param", n) \in Nat
      <4>1. n \in Nodes /\ tree \in DOMAIN Forest
        BY Here
      <4> QED
        BY <1>1, <4>1, ArityFacts
    <3>2. [Blank EXCEPT !.count = Port("param", n)] \in MemType(n)
      BY <3>1 DEF Blank, MemType
    <3> QED
      BY <1>3, <3>2
  <2> HIDE DEF m0
  <2>3. s \in Statuses /\ (s \in Completed => status[n] \in Completed)
    BY <1>3, <1>4 DEF RunningIfIdle
  <2>4. \A m2 : DecoratorOK(n, s, m2, TRUE, L)
    BY <1>5
  <2>5. CASE Call(n, s, m0, {}, 1)
    <3> HIDE DEF s
    <3> QED
      BY <1>1, <1>2, <1>3, <1>4, <2>1, <2>2, <2>3, <2>4, <2>5, DecoratorCall DEF L
  <2>6. CASE m0.count > 0 /\ Call(n, s, md, {}, 1)
    <3>1. m0.count - 1 \in Nat
      BY <2>2, <2>6 DEF MemType
    <3>2. md \in MemType(n)
      BY <2>2, <3>1 DEF MemType
    <3> HIDE DEF s, md
    <3> QED
      BY <1>1, <1>2, <1>3, <1>4, <2>1, <2>3, <2>4, <2>6, <3>2, DecoratorCall DEF L
  <2>7. CASE ~m0.on /\ Return(n, Port("else", n), m0, {})
    <3> DEFINE e  == Port("else", n)
               s1 == IF e = "SKIPPED" THEN status[n] ELSE e
               m2 == [m0 EXCEPT !.fresh = FALSE]
    <3>1. e \in Results
      <4>1. n \in Nodes /\ tree \in DOMAIN Forest
        BY Here
      <4> QED
        BY <1>1, <4>1, ArityFacts
    <3>2. L = {}
      BY <1>6, <2>1, <2>2, <2>7
    <3> HIDE DEF s1, m2
    <3>3. DecoratorOK(n, s1, m2, FALSE, IF FALSE THEN {} ELSE L)
      BY <1>5, <3>2
    <3>4. Return(n, e, m0, {})
      BY <2>7
    <3> HIDE DEF e
    <3> QED
      BY <1>1, <1>2, <1>3, <1>4, <2>1, <2>2, <3>1, <3>2, <3>3, <3>4, DecoratorReturn
         DEF L, m2, s1
  <2> QED
    BY <2>1, <2>5, <2>6, <2>7
<1>8. CASE QueueBack(n)
  <2> DEFINE done == ret \in Completed
             s    == IF ret = "FAILURE" THEN "FAILURE" ELSE "RUNNING"
             m0   == [m EXCEPT !.on = ret = "RUNNING"]
             m2   == [m0 EXCEPT !.fresh = FALSE]
  <2>1. /\ ret # None
        /\ Return(n, s, m0, IF done THEN ChildSet(n) ELSE {})
    BY <1>8 DEF QueueBack, Back, Finished, m
  <2>2. ret \in Results /\ (ret \in Returning => L = {})
    BY <1>3, <1>6, <2>1
  <2>3. m0 \in MemType(n) /\ (m0.on <=> ret = "RUNNING")
    BY <1>3 DEF MemType
  <2>4. IF done THEN Return(n, s, m0, ChildSet(n)) ELSE Return(n, s, m0, {})
    BY <2>1
  <2> HIDE DEF m0
  <2>5. m2.on <=> ret = "RUNNING"
    BY <2>3, BlankFacts
  <2> HIDE DEF m2
  <2>6. DecoratorOK(n, s, m2, FALSE, IF done THEN {} ELSE L)
    BY <1>4, <1>5, <2>2, <2>5
  <2>7. done \/ s = "RUNNING" \/ L = {}
    BY <1>4
  <2>8. s \in Results /\ s # "SKIPPED"
    BY <1>4
  <2> HIDE DEF s
  <2> QED
    BY <1>1, <1>2, <1>3, <1>4, <2>3, <2>4, <2>6, <2>7, <2>8, DecoratorReturn DEF L, m2
<1> QED
  BY <1>7, <1>8

-----------------------------------------------------------------------------
(* Delay and Timeout                                                       *)

\* A timer that n adds: what is left of one before makes n late.
LEMMA StartsFrame ==
  ASSUME Timers, tree' = tree, NEW n \in DOMAIN timer, Starts(n), DOMAIN mem' = DOMAIN mem
  PROVE  /\ Timers' /\ DOMAIN timer' = DOMAIN timer /\ timer'[n] = "added"
         /\ n \notin over' => stale'[n] = {}
         /\ \A x \in DOMAIN timer : x # n =>
              timer'[x] = timer[x] /\ stale'[x] = stale[x] /\ (x \in over <=> x \in over')
<1> DEFINE S == SUBSET {"aborted", "due"}
           T == {"off", "added", "waiting", "signalled"}
           o == stale[n] \cup CASE timer[n] = "off"       -> {}
                                [] timer[n] = "signalled" -> {"aborted"}
                                [] OTHER                  -> {"due"}
<1>1. timer \in [DOMAIN timer -> T] /\ stale \in [DOMAIN timer -> S] /\ over \subseteq DOMAIN timer
  BY DEF Timers
<1>2. timer' = [timer EXCEPT ![n] = "added"] /\ stale' = [stale EXCEPT ![n] = o]
  BY DEF Starts
<1>3. o \in S
  <2>1. stale[n] \in S
    BY <1>1
  <2>2. (CASE timer[n] = "off"       -> {}
           [] timer[n] = "signalled" -> {"aborted"}
           [] OTHER                  -> {"due"}) \in S
    OBVIOUS
  <2> QED
    BY <2>1, <2>2
<1> HIDE DEF o
<1>4. /\ timer' \in [DOMAIN timer -> T] /\ DOMAIN timer' = DOMAIN timer /\ timer'[n] = "added"
      /\ stale' \in [DOMAIN timer -> S]
      /\ \A x \in DOMAIN timer : x # n => timer'[x] = timer[x] /\ stale'[x] = stale[x]
  BY <1>1, <1>2, <1>3
<1>5. over' = IF stale'[n] = {} THEN over \ {n} ELSE over \cup {n}
  BY DEF Starts
<1>6. Timers'
  <2>1. \A x : Kind(x)' = Kind(x)
    BY SameTree
  <2>2. DOMAIN timer' = {x \in Nodes' : Kind(x)' \in Timed'}
    BY <1>4, <2>1, SameTree DEF Timers, Timed
  <2>3. \A x \in DOMAIN timer' : x \in DOMAIN mem' /\ Kind(x)' \in Timed'
    BY <1>4, <2>1 DEF Timers, Timed
  <2>4. over' \subseteq DOMAIN timer'
    BY <1>1, <1>4, <1>5
  <2> QED
    BY <1>4, <2>2, <2>3, <2>4 DEF Timers
<1> QED
  BY <1>4, <1>5, <1>6

\* The stack stays, and so does the child that each node has called last.
LEMMA SameStack ==
  ASSUME TypeOK, Path, tree' = tree, stack' = stack, ret' = ret,
         \A i \in 1 .. Len(stack) - 1 : Cur(stack[i])' = Cur(stack[i])
  PROVE  /\ Path' /\ \A x \in Nodes : (Locked(x)' <=> Locked(x)) /\ (Inside(x)' <=> Inside(x))
<1>1. stack \in Seq(Nodes)
  BY DEF TypeOK
<1>2. stack' # <<>> => /\ stack'[1] = Root'
                       /\ \A x \in Nodes' : Last(stack') \in Below(x)' => x \in ToSet(stack')
  BY SameTree DEF Path
<1>3. \A i \in 1 .. Len(stack') - 1 : stack'[i + 1] = Cur(stack[i])'
  BY <1>1 DEF Path
<1>4. \A i, j \in 1 .. Len(stack') :
        i < j => stack'[j] # stack'[i] /\ stack'[j] \in Below(Cur(stack[i]))'
  <2> TAKE i, j \in 1 .. Len(stack')
  <2> HAVE i < j
  <2>1. i \in 1 .. Len(stack) - 1
    BY <1>1
  <2>2. \A y : Below(y)' = Below(y)
    BY SameTree
  <2>3. Below(Cur(stack[i]))' = Below(Cur(stack[i]))
    BY <2>1, <2>2
  <2> QED
    BY <1>1, <2>3 DEF Path
<1>5. Path'
  BY <1>2, <1>3, <1>4 DEF Path
<1>6. \A x \in Nodes : (Locked(x)' <=> Locked(x)) /\ (Inside(x)' <=> Inside(x))
  BY SameTree DEF Locked, Entered, Inside
<1> QED
  BY <1>5, <1>6

\* The members change of no node but n, the one that is ticked.
LEMMA StaysOnPath ==
  ASSUME TypeOK, TreeInv, NEW n, Inside(n), tree' = tree, stack' = stack, ret' = ret,
         \A x \in Nodes : x # n => Mem(x)' = Mem(x)
  PROVE  /\ Path' /\ \A x \in Nodes : (Locked(x)' <=> Locked(x)) /\ (Inside(x)' <=> Inside(x))
<1>1. stack \in Seq(Nodes) /\ stack # <<>> /\ n = stack[Len(stack)] /\ Path
  BY DEF TypeOK, TreeInv, Inside, Last
<1>2. \A i \in 1 .. Len(stack) - 1 : Cur(stack[i])' = Cur(stack[i])
  <2> TAKE i \in 1 .. Len(stack) - 1
  <2>1. stack[i] \in Nodes
    BY <1>1
  <2>2. stack[i] # n
    <3>1. i \in 1 .. Len(stack) /\ Len(stack) \in 1 .. Len(stack) /\ i < Len(stack)
      BY <1>1
    <3> QED
      BY <1>1, <3>1 DEF Path
  <2>3. Mem(stack[i])' = Mem(stack[i])
    <3>1. \A x \in Nodes : x # n => Mem(x)' = Mem(x)
      OBVIOUS
    <3> QED
      BY <2>1, <2>2, <3>1
  <2>4. \A y : Mem(y)' = Mem(y) => Cur(y)' = Cur(y)
    BY SameTree DEF Cur, CurIdx
  <2> QED
    BY <2>3, <2>4
<1> QED
  BY <1>1, <1>2, SameStack

\* What the invariant says of a Delay or a Timeout that is ticked.
LEMMA ClockFacts ==
  ASSUME IInv, NEW n, Inside(n), Kind(n) \in Clocked
  PROVE  /\ Kind(n) \in Decorators /\ n \in DOMAIN mem /\ n \in DOMAIN timer
         /\ status[n] \in Statuses /\ Mem(n) = mem[n] /\ mem[n] \in MemType(n)
         /\ ret \in Results \cup {None} /\ value \in Values \cup {None} /\ wake \in BOOLEAN
         /\ "RUNNING" \notin Completed /\ None \notin Completed
         /\ \A s \in Results : s # "RUNNING" => s \in Returning
         /\ \A s, m, L : \A locked \in BOOLEAN :
              DecoratorOK(n, s, m, locked, L) <=> ClockOK(n, s, m, locked, L)
         /\ IF ret = None THEN ClockOK(n, status[n], mem[n], FALSE, LiveIdx(n))
            ELSE /\ ClockOK(n, status[n], mem[n], TRUE, LiveIdx(n))
                 /\ ret \in Returning => LiveIdx(n) = {}
         /\ TimerOK(n, status[n], mem[n], timer[n], stale[n], n \in over)
         /\ timer[n] # "signalled"
<1>1. Kind(n) \in Decorators
  BY DEF Decorators
<1>2. /\ n \in DOMAIN mem /\ n \in DOMAIN timer /\ status[n] \in Statuses
      /\ Mem(n) = mem[n] /\ mem[n] \in MemType(n) /\ ret \in Results \cup {None}
  BY Here DEF WithMem, Timed, Clocked
<1>3. /\ value \in Values \cup {None} /\ wake \in BOOLEAN
      /\ "RUNNING" \notin Completed /\ None \notin Completed
      /\ \A s \in Results : s # "RUNNING" => s \in Returning
  BY <1>1, Ticked DEF None, Completed
<1>4. \A s, m, L : \A locked \in BOOLEAN :
        DecoratorOK(n, s, m, locked, L) <=> ClockOK(n, s, m, locked, L)
  BY DEF DecoratorOK, Plain, Loops, Clocked
<1>5. IF ret = None THEN ClockOK(n, status[n], mem[n], FALSE, LiveIdx(n))
      ELSE /\ ClockOK(n, status[n], mem[n], TRUE, LiveIdx(n))
           /\ ret \in Returning => LiveIdx(n) = {}
  <2> DEFINE L == LiveIdx(n)
  <2>1. CASE ret = None
    <3>1. DecoratorOK(n, status[n], Mem(n), FALSE, L)
      BY <1>1, <2>1, DecoratorFacts
    <3> HIDE DEF L
    <3>2. ClockOK(n, status[n], mem[n], FALSE, L)
      BY <1>2, <1>4, <3>1
    <3> QED
      BY <2>1, <3>2 DEF L
  <2>2. CASE ret # None
    <3>1. DecoratorOK(n, status[n], Mem(n), TRUE, L) /\ (ret \in Returning => L = {})
      BY <1>1, <2>2, DecoratorFacts
    <3> HIDE DEF L
    <3>2. ClockOK(n, status[n], mem[n], TRUE, L)
      BY <1>2, <1>4, <3>1
    <3> QED
      BY <2>2, <3>1, <3>2 DEF L
  <2> QED
    BY <2>1, <2>2
<1>6. TimerOK(n, status[n], mem[n], timer[n], stale[n], n \in over)
  <2>1. TimerInv(n)
    BY <1>2 DEF IInv
  <2> QED
    BY <2>1 DEF TimerInv
<1>7. timer[n] # "signalled"
  BY <1>6 DEF TimerOK
<1> QED
  BY <1>1, <1>2, <1>3, <1>4, <1>5, <1>6, <1>7

\* A Delay or a Timeout adds its timer, and is still to be entered.
LEMMA ClockStartKeeps ==
  ASSUME IInv, NEW n, Inside(n), ClockStart(n)
  PROVE  IInv'
<1> DEFINE m1 == [Blank EXCEPT !.on = TRUE]
<1>1. /\ Kind(n) \in Clocked /\ tree' = tree /\ value' = value /\ wake' = wake
      /\ ret = None /\ stack' = stack /\ ret' = ret
      /\ Leaves(n, "RUNNING", m1, {}) /\ Starts(n)
  BY DEF ClockStart, Entered
<1>2. m1 \in MemType(n) /\ m1.on /\ ~m1.hit
  BY BlankFacts DEF Blank, MemType
<1> HIDE DEF m1
<1>3. /\ TypeOK /\ TreeInv /\ n \in Nodes /\ tree \in DOMAIN Forest
      /\ NodeOK(n, status[n], Mem(n), FALSE, LiveIdx(n), DoneIdx(n), FALSE)
  BY <1>1, Here
<1>4. /\ Kind(n) \in Decorators /\ n \in DOMAIN mem /\ n \in DOMAIN timer
      /\ value \in Values \cup {None} /\ wake \in BOOLEAN
      /\ "RUNNING" \in Statuses \cup {"SKIPPED"} /\ "RUNNING" \notin Completed
  BY <1>1, ClockFacts DEF Statuses
<1>5. Halted({}) = {}
  BY DEF Halted
<1>6. /\ DOMAIN mem' = DOMAIN mem /\ Mem(n)' = m1 /\ status'[n] = "RUNNING"
      /\ \A x \in Nodes : x # n => Mem(x)' = Mem(x)
  BY <1>1, <1>2, <1>3, <1>4, <1>5, LeavesFrame
<1>7. /\ Path' /\ \A x \in Nodes : (Locked(x)' <=> Locked(x)) /\ (Inside(x)' <=> Inside(x))
  BY <1>1, <1>3, <1>6, StaysOnPath
<1>8. \A x \in Nodes : Locked(x) <=> n \in Below(x) /\ (x = n => ret # None)
  BY <1>3, OnPath
<1>9. ret' \notin Completed /\ ret' \notin Returning /\ ret' \in Results \cup {None}
  BY <1>1 DEF Completed, Returning, None
<1>10. Returned'
  BY <1>9 DEF Returned, Completed, Returning
<1>11. NodeInv(n)'
  <2>1. DoneIdx(n)' \subseteq DoneIdx(n)
    <3>1. \A x \in Below(n) : x # n => ~Locked(x)
      BY <1>3, <1>8, TreeFacts, BelowFacts
    <3> QED
      BY <1>1, <1>2, <1>3, <1>4, <3>1, LeavesLive
  <2>2. DoneIdx(n) = {}
    BY <1>1, <1>4, DecoratorFacts DEF None, Completed
  <2> DEFINE L2 == LiveIdx(n)'
             C2 == DoneIdx(n)'
  <2>3. C2 = {}
    BY <2>1, <2>2
  <2> HIDE DEF L2, C2
  <2>4. ClockOK(n, "RUNNING", m1, FALSE, L2)
    BY <1>2 DEF ClockOK
  <2>5. NodeOK(n, "RUNNING", m1, FALSE, L2, C2, FALSE)
    <3>1. NodeOK(n, "RUNNING", m1, FALSE, L2, C2, FALSE) <=>
            /\ C2 # {} => FALSE
            /\ DecoratorOK(n, "RUNNING", m1, FALSE, L2)
      BY <1>4, DecoratorFacts
    <3>2. DecoratorOK(n, "RUNNING", m1, FALSE, L2)
      BY <1>1, <2>4, ClockFacts
    <3> QED
      BY <2>3, <3>1, <3>2
  <2>6. ~Locked(n)' /\ ~(Inside(n)' /\ ret' \in Completed)
    BY <1>1, <1>3, <1>7, <1>8, <1>9
  <2>7. NodeInv(n)' <=> NodeOK(n, status'[n], Mem(n)', FALSE, LiveIdx(n)', DoneIdx(n)', FALSE)
    BY <1>1, <2>6, NodeInvIs
  <2> QED
    BY <1>6, <2>5, <2>7 DEF L2, C2
<1>12. Timers
  BY <1>3, TypeTimers
<1>13. /\ Timers' /\ DOMAIN timer' = DOMAIN timer /\ timer'[n] = "added"
       /\ n \notin over' => stale'[n] = {}
       /\ \A x \in DOMAIN timer : x # n =>
              timer'[x] = timer[x] /\ stale'[x] = stale[x] /\ (x \in over <=> x \in over')
  BY <1>1, <1>4, <1>6, <1>12, StartsFrame
<1>14. TimerInv(n)'
  <2>1. PICK late \in BOOLEAN : n \in over' <=> late
    BY Zenon
  <2>2. ~late => stale'[n] = {}
    BY <1>13, <2>1
  <2>3. Kind(n) # "Sleep"
    BY <1>1 DEF Clocked
  <2>4. TimerOK(n, "RUNNING", m1, "added", stale'[n], late)
    BY <1>2, <2>2, <2>3 DEF TimerOK
  <2>5. mem'[n] = m1
    BY <1>4, <1>6 DEF Mem
  <2> QED
    BY <1>1, <1>6, <1>13, <2>1, <2>4, <2>5, TimerInvIs
<1> QED
  <2>1. \A x \in Nodes : x # n => (Locked(x)' <=> n \in Below(x))
    BY <1>7, <1>8
  <2>2. stack' \in Seq(Nodes)
    BY <1>1, <1>3 DEF TypeOK
  <2>3. \A x \in DOMAIN timer : x # n =>
            IF x \in Halted({}) THEN timer'[x] = "off"
            ELSE timer'[x] = timer[x] /\ stale'[x] = stale[x] /\ (x \in over <=> x \in over')
    BY <1>5, <1>13
  <2>4. {} \subseteq ChildSet(n)
    OBVIOUS
  <2> QED
    BY <1>1, <1>2, <1>3, <1>4, <1>7, <1>9, <1>10, <1>11, <1>13, <1>14, <2>1, <2>2, <2>3, <2>4,
       Together

\* A Delay that waits, and one that is over; a Timeout that is over, and one that is not.
LEMMA ClockTickKeeps ==
  ASSUME IInv, NEW n, Inside(n), DelayTick(n) \/ TimeoutTick(n)
  PROVE  IInv'
<1> DEFINE m  == mem[n]
           L  == LiveIdx(n)
           m2 == [m EXCEPT !.fresh = FALSE]
<1>1. /\ Kind(n) \in Clocked /\ tree' = tree /\ value' = value /\ wake' = wake
      /\ ret = None /\ m.on
  BY DEF DelayTick, TimeoutTick, Entered, Clocked
<1>2. /\ Kind(n) \in Decorators /\ n \in DOMAIN mem /\ n \in DOMAIN timer
      /\ status[n] \in Statuses /\ m \in MemType(n)
      /\ value' \in Values \cup {None} /\ wake' \in BOOLEAN /\ None \notin Completed
      /\ \A s, m0, L0 : \A locked \in BOOLEAN :
           DecoratorOK(n, s, m0, locked, L0) <=> ClockOK(n, s, m0, locked, L0)
      /\ ClockOK(n, status[n], m, FALSE, L)
      /\ TimerOK(n, status[n], m, timer[n], stale[n], n \in over)
  BY <1>1, ClockFacts
<1> HIDE DEF L, m
<1>3. status[n] = "RUNNING"
  BY <1>1, <1>2 DEF ClockOK
<1>4. m2 \in MemType(n) /\ m2.on = m.on /\ m2.hit = m.hit
  BY <1>2, BlankFacts
<1>5. CASE IF Kind(n) = "Delay" THEN m.hit ELSE ~m.hit
  <2>1. Call(n, status[n], m, {}, 1)
    BY <1>5 DEF DelayTick, TimeoutTick, Entered, m
  <2>2. ClockOK(n, status[n], m, TRUE, L)
    BY <1>1, <1>2, <1>3, <1>5 DEF ClockOK, Clocked
  <2>3. DecoratorOK(n, status[n], m, TRUE, L)
    BY <1>2, <2>2
  <2>4. status[n] \in Completed => status[n] \in Completed
    OBVIOUS
  <2> QED
    BY <1>1, <1>2, <2>1, <2>3, <2>4, DecoratorCall DEF L
<1>6. CASE Kind(n) = "Delay" /\ ~m.hit
  <2>1. IF FALSE THEN Return(n, "RUNNING", m, ChildSet(n)) ELSE Return(n, "RUNNING", m, {})
    BY <1>6 DEF DelayTick, TimeoutTick, Entered, m
  <2> HIDE DEF m2
  <2>2. ClockOK(n, "RUNNING", m2, FALSE, L)
    BY <1>1, <1>4, <1>6 DEF ClockOK
  <2>3. DecoratorOK(n, "RUNNING", m2, FALSE, L)
    BY <1>2, <2>2
  <2>4. TimerOK(n, "RUNNING", m2, timer[n], stale[n], n \in over)
    BY <1>2, <1>3, <1>4, Zenon DEF TimerOK
  <2>5. DecoratorOK(n, IF "RUNNING" = "SKIPPED" THEN status[n] ELSE "RUNNING",
                    [m EXCEPT !.fresh = FALSE], FALSE, IF FALSE THEN {} ELSE LiveIdx(n))
    BY <2>3 DEF m2, L
  <2>6. TimerOK(n, IF "RUNNING" = "SKIPPED" THEN status[n] ELSE "RUNNING",
                [m EXCEPT !.fresh = FALSE], timer[n], stale[n], n \in over)
    BY <2>4 DEF m2
  <2>7. ret \in Completed => FALSE
    BY <1>1, <1>2
  <2>8. "RUNNING" \in Results
    BY DEF Results
  <2> QED
    BY <1>1, <1>2, <2>1, <2>5, <2>6, <2>7, <2>8, DecoratorReturn
<1>7. CASE Kind(n) = "Timeout" /\ m.hit
  <2> DEFINE m0 == [m EXCEPT !.on = FALSE]
             m3 == [m0 EXCEPT !.fresh = FALSE]
  <2>1. IF FALSE THEN Return(n, "FAILURE", m0, ChildSet(n)) ELSE Return(n, "FAILURE", m0, {})
    BY <1>7 DEF DelayTick, TimeoutTick, Entered, m
  <2>2. m0 \in MemType(n) /\ ~m0.on /\ m0.hit = m.hit
    BY <1>2 DEF MemType
  <2> HIDE DEF m0
  <2>3. m3 \in MemType(n) /\ ~m3.on /\ m3.hit
    BY <1>7, <2>2, BlankFacts
  <2> HIDE DEF m3
  <2>4. L = {}
    BY <1>2, <1>7 DEF ClockOK
  <2>5. ClockOK(n, "FAILURE", m3, FALSE, L)
    BY <2>3, <2>4 DEF ClockOK
  <2>6. DecoratorOK(n, "FAILURE", m3, FALSE, L)
    BY <1>2, <2>5
  <2>7. TimerOK(n, "FAILURE", m3, timer[n], stale[n], n \in over)
    <3>1. PICK late \in BOOLEAN : n \in over <=> late
      BY Zenon
    <3>2. (n \in over) = late
      BY <3>1
    <3>3. TimerOK(n, status[n], m, timer[n], stale[n], late)
      BY <1>2, <3>2
    <3>4. TimerOK(n, "FAILURE", m3, timer[n], stale[n], late)
      BY <1>1, <1>7, <2>3, <3>3 DEF TimerOK
    <3> QED
      BY <3>2, <3>4
  <2>8. DecoratorOK(n, IF "FAILURE" = "SKIPPED" THEN status[n] ELSE "FAILURE",
                    [m0 EXCEPT !.fresh = FALSE], FALSE, IF FALSE THEN {} ELSE LiveIdx(n))
    BY <2>6 DEF m3, L
  <2>9. TimerOK(n, IF "FAILURE" = "SKIPPED" THEN status[n] ELSE "FAILURE",
                [m0 EXCEPT !.fresh = FALSE], timer[n], stale[n], n \in over)
    BY <2>7 DEF m3
  <2>10. ret \in Completed => FALSE
    BY <1>1, <1>2
  <2>11. "FAILURE" \in Results /\ LiveIdx(n) = {}
    BY <2>4 DEF Results, Completed, L
  <2> QED
    BY <1>1, <1>2, <2>1, <2>2, <2>8, <2>9, <2>10, <2>11, DecoratorReturn
<1> QED
  BY <1>1, <1>5, <1>6, <1>7 DEF Clocked

\* The child of a Delay or of a Timeout has returned.
LEMMA ClockBackKeeps ==
  ASSUME IInv, NEW n, Inside(n), ClockBack(n)
  PROVE  IInv'
<1> DEFINE on == ret \notin Completed
           m0 == mem[n]
           m  == [m0 EXCEPT !.on = on]
           H  == Finished(n)
           X  == IF ret \in Completed /\ Kind(n) = "Timeout" THEN {n} ELSE {}
           C0 == (Halted(H) \cup X) \cap DOMAIN timer
           L  == LiveIdx(n) \ Index(n, H)
           C  == DoneIdx(n) \ Index(n, H)
           s1 == IF ret = "SKIPPED" THEN status[n] ELSE ret
<1>1. /\ Kind(n) \in Clocked /\ tree' = tree /\ value' = value /\ wake' = wake
      /\ ret # None /\ Leaves(n, ret, m, H) /\ Exits(ret) /\ CancelsIn(C0, timer, stale)
  BY DEF ClockBack, Back, Cancels
<1>2. /\ TypeOK /\ TreeInv /\ n \in Nodes /\ tree \in DOMAIN Forest
  BY Here
<1>3. /\ Kind(n) \in Decorators /\ n \in DOMAIN mem /\ n \in DOMAIN timer
      /\ m0 \in MemType(n) /\ ret \in Results
      /\ value' \in Values \cup {None} /\ wake' \in BOOLEAN
      /\ "RUNNING" \notin Completed
      /\ \A s \in Results : s # "RUNNING" => s \in Returning
      /\ \A s, m1, L0 : \A locked \in BOOLEAN :
           DecoratorOK(n, s, m1, locked, L0) <=> ClockOK(n, s, m1, locked, L0)
      /\ ClockOK(n, status[n], m0, TRUE, LiveIdx(n))
      /\ ret \in Returning => LiveIdx(n) = {}
      /\ TimerOK(n, status[n], m0, timer[n], stale[n], n \in over)
  BY <1>1, ClockFacts
<1>4. status[n] = "RUNNING" /\ (m0.hit <=> Kind(n) = "Delay")
  BY <1>3 DEF ClockOK
<1>5. on \in BOOLEAN /\ (on <=> ret \notin Completed)
  OBVIOUS
<1> HIDE DEF on
<1>6. m \in MemType(n) /\ (m.on <=> ret \notin Completed) /\ (m.hit <=> Kind(n) = "Delay")
  <2>1. m \in MemType(n) /\ m.on = on /\ m.hit = m0.hit
    BY <1>3, <1>5 DEF MemType
  <2> HIDE DEF m
  <2> QED
    BY <1>4, <1>5, <2>1, Zenon
<1>7. /\ H = IF ret \in Completed THEN ChildSet(n) ELSE {}
      /\ H \subseteq ChildSet(n)
  BY DEF Finished
<1>8. ret \in Completed => L = {} /\ C = {}
  <2>1. /\ Index(n, ChildSet(n)) = DOMAIN Children(n)
        /\ LiveIdx(n) \subseteq DOMAIN Children(n) /\ DoneIdx(n) \subseteq DOMAIN Children(n)
    BY <1>2, IndexFacts, Here
  <2> HIDE DEF H
  <2> QED
    BY <1>7, <2>1
<1>9. ret \notin Completed => C = {}
  BY <1>3, DecoratorFacts
<1>10. ret \in Returning => L = {}
  BY <1>3
<1> HIDE DEF m, H
<1>11. NodeOK(n, s1, m, FALSE, L, C, FALSE)
  <2> HIDE DEF L, C
  <2>1. ClockOK(n, s1, m, FALSE, L)
    <3>1. s1 # "RUNNING" => ret \in Completed
      BY <1>3, <1>4 DEF Results, Completed
    <3> HIDE DEF s1
    <3> QED
      BY <1>6, <3>1 DEF ClockOK
  <2>2. DecoratorOK(n, s1, m, FALSE, L)
    BY <1>3, <2>1
  <2>3. s1 # "RUNNING" => L = {}
    BY <1>3, <1>4, <1>10
  <2> HIDE DEF s1
  <2> QED
    BY <1>3, <1>8, <1>9, <2>2, <2>3, DecoratorFacts
<1>12. /\ DOMAIN mem' = DOMAIN mem /\ Mem(n)' = m /\ status'[n] = s1 /\ n \notin Halted(H)
  <2>1. ret \in Statuses \cup {"SKIPPED"}
    BY <1>3 DEF Results, Statuses, Completed
  <2>2. n \notin ChildSet(n)
    BY <1>2, BelowFacts, TreeFacts
  <2> QED
    BY <1>1, <1>2, <1>3, <1>6, <1>7, <2>1, <2>2, LeavesFrame
<1>13. /\ Timers' /\ DOMAIN timer' = DOMAIN timer /\ over' = over
       /\ \A x \in C0 : timer'[x] = "off"
       /\ \A x \in DOMAIN timer \ C0 : timer'[x] = timer[x] /\ stale'[x] = stale[x]
  <2>1. Timers
    BY <1>2, TypeTimers
  <2>2. /\ timer \in [DOMAIN timer -> {"off", "added", "waiting", "signalled"}]
        /\ stale \in [DOMAIN timer -> SUBSET {"aborted", "due"}]
    BY <2>1 DEF Timers
  <2>3. C0 \in SUBSET DOMAIN timer
    OBVIOUS
  <2> HIDE DEF C0
  <2> QED
    BY <1>1, <1>12, <2>1, <2>2, <2>3, CancelsFrame
<1>14. TimerInv(n)'
  <2>1. PICK late \in BOOLEAN : n \in over <=> late
    BY Zenon
  <2>2. (n \in over) = late
    BY <2>1
  <2>3. TimerOK(n, status[n], m0, timer[n], stale[n], late)
    BY <1>3, <2>2
  <2>4. IF ret \in Completed /\ Kind(n) = "Timeout" THEN timer'[n] = "off"
        ELSE timer'[n] = timer[n] /\ stale'[n] = stale[n]
    <3>1. n \in C0 <=> ret \in Completed /\ Kind(n) = "Timeout"
      BY <1>3, <1>12
    <3> HIDE DEF C0
    <3> QED
      BY <1>3, <1>13, <3>1
  <2>5. TimerOK(n, s1, m, timer'[n], stale'[n], late)
    <3>1. /\ timer[n] # "off" /\ ~late => stale[n] = {} /\ Kind(n) # "Delay"
          /\ timer[n] # "signalled"
      BY <1>1, <1>4, <2>3 DEF TimerOK
    <3>2. Kind(n) # "Sleep" /\ (Kind(n) # "Delay" => Kind(n) = "Timeout")
      BY <1>1 DEF Clocked
    <3>3. s1 # "RUNNING" => ret \in Completed
      BY <1>3, <1>4 DEF Results, Completed
    <3> HIDE DEF s1, m
    <3> QED
      BY <1>6, <2>4, <3>1, <3>2, <3>3 DEF TimerOK
  <2>6. mem'[n] = m
    BY <1>3, <1>12 DEF Mem
  <2>7. n \in over' <=> late
    BY <1>13, <2>1
  <2> HIDE DEF s1
  <2> QED
    BY <1>1, <1>12, <2>5, <2>6, <2>7, TimerInvIs
<1>15. \A x \in DOMAIN timer : x # n =>
            IF x \in Halted(H) THEN timer'[x] = "off"
            ELSE timer'[x] = timer[x] /\ stale'[x] = stale[x] /\ (x \in over <=> x \in over')
  BY <1>13
<1>16. ret = "SKIPPED" => /\ LiveIdx(n) \subseteq Index(n, H)
                          /\ Children(n) = <<>> => status[n] # "RUNNING"
  <2>1. Children(n) # <<>>
    BY <1>3, Ticked
  <2>2. ret = "SKIPPED" => ret \in Returning
    BY DEF Returning
  <2> QED
    BY <1>3, <2>1, <2>2
<1>17. IF n \in DOMAIN mem THEN m \in MemType(n) ELSE m = Blank
  BY <1>3, <1>6
<1> QED
  BY <1>1, <1>3, <1>7, <1>11, <1>13, <1>14, <1>15, <1>16, <1>17, LeavesOver

-----------------------------------------------------------------------------
(* Leaves                                                                  *)

\* A node out of tick() does not depend on fresh, a local of tick().
LEMMA NodeOKFresh ==
  ASSUME NEW n, NEW s, NEW m \in MemType(n), NEW L, NEW C,
         NodeOK(n, s, m, FALSE, L, C, FALSE)
  PROVE  NodeOK(n, s, [m EXCEPT !.fresh = FALSE], FALSE, L, C, FALSE)
<1> DEFINE a == [m EXCEPT !.fresh = FALSE]
<1>1. /\ a \in MemType(n) /\ a.idx = m.idx /\ a.skips = m.skips /\ a.count = m.count
      /\ a.done = m.done /\ a.on = m.on /\ a.hit = m.hit /\ ~a.fresh
  BY BlankFacts
<1> HIDE DEF a
<1>2. /\ m = Blank => a = Blank
      /\ m = [Blank EXCEPT !.idx = m.idx] => a = [Blank EXCEPT !.idx = a.idx]
      /\ m = [Blank EXCEPT !.count = m.count] => a = [Blank EXCEPT !.count = a.count]
      /\ m = [Blank EXCEPT !.on = m.on] => a = [Blank EXCEPT !.on = a.on]
  BY <1>1, BlankBut
<1>3. CurIdx(n, a) = CurIdx(n, m)
  BY <1>1 DEF CurIdx
<1>4. /\ OrderedOK(n, s, m, FALSE, L, C)  => OrderedOK(n, s, a, FALSE, L, C)
      /\ ReactiveOK(n, s, m, FALSE, L, C) => ReactiveOK(n, s, a, FALSE, L, C)
      /\ ParallelOK(n, s, m, FALSE, L, C) => ParallelOK(n, s, a, FALSE, L, C)
  BY <1>1, <1>2, <1>3 DEF OrderedOK, ReactiveOK, ParallelOK
<1>5. /\ BranchOK(n, s, m, FALSE, L, C)        => BranchOK(n, s, a, FALSE, L, C)
      /\ SwitchOK(n, s, m, FALSE, L, C, FALSE) => SwitchOK(n, s, a, FALSE, L, C, FALSE)
  BY <1>1, <1>2, Zenon DEF BranchOK, SwitchOK
<1>6. /\ LoopOK(n, s, m, FALSE, L)  => LoopOK(n, s, a, FALSE, L)
      /\ UpdatedOK(s, m, FALSE, L)  => UpdatedOK(s, a, FALSE, L)
      /\ RunOnceOK(s, m, FALSE, L)  => RunOnceOK(s, a, FALSE, L)
      /\ ClockOK(n, s, m, FALSE, L) => ClockOK(n, s, a, FALSE, L)
      /\ SleepOK(s, m) => SleepOK(s, a)
  BY <1>1, <1>2, Zenon DEF LoopOK, UpdatedOK, RunOnceOK, ClockOK, SleepOK
<1>7. NodeOK(n, s, a, FALSE, L, C, FALSE)
  <2>1. m.on => a.on
    BY <1>1, Zenon
  <2> QED
    BY <1>4, <1>5, <1>6, <2>1, ZenonT(60) DEF NodeOK
<1> QED
  BY <1>7 DEF a

\* Nor does a timer.
LEMMA TimerOKFresh ==
  ASSUME NEW n, NEW s, NEW m \in MemType(n), NEW t, NEW o, NEW late,
         TimerOK(n, s, m, t, o, late)
  PROVE  TimerOK(n, s, [m EXCEPT !.fresh = FALSE], t, o, late)
<1> DEFINE a == [m EXCEPT !.fresh = FALSE]
<1>1. a.on = m.on /\ a.hit = m.hit
  BY BlankFacts
<1> HIDE DEF a
<1>2. TimerOK(n, s, a, t, o, late)
  BY <1>1, Zenon DEF TimerOK
<1> QED
  BY <1>2 DEF a

\* A leaf that is ticked: nothing is below it.
LEMMA LeafFacts ==
  ASSUME IInv, NEW n, Inside(n), Kind(n) \notin Controls \cup Decorators
  PROVE  /\ Children(n) = <<>> /\ LiveIdx(n) = {} /\ DoneIdx(n) = {} /\ Index(n, {}) = {}
         /\ value \in Values \cup {None} /\ wake \in BOOLEAN
         /\ \A s, m : NodeOK(n, s, m, FALSE, {}, {}, FALSE) <=>
                        (Kind(n) = "Sleep" => SleepOK(s, m))
         /\ n \in DOMAIN mem => Kind(n) = "Sleep"
<1>1. n \in Nodes /\ tree \in DOMAIN Forest /\ TypeOK
  BY Here
<1>2. Children(n) = <<>> /\ DOMAIN Children(n) = {}
  BY <1>1, ArityFacts
<1>3. LiveIdx(n) = {} /\ DoneIdx(n) = {} /\ Index(n, {}) = {}
  BY <1>2 DEF LiveIdx, DoneIdx, Index
<1>4. /\ Kind(n) \notin Ordered /\ Kind(n) \notin Reactives /\ Kind(n) \notin Parallels
      /\ Kind(n) \notin {"IfThenElse", "WhileDoElse"} /\ Kind(n) # "Switch"
      /\ Kind(n) \notin Decorators
  BY DEF Controls, Branches
<1>5. /\ Kind(n) \notin Plain /\ Kind(n) \notin Loops /\ Kind(n) \notin Clocked
      /\ Kind(n) \notin {"Precondition", "Updated", "RunOnce", "Loop"}
  BY <1>4 DEF Decorators
<1>6. \A s, m : NodeOK(n, s, m, FALSE, {}, {}, FALSE) <=> (Kind(n) = "Sleep" => SleepOK(s, m))
  BY <1>4, <1>5 DEF NodeOK
<1>7. Kind(n) \in WithMem => Kind(n) = "Sleep"
  BY <1>4, <1>5 DEF WithMem, Timed, Sequences_, Fallbacks, Ordered, Branches, Loops, Clocked
<1>8. n \in DOMAIN mem => Kind(n) = "Sleep"
  BY <1>7, Here
<1>9. value \in Values \cup {None} /\ wake \in BOOLEAN
  BY <1>1 DEF TypeOK
<1> QED
  BY <1>2, <1>3, <1>6, <1>8, <1>9

\* A leaf that returns.
LEMMA LeafReturns ==
  ASSUME IInv, tree' = tree, NEW n, Inside(n), Kind(n) \notin Controls \cup Decorators,
         Kind(n) # "Sleep", NEW s \in Results, s # "SKIPPED", ReturnPlain(n, s, {}),
         value' \in Values \cup {None}, wake' \in BOOLEAN
  PROVE  IInv'
<1>1. /\ LiveIdx(n) = {} /\ DoneIdx(n) = {} /\ Index(n, {}) = {}
      /\ n \notin DOMAIN mem /\ NodeOK(n, s, Blank, FALSE, {}, {}, FALSE)
  BY LeafFacts
<1>2. n \notin DOMAIN timer
  BY <1>1, Here DEF WithMem
<1>3. NodeOK(n, IF s = "SKIPPED" THEN status[n] ELSE s, Blank, FALSE,
             LiveIdx(n) \ Index(n, {}), DoneIdx(n) \ Index(n, {}), FALSE)
  BY <1>1
<1>4. Leaves(n, s, Blank, {}) /\ Cancels(Halted({})) /\ Exits(s) /\ {} \subseteq ChildSet(n)
  BY DEF ReturnPlain
<1> QED
  BY <1>1, <1>2, <1>3, <1>4, CancelsOver

\* The leaves that return at once, and the actions.
LEMMA LeafKeeps ==
  ASSUME IInv, NEW n, Inside(n),
         \/ InstantTick(n) \/ ActionStart(n) \/ ActionFailsAtOnce(n) \/ ActionRunning(n)
         \/ ActionSuccess(n) \/ ActionFailure(n)
  PROVE  IInv'
<1>1. Kind(n) \in {"Instant", "AlwaysFailure", "Condition", "Forever", "Action"}
  BY DEF InstantTick, InstantResults, ActionStart, ActionFailsAtOnce, ActionRunning,
         ActionSuccess, ActionFailure, Entered
<1>2. Kind(n) \notin Controls \cup Decorators /\ Kind(n) # "Sleep"
  BY <1>1 DEF Controls, Decorators, Ordered, Sequences_, Fallbacks, Reactives, Parallels,
              Branches, Plain, Loops, Clocked
<1>3. value \in Values \cup {None} /\ wake \in BOOLEAN
  BY <1>2, LeafFacts
<1>4. {"SUCCESS", "FAILURE", "RUNNING"} \subseteq Results
  BY DEF Results, Completed
<1>5. CASE InstantTick(n)
  <2>1. PICK s \in InstantResults(Kind(n)) : ReturnPlain(n, s, {})
    BY <1>5 DEF InstantTick
  <2>2. s \in {"SUCCESS", "FAILURE", "RUNNING"}
    BY <1>1 DEF InstantResults, Completed
  <2>3. tree' = tree /\ value' = value /\ wake' = wake
    BY <1>5 DEF InstantTick
  <2> QED
    BY <1>2, <1>3, <1>4, <2>1, <2>2, <2>3, LeafReturns
<1>6. CASE ActionSuccess(n)
  <2>1. tree' = tree /\ wake' = TRUE /\ ReturnPlain(n, "SUCCESS", {})
        /\ value' \in IF Has("writes", n) THEN Port("writes", n) ELSE {value}
    BY <1>6 DEF ActionSuccess
  <2>2. Has("writes", n) => Port("writes", n) \subseteq Values
    <3>1. tree \in DOMAIN Forest
      BY Here
    <3> QED
      BY <3>1, PortsAssumption DEF WellFormed, Has, Port
  <2>3. value' \in Values \cup {None}
    BY <1>3, <2>1, <2>2
  <2> QED
    BY <1>2, <1>4, <2>1, <2>3, LeafReturns
<1>7. CASE ActionStart(n) \/ ActionRunning(n)
  BY <1>2, <1>3, <1>4, <1>7, LeafReturns DEF ActionStart, ActionRunning
<1>8. CASE ActionFailsAtOnce(n) \/ ActionFailure(n)
  BY <1>2, <1>3, <1>4, <1>8, LeafReturns DEF ActionFailsAtOnce, ActionFailure
<1> QED
  BY <1>5, <1>6, <1>7, <1>8

\* An action that has completed is not run again: the status it has is returned.
LEMMA StatefulDoneKeeps ==
  ASSUME IInv, NEW n, Inside(n), StatefulDone(n)
  PROVE  IInv'
<1> DEFINE s == status[n]
           m == Mem(n)
<1>1. /\ ret = None /\ Kind(n) \in Stateful /\ s \in Completed /\ Exits(s) /\ tree' = tree
      /\ status' = status /\ mem' = mem /\ timerVars' = timerVars /\ value' = value /\ wake' = wake
  BY DEF StatefulDone, Entered
<1>2. Kind(n) \notin Controls \cup Decorators
  BY <1>1 DEF Stateful, Controls, Decorators, Ordered, Sequences_, Fallbacks, Reactives,
              Parallels, Branches, Plain, Loops, Clocked
<1>3. /\ LiveIdx(n) = {} /\ DoneIdx(n) = {} /\ Index(n, {}) = {}
      /\ value \in Values \cup {None} /\ wake \in BOOLEAN
  BY <1>2, LeafFacts
<1>4. /\ TypeOK /\ n \in Nodes /\ (IF n \in DOMAIN mem THEN m \in MemType(n) ELSE m = Blank)
      /\ NodeOK(n, s, m, FALSE, LiveIdx(n), DoneIdx(n), FALSE)
      /\ (n \in DOMAIN mem => m = mem[n])
  BY <1>1, Here
<1>5. Halted({}) = {}
  BY DEF Halted
<1>6. Leaves(n, s, m, {})
  <2>1. DOMAIN status = Nodes /\ status = [x \in Nodes |-> status[x]]
    BY <1>4 DEF TypeOK
  <2>2. mem = [x \in DOMAIN mem |-> mem[x]]
    BY <1>4 DEF TypeOK
  <2>3. {} \cup UNION {ChildSet(x) : x \in {}} = {}
    OBVIOUS
  <2>4. status = [x \in Nodes |-> CASE x = n /\ s # "SKIPPED" -> s
                                    [] x \in {}               -> "IDLE"
                                    [] OTHER                  -> status[x]]
    BY <2>1
  <2>5. mem = [x \in DOMAIN mem |-> CASE x = n          -> m
                                      [] x \in {} \ {n} -> HaltedMem(x)
                                      [] OTHER          -> mem[x]]
    BY <1>4, <2>2
  <2> QED
    BY <1>1, <1>5, <2>3, <2>4, <2>5 DEF Leaves
<1>7. Timers' /\ DOMAIN timer' = DOMAIN timer
  BY <1>1, <1>4, TypeTimers, SameTree DEF Timers, Timed, timerVars
<1>8. \A x \in DOMAIN timer : x # n =>
            IF x \in Halted({}) THEN timer'[x] = "off"
            ELSE timer'[x] = timer[x] /\ stale'[x] = stale[x] /\ (x \in over <=> x \in over')
  BY <1>1, <1>5 DEF timerVars
<1>9. ASSUME n \in DOMAIN timer PROVE TimerInv(n)'
  <2>1. TimerInv(n)
    BY <1>9 DEF IInv
  <2> QED
    BY <1>1, <2>1, SameTree DEF TimerInv, TimerOK, timerVars
<1>10. s \in Results /\ s # "SKIPPED" /\ {} \subseteq ChildSet(n)
  BY <1>1 DEF Results, Completed
<1>11. NodeOK(n, IF s = "SKIPPED" THEN status[n] ELSE s, m, FALSE,
              LiveIdx(n) \ Index(n, {}), DoneIdx(n) \ Index(n, {}), FALSE)
  BY <1>3, <1>4
<1> HIDE DEF s, m
<1> QED
  BY <1>1, <1>3, <1>4, <1>6, <1>7, <1>8, <1>9, <1>10, <1>11, LeavesOver

\* A node that is idle returns at once, and leaves its members as they are.
LEMMA IdleReturns ==
  ASSUME IInv, NEW n, Inside(n), ret = None, status[n] = "IDLE",
         tree' = tree, value' = value, wake' = wake,
         NEW s \in Returning, Return(n, s, Mem(n), {})
  PROVE  IInv'
<1> DEFINE m  == Mem(n)
           s1 == IF s = "SKIPPED" THEN status[n] ELSE s
           L  == LiveIdx(n)
           C  == DoneIdx(n)
<1>1. /\ TypeOK /\ m \in MemType(n)
      /\ (n \in DOMAIN mem => m = mem[n]) /\ (n \notin DOMAIN mem => m = Blank)
      /\ NodeOK(n, status[n], m, FALSE, L, C, FALSE)
  BY Here
<1>2. value' \in Values \cup {None} /\ wake' \in BOOLEAN
  BY <1>1 DEF TypeOK
<1>3. s \in Results /\ s1 # "RUNNING"
  BY DEF Returning, Results, Completed
<1>4. L = {}
  BY <1>1 DEF NodeOK
<1> HIDE DEF L, C, s1, m
<1>5. NodeOK(n, s1, [m EXCEPT !.fresh = FALSE], FALSE, L, C, FALSE)
  <2>1. status[n] = "RUNNING" <=> s1 = "RUNNING"
    BY <1>3
  <2>2. NodeOK(n, s1, m, FALSE, L, C, FALSE)
    BY <1>1, <2>1, NodeOKMono
  <2> QED
    BY <1>1, <2>2, NodeOKFresh
<1>6. n \in DOMAIN timer => TimerOK(n, s1, [m EXCEPT !.fresh = FALSE],
                                    timer[n], stale[n], n \in over)
  <2> HAVE n \in DOMAIN timer
  <2>1. TimerInv(n) /\ n \in DOMAIN mem
    BY <1>1, TypeTimers DEF IInv, Timers
  <2>2. PICK late \in BOOLEAN : n \in over <=> late
    BY Zenon
  <2>3. TimerOK(n, status[n], m, timer[n], stale[n], late)
    BY <1>1, <2>1, <2>2, TimerInvIs
  <2>4. TimerOK(n, s1, m, timer[n], stale[n], late)
    BY <1>3, <2>3 DEF TimerOK
  <2>5. TimerOK(n, s1, [m EXCEPT !.fresh = FALSE], timer[n], stale[n], late)
    BY <1>1, <2>4, TimerOKFresh
  <2>6. (n \in over) = late
    BY <2>2
  <2> QED
    BY <2>5, <2>6
<1>7. s = "SKIPPED" => LiveIdx(n) = {} /\ (Children(n) = <<>> => status[n] # "RUNNING")
  BY <1>4 DEF L
<1>8. IF n \in DOMAIN mem THEN m \in MemType(n) ELSE m = Blank
  BY <1>1
<1>9. Return(n, s, m, {})
  BY DEF m
<1> QED
  BY <1>2, <1>3, <1>5, <1>6, <1>7, <1>8, <1>9, ReturnNone DEF s1, L, C

\* A Sleep with nothing to wait for.
LEMMA SleepAtOnceKeeps ==
  ASSUME IInv, NEW n, Inside(n), SleepAtOnce(n)
  PROVE  IInv'
<1>1. /\ ret = None /\ Kind(n) = "Sleep" /\ status[n] = "IDLE"
      /\ tree' = tree /\ value' = value /\ wake' = wake /\ Return(n, "SUCCESS", mem[n], {})
  BY DEF SleepAtOnce, Entered
<1>2. n \in DOMAIN mem /\ Mem(n) = mem[n]
  BY <1>1, Here DEF WithMem, Timed
<1>3. "SUCCESS" \in Returning
  BY DEF Returning
<1> QED
  BY <1>1, <1>2, <1>3, IdleReturns

\* A Sleep adds its timer.
LEMMA SleepStartKeeps ==
  ASSUME IInv, NEW n, Inside(n), SleepStart(n)
  PROVE  IInv'
<1> DEFINE m1 == [Blank EXCEPT !.on = TRUE]
<1>1. /\ ret = None /\ Kind(n) = "Sleep" /\ tree' = tree /\ value' = value /\ wake' = wake
      /\ Leaves(n, "RUNNING", m1, {}) /\ Starts(n) /\ Exits("RUNNING")
  BY DEF SleepStart, Entered
<1>2. m1 \in MemType(n) /\ m1.on /\ m1 = [Blank EXCEPT !.on = m1.on]
  BY BlankFacts DEF Blank, MemType
<1> HIDE DEF m1
<1>3. Kind(n) \notin Controls \cup Decorators
  BY <1>1 DEF Controls, Decorators, Ordered, Sequences_, Fallbacks, Reactives,
              Parallels, Branches, Plain, Loops, Clocked
<1>4. /\ LiveIdx(n) = {} /\ DoneIdx(n) = {} /\ Index(n, {}) = {}
      /\ value \in Values \cup {None} /\ wake \in BOOLEAN
      /\ (NodeOK(n, "RUNNING", m1, FALSE, {}, {}, FALSE) <=> SleepOK("RUNNING", m1))
  BY <1>1, <1>3, LeafFacts
<1>5. TypeOK /\ n \in Nodes /\ n \in DOMAIN mem /\ n \in DOMAIN timer
  BY <1>1, Here DEF WithMem, Timed
<1>6. Halted({}) = {}
  BY DEF Halted
<1>7. "RUNNING" \in Statuses \cup {"SKIPPED"} /\ "RUNNING" \in Results /\ {} \subseteq ChildSet(n)
  BY DEF Statuses, Results
<1>8. DOMAIN mem' = DOMAIN mem /\ Mem(n)' = m1 /\ status'[n] = "RUNNING"
  BY <1>1, <1>2, <1>5, <1>7, LeavesFrame
<1>9. NodeOK(n, IF "RUNNING" = "SKIPPED" THEN status[n] ELSE "RUNNING", m1, FALSE,
             LiveIdx(n) \ Index(n, {}), DoneIdx(n) \ Index(n, {}), FALSE)
  <2>1. SleepOK("RUNNING", m1)
    BY <1>2 DEF SleepOK
  <2> QED
    BY <1>4, <2>1
<1>10. /\ Timers' /\ DOMAIN timer' = DOMAIN timer /\ timer'[n] = "added"
       /\ n \notin over' => stale'[n] = {}
       /\ \A x \in DOMAIN timer : x # n =>
              timer'[x] = timer[x] /\ stale'[x] = stale[x] /\ (x \in over <=> x \in over')
  BY <1>1, <1>5, <1>8, StartsFrame, TypeTimers
<1>11. TimerInv(n)'
  <2>1. PICK late \in BOOLEAN : n \in over' <=> late
    BY Zenon
  <2>2. ~late => stale'[n] = {}
    BY <1>10, <2>1
  <2>3. TimerOK(n, "RUNNING", m1, "added", stale'[n], late)
    BY <1>1, <1>2, <2>2 DEF TimerOK, Clocked
  <2>4. mem'[n] = m1
    BY <1>5, <1>8 DEF Mem
  <2> QED
    BY <1>1, <1>8, <1>10, <2>1, <2>3, <2>4, TimerInvIs
<1>12. \A x \in DOMAIN timer : x # n =>
            IF x \in Halted({}) THEN timer'[x] = "off"
            ELSE timer'[x] = timer[x] /\ stale'[x] = stale[x] /\ (x \in over <=> x \in over')
  BY <1>6, <1>10
<1>13. value' \in Values \cup {None} /\ wake' \in BOOLEAN
  BY <1>1, <1>4
<1>14. IF n \in DOMAIN mem THEN m1 \in MemType(n) ELSE m1 = Blank
  BY <1>2, <1>5
<1> QED
  BY <1>1, <1>7, <1>9, <1>10, <1>11, <1>12, <1>13, <1>14, LeavesOver

\* A Sleep waits, or is over.
LEMMA SleepTickKeeps ==
  ASSUME IInv, NEW n, Inside(n), SleepTick(n)
  PROVE  IInv'
<1> DEFINE m  == mem[n]
           s  == IF m.on THEN "RUNNING" ELSE "SUCCESS"
           m2 == [m EXCEPT !.fresh = FALSE]
<1>1. /\ ret = None /\ Kind(n) = "Sleep" /\ tree' = tree /\ value' = value /\ wake' = wake
      /\ status[n] = "RUNNING" /\ Return(n, s, m, {})
  BY DEF SleepTick, Entered
<1>2. Kind(n) \notin Controls \cup Decorators
  BY <1>1 DEF Controls, Decorators, Ordered, Sequences_, Fallbacks, Reactives,
              Parallels, Branches, Plain, Loops, Clocked
<1>3. /\ LiveIdx(n) = {} /\ DoneIdx(n) = {}
      /\ value \in Values \cup {None} /\ wake \in BOOLEAN
      /\ \A r, a : NodeOK(n, r, a, FALSE, {}, {}, FALSE) <=> SleepOK(r, a)
  BY <1>1, <1>2, LeafFacts
<1>4. /\ n \in DOMAIN mem /\ n \in DOMAIN timer /\ m \in MemType(n) /\ Mem(n) = m
      /\ NodeOK(n, status[n], Mem(n), FALSE, LiveIdx(n), DoneIdx(n), FALSE)
  BY <1>1, Here DEF WithMem, Timed
<1>5. TimerOK(n, status[n], m, timer[n], stale[n], n \in over)
  <2>1. TimerInv(n)
    BY <1>4 DEF IInv
  <2> QED
    BY <2>1 DEF TimerInv
<1> HIDE DEF m
<1>6. s \in Results /\ s # "SKIPPED"
  BY DEF Results, Completed
<1>7. NodeOK(n, s, m2, FALSE, {}, {}, FALSE)
  <2>1. SleepOK(s, m)
    <3>1. NodeOK(n, status[n], m, FALSE, {}, {}, FALSE)
      BY <1>3, <1>4
    <3>2. SleepOK(status[n], m)
      BY <1>3, <3>1
    <3> QED
      BY <1>1, <3>2 DEF SleepOK
  <2>2. NodeOK(n, s, m, FALSE, {}, {}, FALSE)
    BY <1>3, <2>1
  <2> HIDE DEF s
  <2> QED
    BY <1>4, <2>2, NodeOKFresh
<1>8. TimerOK(n, s, m2, timer[n], stale[n], n \in over)
  <2>1. TimerOK(n, s, m, timer[n], stale[n], n \in over)
    <3>1. PICK late \in BOOLEAN : n \in over <=> late
      BY Zenon
    <3>2. (n \in over) = late
      BY <3>1
    <3>3. TimerOK(n, "RUNNING", m, timer[n], stale[n], late)
      BY <1>1, <1>5, <3>2
    <3>4. TimerOK(n, s, m, timer[n], stale[n], late)
      BY <1>1, <3>3 DEF TimerOK
    <3> QED
      BY <3>2, <3>4
  <2> HIDE DEF s
  <2> QED
    BY <1>4, <2>1, TimerOKFresh
<1> HIDE DEF s, m2
<1>9. /\ NodeOK(n, IF s = "SKIPPED" THEN status[n] ELSE s, [m EXCEPT !.fresh = FALSE], FALSE,
                LiveIdx(n), DoneIdx(n), FALSE)
      /\ TimerOK(n, IF s = "SKIPPED" THEN status[n] ELSE s, [m EXCEPT !.fresh = FALSE],
                 timer[n], stale[n], n \in over)
  BY <1>3, <1>6, <1>7, <1>8 DEF m2
<1>10. /\ value' \in Values \cup {None} /\ wake' \in BOOLEAN
       /\ IF n \in DOMAIN mem THEN m \in MemType(n) ELSE m = Blank
  BY <1>1, <1>3, <1>4
<1> QED
  BY <1>1, <1>6, <1>9, <1>10, ReturnNone

-----------------------------------------------------------------------------
(* Pre-conditions                                                          *)

\* A node that is idle is not started; one that runs is halted.
LEMMA PreemptKeeps ==
  ASSUME IInv, NEW n, Inside(n), Preempt(n)
  PROVE  IInv'
<1> DEFINE m == Mem(n)
<1>1. ret = None /\ tree' = tree /\ value' = value /\ wake' = wake
  BY DEF Preempt
<1>2. /\ TypeOK /\ TreeInv /\ n \in Nodes /\ tree \in DOMAIN Forest
      /\ m \in MemType(n) /\ (n \in DOMAIN mem => m = mem[n]) /\ (n \notin DOMAIN mem => m = Blank)
      /\ (n \in DOMAIN mem <=> Kind(n) \in WithMem)
      /\ NodeOK(n, status[n], m, FALSE, LiveIdx(n), DoneIdx(n), FALSE)
  BY <1>1, Here
<1>3. value' \in Values \cup {None} /\ wake' \in BOOLEAN
  BY <1>1, <1>2 DEF TypeOK
<1>4. \/ status[n] = "IDLE" /\ \E s \in Returning : Return(n, s, m, {})
      \/ /\ status[n] = "RUNNING"
         /\ Return(n, "SKIPPED", IF n \in DOMAIN mem THEN HaltedMem(n) ELSE Blank, {n})
  BY DEF Preempt, Mem, Returning
<1>5. CASE status[n] = "IDLE" /\ \E s \in Returning : Return(n, s, m, {})
  BY <1>1, <1>5, IdleReturns
<1>6. CASE /\ status[n] = "RUNNING"
           /\ Return(n, "SKIPPED", IF n \in DOMAIN mem THEN HaltedMem(n) ELSE Blank, {n})
  <2> DEFINE m0 == IF Kind(n) \in {"SequenceWithMemory", "RunOnce", "Precondition", "Loop"}
                   THEN m ELSE Blank
             m2 == [m0 EXCEPT !.fresh = FALSE]
  <2>1. m0 = IF n \in DOMAIN mem THEN HaltedMem(n) ELSE Blank
    BY <1>2 DEF HaltedMem
  <2>2. Leaves(n, "SKIPPED", m2, {n}) /\ Cancels(Halted({n})) /\ Exits("SKIPPED")
    BY <1>6, <2>1 DEF Return
  <2>3. m0 \in MemType(n)
    BY <1>2, BlankFacts
  <2>4. NodeOK(n, "IDLE", m0, FALSE, {}, {}, FALSE)
    BY <1>2, <1>6, NodeOKHalted
  <2> HIDE DEF m0
  <2>5. NodeOK(n, "IDLE", m2, FALSE, {}, {}, FALSE) /\ m2 \in MemType(n)
    BY <2>3, <2>4, NodeOKFresh, BlankFacts
  <2>6. n \notin DOMAIN mem => m2 = Blank
    BY <2>1, BlankFacts
  <2> HIDE DEF m2, m
  <2>7. \A x \in Nodes : Locked(x) <=> n \in Below(x) /\ (x = n => ret # None)
    BY <1>2, OnPath
  <2>8. ~Locked(n) /\ \A x \in Below(n) : x # n => ~Locked(x)
    BY <1>1, <1>2, <2>7, TreeFacts, BelowFacts
  <2>9. "SKIPPED" \in Statuses \cup {"SKIPPED"} /\ "SKIPPED" \in Results /\ {n} \in SUBSET Nodes
    BY <1>2 DEF Results
  <2>10. n \in Halted({n})
    BY <1>2, <1>6, <2>9, HaltedFacts
  <2>11. DOMAIN mem' = DOMAIN mem /\ Mem(n)' = m2 /\ status'[n] = "IDLE"
    BY <1>1, <1>2, <2>2, <2>5, <2>6, <2>9, LeavesFrame
  <2>12. LiveIdx(n)' = {} /\ DoneIdx(n)' = {} /\ ~Live(n)'
    BY <1>1, <1>2, <1>6, <2>2, <2>5, <2>8, <2>9, <2>10, LeavesLive
  <2>13. NodeOK(n, status'[n], Mem(n)', FALSE, LiveIdx(n)', DoneIdx(n)', FALSE)
    BY <2>5, <2>11, <2>12
  <2>14. /\ Timers' /\ DOMAIN timer' = DOMAIN timer /\ over' = over
         /\ \A x \in DOMAIN timer :
              IF x \in Halted({n}) THEN timer'[x] = "off"
              ELSE timer'[x] = timer[x] /\ stale'[x] = stale[x]
    BY <1>1, <1>2, <2>2, <2>11, CancelsHalted
  <2>15. ASSUME n \in DOMAIN timer PROVE TimerInv(n)'
    <3>1. PICK late \in BOOLEAN : n \in over' <=> late
      BY Zenon
    <3>2. TimerOK(n, "IDLE", mem'[n], "off", stale'[n], late)
      BY DEF TimerOK
    <3> QED
      BY <1>1, <2>10, <2>11, <2>14, <2>15, <3>1, <3>2, TimerInvIs
  <2>16. \A x \in DOMAIN timer : x # n =>
            IF x \in Halted({n}) THEN timer'[x] = "off"
            ELSE timer'[x] = timer[x] /\ stale'[x] = stale[x] /\ (x \in over <=> x \in over')
    BY <2>14
  <2>17. "SKIPPED" \in Returning => ~Live(n)'
    BY <2>12
  <2> QED
    BY <1>1, <1>3, <1>6, <2>2, <2>5, <2>8, <2>9, <2>13, <2>14, <2>15, <2>16, <2>17, Over
<1> QED
  BY <1>4, <1>5, <1>6

-----------------------------------------------------------------------------
(* A tick of the root                                                      *)

\* A step of the node that is ticked.
LEMMA NodeStepKeeps ==
  ASSUME IInv, NEW n, Inside(n), NodeStep(n)
  PROVE  IInv'
<1>1. CASE Preempt(n)
  BY <1>1, PreemptKeeps
<1>2. CASE ControlStep(n)
  BY <1>2, OrderedKeeps, ReactiveKeeps, ParallelKeeps, BranchKeeps, SwitchKeeps
     DEF ControlStep, BranchStep
<1>3. CASE DecoratorStep(n)
  BY <1>3, PlainKeeps, LoopKeeps, PreconditionKeeps, UpdatedKeeps, RunOnceKeeps, QueueKeeps,
     ClockStartKeeps, ClockTickKeeps, ClockBackKeeps DEF DecoratorStep
<1>4. CASE LeafStep(n)
  BY <1>4, LeafKeeps, StatefulDoneKeeps, SleepAtOnceKeeps, SleepStartKeeps, SleepTickKeeps
     DEF LeafStep
<1> QED
  BY <1>1, <1>2, <1>3, <1>4 DEF NodeStep

\* No leaf starts to run, no child completes, and no node is locked: what holds of a
\* node still does.
LEMMA Outside ==
  ASSUME TypeOK, TreeInv, tree' = tree, mem' = mem, stack = <<>>,
         \A x \in Nodes : ~Locked(x)', ret' = None,
         \A x \in Nodes : \/ status'[x] = status[x]
                          \/ status[x] \in Completed /\ status'[x] = "IDLE"
  PROVE  Returned' /\ \A x \in Nodes : NodeInv(x)' 
<1>1. Returned'
  BY DEF Returned, Completed, Returning, None
<1>2. \A x \in Nodes : NodeInv(x)'
  <2> TAKE x \in Nodes
  <2>1. tree \in DOMAIN Forest
    BY DEF TypeOK
  <2>2. ~Locked(x) /\ ~Inside(x) /\ ~(Inside(x)' /\ ret' \in Completed)
    BY DEF Locked, ToSet, Inside, Completed, None
  <2>3. NodeOK(x, status[x], Mem(x), FALSE, LiveIdx(x), DoneIdx(x), FALSE)
    BY <2>2, NodeInvIs DEF TreeInv
  <2>4. Mem(x)' = Mem(x)
    BY DEF Mem
  <2>5. \A y \in Nodes : Live(y)' => Live(y)
    <3>1. \A y \in Nodes : \A l \in Below(y) : l \in Nodes
      BY <2>1, TreeFacts
    <3> QED
      BY <3>1, SameTree DEF Live, Completed
  <2>6. \A i \in DOMAIN Children(x) : Child(x, i) \in Nodes
    BY <2>1, TreeFacts
  <2>7. LiveIdx(x)' \subseteq LiveIdx(x)
    BY <2>5, <2>6, SameTree DEF LiveIdx
  <2>8. DoneIdx(x)' \subseteq DoneIdx(x)
    BY <2>6, SameTree DEF DoneIdx, Completed
  <2>9. status[x] = "RUNNING" <=> status'[x] = "RUNNING"
    BY DEF Completed
  <2>10. NodeOK(x, status'[x], Mem(x), FALSE, LiveIdx(x)', DoneIdx(x)', FALSE)
    BY <2>3, <2>7, <2>8, <2>9, NodeOKMono
  <2>11. NodeInv(x)' <=>
           NodeOK(x, status'[x], Mem(x)', FALSE, LiveIdx(x)', DoneIdx(x)', FALSE)
    BY <2>2, NodeInvIs
  <2> QED
    BY <2>4, <2>10, <2>11
<1> QED
  BY <1>1, <1>2

\* The root is ticked, again or for the first time.
LEMMA RootTicked ==
  ASSUME IInv, TickRoot \/ TickAgain
  PROVE  IInv'
<1>1. /\ stack = <<>> /\ ret # "EXCEPTION" /\ stack' = <<Root>> /\ ret' = None /\ tree' = tree
      /\ status' = status /\ mem' = mem /\ timerVars' = timerVars /\ value' = value
  BY DEF TickRoot, TickAgain, None
<1>2. TypeOK /\ TreeInv /\ \A x \in DOMAIN timer : TimerInv(x)
  BY <1>1 DEF IInv
<1>3. Root \in Nodes /\ tree \in DOMAIN Forest
  BY <1>2, TreeFacts DEF TypeOK
<1>4. wake' \in BOOLEAN
  BY <1>2 DEF TickRoot, TickAgain, TypeOK
<1>5. TypeOK'
  <2>1. stack' \in Seq(Nodes)
    BY <1>1, <1>3
  <2>2. \A x : MemType(x)' = MemType(x)
    BY <1>1, SameTree
  <2>3. {x \in Nodes : Kind(x) \in WithMem}' = {x \in Nodes : Kind(x) \in WithMem}
        /\ {x \in Nodes : Kind(x) \in Timed}' = {x \in Nodes : Kind(x) \in Timed}
    BY <1>1, SameTree DEF WithMem, Timed, Sequences_, Fallbacks, Reactives, Parallels, Branches
  <2>4. Nodes' = Nodes /\ Statuses' = Statuses /\ Results' = Results /\ None' = None
    BY <1>1, SameTree DEF Statuses, Results, None, Completed
  <2> QED
    BY <1>1, <1>2, <1>4, <2>1, <2>2, <2>3, <2>4 DEF TypeOK, timerVars
<1>6. Path'
  <2>1. Len(stack') = 1 /\ stack'[1] = Root /\ Last(stack') = Root /\ ToSet(stack') = {Root}
    BY <1>1 DEF Last, ToSet
  <2>2. \A x \in Nodes : Root \in Below(x) => x = Root
    BY <1>3, TreeFacts, BelowFacts
  <2>3. Root' = Root /\ Nodes' = Nodes /\ \A x : Below(x)' = Below(x)
    BY <1>1, SameTree
  <2> QED
    BY <2>1, <2>2, <2>3 DEF Path
<1>7. \A x \in Nodes : ~Locked(x)'
  <2>1. ToSet(stack') = {Root} /\ stack' # <<>> /\ Last(stack') = Root
    BY <1>1 DEF Last, ToSet
  <2> QED
    BY <1>1, <2>1 DEF Locked, Entered, Inside, None
<1>8. TreeInv'
  <2>1. \A x \in Nodes : \/ status'[x] = status[x]
                         \/ status[x] \in Completed /\ status'[x] = "IDLE"
    BY <1>1
  <2>2. Returned' /\ \A x \in Nodes : NodeInv(x)'
    BY <1>1, <1>2, <1>7, <2>1, Outside
  <2>3. Nodes' = Nodes
    BY <1>1, SameTree
  <2> QED
    BY <1>6, <2>2, <2>3 DEF TreeInv
<1>9. \A x \in DOMAIN timer' : TimerInv(x)'
  BY <1>1, <1>2, SameNodeOK DEF TimerInv, timerVars
<1> QED
  BY <1>1, <1>5, <1>8, <1>9 DEF IInv, None

\* The tick is over, and waits for the next one.
LEMMA TickEndsKeeps ==
  ASSUME IInv, TickEnds
  PROVE  IInv'
<1>1. /\ stack = <<>> /\ ret # "EXCEPTION" /\ stack' = stack /\ ret' = None /\ tree' = tree
      /\ mem' = mem /\ stale' = stale /\ over' = over /\ value' = value /\ wake' = wake
      /\ status' = IF ret \in Completed THEN [status EXCEPT ![Root] = "IDLE"] ELSE status
      /\ timer' = [x \in DOMAIN timer |-> IF timer[x] = "added" THEN "waiting" ELSE timer[x]]
  BY DEF TickEnds, Results, Completed
<1>2. TypeOK /\ TreeInv /\ \A x \in DOMAIN timer : TimerInv(x)
  BY <1>1 DEF IInv
<1>3. Root \in Nodes /\ tree \in DOMAIN Forest /\ status \in [Nodes -> Statuses]
  BY <1>2, TreeFacts DEF TypeOK
<1>4. ret \in Completed => status[Root] \in Completed
  BY <1>1, <1>2 DEF TreeInv, Returned
<1>5. /\ status' \in [Nodes -> Statuses]
      /\ \A x \in Nodes : \/ status'[x] = status[x]
                          \/ status[x] \in Completed /\ status'[x] = "IDLE"
  <2>1. CASE ret \in Completed
    <3>1. status' = [status EXCEPT ![Root] = "IDLE"]
      BY <1>1, <2>1
    <3>2. "IDLE" \in Statuses
      BY DEF Statuses
    <3> QED
      BY <1>3, <1>4, <2>1, <3>1, <3>2
  <2>2. CASE ret \notin Completed
    BY <1>1, <1>3, <2>2
  <2> QED
    BY <2>1, <2>2
<1>6. /\ DOMAIN timer' = DOMAIN timer
      /\ timer' \in [DOMAIN timer -> {"off", "added", "waiting", "signalled"}]
      /\ \A x \in DOMAIN timer : /\ timer'[x] = "off" <=> timer[x] = "off"
                                 /\ timer'[x] = "signalled" <=> timer[x] = "signalled"
  <2>1. timer \in [DOMAIN timer -> {"off", "added", "waiting", "signalled"}]
    BY <1>2 DEF TypeOK
  <2> QED
    BY <1>1, <2>1
<1>7. TypeOK'
  <2>1. \A x : MemType(x)' = MemType(x)
    BY <1>1, SameTree
  <2>2. {x \in Nodes : Kind(x) \in WithMem}' = {x \in Nodes : Kind(x) \in WithMem}
        /\ {x \in Nodes : Kind(x) \in Timed}' = {x \in Nodes : Kind(x) \in Timed}
    BY <1>1, SameTree DEF WithMem, Timed, Sequences_, Fallbacks, Reactives, Parallels, Branches
  <2>3. Nodes' = Nodes /\ Statuses' = Statuses /\ Results' = Results /\ None' = None
    BY <1>1, SameTree DEF Statuses, Results, None, Completed
  <2> QED
    BY <1>1, <1>2, <1>5, <1>6, <2>1, <2>2, <2>3 DEF TypeOK
<1>8. Path'
  BY <1>1 DEF Path
<1>9. TreeInv'
  <2>1. \A x \in Nodes : ~Locked(x)'
    BY <1>1 DEF Locked, ToSet
  <2>2. Returned' /\ \A x \in Nodes : NodeInv(x)'
    BY <1>1, <1>2, <1>5, <2>1, Outside
  <2>3. Nodes' = Nodes
    BY <1>1, SameTree
  <2> QED
    BY <1>8, <2>2, <2>3 DEF TreeInv
<1>10. \A x \in DOMAIN timer' : TimerInv(x)'
  <2> TAKE x \in DOMAIN timer'
  <2>1. PICK late \in BOOLEAN : x \in over <=> late
    BY Zenon
  <2>2. x \in Nodes
    BY <1>2, <1>6 DEF TypeOK
  <2>3. TimerOK(x, status[x], mem[x], timer[x], stale[x], late)
    BY <1>1, <1>2, <1>6, <2>1, TimerInvIs
  <2>4. status'[x] = "RUNNING" <=> status[x] = "RUNNING"
    BY <1>5, <2>2 DEF Completed
  <2>5. TimerOK(x, status'[x], mem[x], timer'[x], stale[x], late)
    BY <1>6, <2>3, <2>4 DEF TimerOK
  <2> QED
    BY <1>1, <2>1, <2>5, TimerInvIs
<1> QED
  BY <1>1, <1>7, <1>9, <1>10 DEF IInv, None

-----------------------------------------------------------------------------
(* The threads of the timer queues                                         *)

\* A handler runs: one left from an earlier timer, or the one of the timer n waits for.
LEMMA ExpiryFacts ==
  ASSUME Timers, NEW n \in DOMAIN timer, NEW q \in Expiries(n)
  PROVE  /\ q[1] \in [DOMAIN timer -> {"off", "added", "waiting", "signalled"}]
         /\ q[2] \in [DOMAIN timer -> SUBSET {"aborted", "due"}]
         /\ \A x \in DOMAIN timer : x # n => q[1][x] = timer[x] /\ q[2][x] = stale[x]
         /\ \/ "due" \in stale[n] /\ q[1][n] = timer[n]
            \/ stale[n] = {} /\ timer[n] = "waiting" /\ q[1][n] = "off" /\ q[2][n] = {}
<1>1. /\ timer \in [DOMAIN timer -> {"off", "added", "waiting", "signalled"}]
      /\ stale \in [DOMAIN timer -> SUBSET {"aborted", "due"}]
  BY DEF Timers
<1>2. CASE "due" \in stale[n]
  <2>1. q = <<timer, [stale EXCEPT ![n] = @ \ {"due"}]>>
    BY <1>2 DEF Expiries
  <2>2. stale[n] \ {"due"} \in SUBSET {"aborted", "due"}
    BY <1>1
  <2> QED
    BY <1>1, <1>2, <2>1, <2>2
<1>3. CASE "due" \notin stale[n]
  <2>1. q = <<[timer EXCEPT ![n] = "off"], stale>> /\ stale[n] = {} /\ timer[n] = "waiting"
    BY <1>3 DEF Expiries
  <2> QED
    BY <1>1, <2>1
<1> QED
  BY <1>2, <1>3

\* The wake-up signal is set or not.
LEMMA EmitFacts ==
  ASSUME TypeOK, EmitWakeUpSignal
  PROVE  wake' \in BOOLEAN
BY DEF EmitWakeUpSignal, TypeOK

\* The members and the timer of one node change, and no status does.
LEMMA HandlerKeeps ==
  ASSUME IInv, NEW n \in DOMAIN timer, NEW m \in MemType(n),
         tree' = tree, status' = status, value' = value, stack' = stack, ret' = ret,
         wake' \in BOOLEAN, mem' = [x \in DOMAIN mem |-> IF x = n THEN m ELSE mem[x]],
         Timers', DOMAIN timer' = DOMAIN timer, over' = over,
         \A x \in DOMAIN timer : x # n => timer'[x] = timer[x] /\ stale'[x] = stale[x],
         TimerInv(n)',
         ret # "EXCEPTION" => NodeOK(n, status[n], m, Locked(n), LiveIdx(n), DoneIdx(n),
                                     Inside(n) /\ ret \in Completed)
  PROVE  IInv'
<1>1. /\ TypeOK /\ Timers /\ n \in Nodes /\ n \in DOMAIN mem /\ Kind(n) \in Timed
      /\ tree \in DOMAIN Forest
  BY TypeTimers DEF IInv, Timers, TypeOK
<1>2. /\ DOMAIN mem = {x \in Nodes : Kind(x) \in WithMem} /\ DOMAIN mem' = DOMAIN mem
      /\ \A x \in DOMAIN mem : mem'[x] \in MemType(x)
      /\ mem' = [x \in DOMAIN mem |-> mem'[x]]
      /\ Mem(n)' = m /\ \A x \in Nodes : x # n => Mem(x)' = Mem(x)
  <2>1. DOMAIN mem = {x \in Nodes : Kind(x) \in WithMem} /\ \A x \in DOMAIN mem : mem[x] \in MemType(x)
    BY <1>1 DEF TypeOK
  <2>2. DOMAIN mem' = DOMAIN mem /\ \A x \in DOMAIN mem : mem'[x] = IF x = n THEN m ELSE mem[x]
    OBVIOUS
  <2> QED
    BY <1>1, <2>1, <2>2 DEF Mem
<1>3. TypeOK'
  <2>1. \A x : MemType(x)' = MemType(x)
    BY SameTree
  <2>2. {x \in Nodes : Kind(x) \in WithMem}' = {x \in Nodes : Kind(x) \in WithMem}
    BY SameTree DEF WithMem, Timed, Sequences_, Fallbacks, Reactives, Parallels, Branches
  <2>3. Nodes' = Nodes /\ Statuses' = Statuses /\ Results' = Results /\ None' = None
    BY SameTree DEF Statuses, Results, None, Completed
  <2>4. /\ DOMAIN timer' = {x \in Nodes : Kind(x) \in Timed}'
        /\ timer' \in [DOMAIN timer' -> {"off", "added", "waiting", "signalled"}]
        /\ stale' \in [DOMAIN timer' -> SUBSET {"aborted", "due"}]
        /\ over' \subseteq DOMAIN timer'
    BY DEF Timers
  <2>5. /\ tree' \in DOMAIN Forest /\ status' \in [Nodes -> Statuses]
        /\ value' \in Values \cup {None} /\ stack' \in Seq(Nodes)
        /\ ret' \in Results \cup {None, "EXCEPTION"}
    BY <1>1 DEF TypeOK
  <2>6. mem' = [x \in {x \in Nodes : Kind(x) \in WithMem} |-> mem'[x]]
    BY <1>2
  <2> QED
    BY <1>2, <2>1, <2>2, <2>3, <2>4, <2>5, <2>6 DEF TypeOK
<1>4. ASSUME ret # "EXCEPTION" PROVE TreeInv'
  <2>1. TreeInv
    BY <1>4 DEF IInv
  <2>2. \A x : Cur(x)' = Cur(x)
    <3>1. \A x \in Nodes : CurIdx(x, Mem(x))' = CurIdx(x, Mem(x))
      BY <1>1, <1>2, SameTree DEF CurIdx, Timed, Controls, Ordered, Sequences_, Fallbacks,
                                  Reactives, Parallels, Branches
    <3>2. \A x : x \notin Nodes => Mem(x)' = Mem(x)
      BY <1>2 DEF Mem
    <3>3. \A x : x \notin Nodes => CurIdx(x, Mem(x))' = CurIdx(x, Mem(x))
      BY <3>2, SameTree DEF CurIdx
    <3>4. \A x : CurIdx(x, Mem(x))' = CurIdx(x, Mem(x)) => Cur(x)' = Cur(x)
      BY SameTree DEF Cur
    <3> QED
      BY <3>1, <3>3, <3>4
  <2>3. /\ Path' /\ \A x \in Nodes : (Locked(x)' <=> Locked(x)) /\ (Inside(x)' <=> Inside(x))
    <3>1. \A i \in 1 .. Len(stack) - 1 : Cur(stack[i])' = Cur(stack[i])
      BY <2>2
    <3> QED
      BY <1>1, <2>1, <3>1, SameStack DEF TreeInv
  <2>4. \A x : (Live(x)' <=> Live(x)) /\ LiveIdx(x)' = LiveIdx(x) /\ DoneIdx(x)' = DoneIdx(x)
    <3>1. \A x : Live(x)' <=> Live(x)
      BY SameTree DEF Live
    <3> QED
      BY <3>1, SameTree DEF LiveIdx, DoneIdx, Completed
  <2>5. Returned'
    <3>1. (IF stack = <<>> THEN Root ELSE Cur(Last(stack)))'
            = IF stack = <<>> THEN Root ELSE Cur(Last(stack))
      BY <2>2, SameTree
    <3> QED
      BY <2>1, <2>4, <3>1 DEF TreeInv, Returned, Completed, Returning
  <2>6. \A x \in Nodes : NodeInv(x)'
    <3> TAKE x \in Nodes
    <3>1. PICK locked \in BOOLEAN : Locked(x) <=> locked
      BY Zenon
    <3>2. PICK back \in BOOLEAN : Inside(x) /\ ret \in Completed <=> back
      BY Zenon
    <3>3. (Locked(x)' <=> locked) /\ (Inside(x)' /\ ret' \in Completed <=> back)
      BY <2>3, <3>1, <3>2
    <3>4. NodeOK(x, status[x], Mem(x)', locked, LiveIdx(x), DoneIdx(x), back)
      <4>1. CASE x = n
        <5>1. Locked(n) = locked /\ (Inside(n) /\ ret \in Completed) = back
          BY <3>1, <3>2, <4>1 DEF Locked, Inside
        <5> QED
          BY <1>2, <1>4, <4>1, <5>1
      <4>2. CASE x # n
        <5>1. NodeInv(x)
          BY <2>1 DEF TreeInv
        <5> QED
          BY <1>2, <3>1, <3>2, <4>2, <5>1, NodeInvIs
      <4> QED
        BY <4>1, <4>2
    <3> QED
      BY <2>4, <3>3, <3>4, NodeInvIs
  <2> QED
    BY <2>3, <2>5, <2>6, SameTree DEF TreeInv
<1>5. \A x \in DOMAIN timer' : TimerInv(x)'
  <2> TAKE x \in DOMAIN timer'
  <2>1. CASE x = n
    BY <2>1
  <2>2. CASE x # n
    <3>1. TimerInv(x) /\ x \in DOMAIN timer /\ x \in DOMAIN mem
      BY <1>1 DEF IInv, Timers
    <3>2. PICK late \in BOOLEAN : x \in over <=> late
      BY Zenon
    <3>3. mem'[x] = mem[x] /\ timer'[x] = timer[x] /\ stale'[x] = stale[x]
      BY <2>2, <3>1
    <3>4. TimerOK(x, status[x], mem[x], timer[x], stale[x], late)
      BY <3>1, <3>2, TimerInvIs
    <3>5. x \in over' <=> late
      BY <3>2
    <3> QED
      BY <3>3, <3>4, <3>5, TimerInvIs
  <2> QED
    BY <2>1, <2>2
<1>6. ret' = "EXCEPTION" => stack' = <<>>
  BY DEF IInv
<1> QED
  BY <1>3, <1>4, <1>5, <1>6 DEF IInv

\* The steps of the handlers of a Sleep.
LEMMA SleepHandlerKeeps ==
  ASSUME IInv, NEW n \in DOMAIN timer, SleepStep(n)
  PROVE  IInv'
<1> DEFINE m  == mem[n]
           m1 == IF SleepClears(n) THEN [m EXCEPT !.on = FALSE] ELSE m
<1>1. /\ Kind(n) = "Sleep" /\ tree' = tree /\ status' = status /\ value' = value /\ stack' = stack
      /\ ret' = ret /\ over' = over
  BY DEF SleepStep, SleepSignals, SleepClears
<1>2. /\ TypeOK /\ Timers /\ n \in Nodes /\ n \in DOMAIN mem /\ m \in MemType(n) /\ Mem(n) = m
  BY TypeTimers, MemFacts DEF IInv, Timers, TypeOK
<1>3. PICK late \in BOOLEAN : n \in over <=> late
  BY Zenon
<1>4. TimerOK(n, status[n], m, timer[n], stale[n], late)
  BY <1>1, <1>3, TimerInvIs DEF IInv
<1>5. wake' \in BOOLEAN
  BY <1>2, EmitFacts DEF SleepStep, SleepSignals, SleepClears, TypeOK
<1>6. /\ timer \in [DOMAIN timer -> {"off", "added", "waiting", "signalled"}]
      /\ stale \in [DOMAIN timer -> SUBSET {"aborted", "due"}]
  BY <1>2 DEF Timers
<1>7. /\ timer' \in [DOMAIN timer -> {"off", "added", "waiting", "signalled"}]
      /\ stale' \in [DOMAIN timer -> SUBSET {"aborted", "due"}]
      /\ DOMAIN timer' = DOMAIN timer
      /\ \A x \in DOMAIN timer : x # n => timer'[x] = timer[x] /\ stale'[x] = stale[x]
  BY <1>6 DEF SleepStep, SleepSignals, SleepClears
<1>8. mem' = [x \in DOMAIN mem |-> IF x = n THEN m1 ELSE mem[x]]
  <2>1. mem = [x \in DOMAIN mem |-> mem[x]]
    BY <1>2 DEF TypeOK
  <2>2. CASE SleepClears(n)
    <3>1. mem' = [mem EXCEPT ![n] = m1]
      BY <2>2 DEF SleepClears
    <3> HIDE DEF m1
    <3> QED
      BY <2>1, <3>1
  <2>3. CASE ~SleepClears(n)
    <3>1. mem' = mem /\ m1 = mem[n]
      BY <2>3 DEF SleepStep, SleepSignals
    <3> HIDE DEF m1
    <3> QED
      BY <2>1, <3>1
  <2> QED
    BY <2>2, <2>3
<1>9. m1 \in MemType(n) /\ (m = [Blank EXCEPT !.on = m.on] => m1 = [Blank EXCEPT !.on = m1.on])
  <2>1. [m EXCEPT !.on = FALSE] \in MemType(n)
    BY <1>2 DEF MemType
  <2>2. m = [Blank EXCEPT !.on = m.on] => [m EXCEPT !.on = FALSE] = [Blank EXCEPT !.on = FALSE]
    BY DEF Blank
  <2>3. [Blank EXCEPT !.on = FALSE].on = FALSE
    BY DEF Blank
  <2> QED
    BY <1>2, <2>1, <2>2, <2>3
<1>10. m1.on => m.on
  BY <1>2 DEF MemType
<1>11. TimerOK(n, status[n], m1, timer'[n], stale'[n], late)
  <2>1. CASE SleepSignals(n)
    <3>1. \/ timer[n] = "waiting" /\ timer'[n] = "signalled" /\ stale'[n] = stale[n]
          \/ "due" \in stale[n] /\ timer'[n] = timer[n]
      BY <1>6, <2>1 DEF SleepSignals
    <3>2. m1 = m
      <4>1. mem' = mem
        BY <2>1 DEF SleepSignals
      <4>2. mem'[n] = m1
        BY <1>2, <1>8
      <4> QED
        BY <4>1, <4>2
    <3> HIDE DEF m1, m
    <3> QED
      BY <1>1, <1>4, <3>1, <3>2 DEF TimerOK, Clocked
  <2>2. CASE SleepClears(n)
    <3>1. \/ timer'[n] = "off"
          \/ "aborted" \in stale[n] /\ timer'[n] = timer[n]
      BY <1>6, <2>2 DEF SleepClears
    <3> HIDE DEF m1, m
    <3> QED
      BY <1>1, <1>4, <3>1 DEF TimerOK, Clocked
  <2> QED
    BY <2>1, <2>2 DEF SleepStep
<1>12. TimerInv(n)'
  <2>1. mem'[n] = m1 /\ status'[n] = status[n] /\ (n \in over' <=> late)
    BY <1>1, <1>2, <1>3, <1>8
  <2> HIDE DEF m1
  <2> QED
    BY <1>1, <1>11, <2>1, TimerInvIs
<1>13. Timers'
  BY <1>1, <1>2, <1>7, <1>8, SameTree DEF Timers, Timed
<1>14. ret # "EXCEPTION" => NodeOK(n, status[n], m1, Locked(n), LiveIdx(n), DoneIdx(n),
                                   Inside(n) /\ ret \in Completed)
  <2> HAVE ret # "EXCEPTION"
  <2>1. NodeOK(n, status[n], m, Locked(n), LiveIdx(n), DoneIdx(n), Inside(n) /\ ret \in Completed)
    BY <1>2 DEF IInv, TreeInv, NodeInv
  <2> HIDE DEF m1, m
  <2>2. /\ Kind(n) \notin Ordered /\ Kind(n) \notin Reactives /\ Kind(n) \notin Parallels
        /\ Kind(n) \notin {"IfThenElse", "WhileDoElse"} /\ Kind(n) # "Switch"
        /\ Kind(n) \notin Decorators /\ Kind(n) \notin Plain /\ Kind(n) \notin Loops
        /\ Kind(n) \notin {"Precondition", "Updated", "RunOnce", "Loop"} /\ Kind(n) \notin Clocked
    BY <1>1 DEF Decorators, Ordered, Sequences_, Fallbacks, Reactives, Parallels,
                Plain, Loops, Clocked
  <2>3. CurIdx(n, m1) = CurIdx(n, m)
    BY <1>1 DEF CurIdx, Controls, Ordered, Sequences_, Fallbacks, Reactives, Parallels, Branches
  <2>4. SleepOK(status[n], m) => SleepOK(status[n], m1)
    BY <1>9, <1>10 DEF SleepOK
  <2> QED
    BY <1>1, <2>1, <2>2, <2>3, <2>4, Zenon DEF NodeOK
<1> HIDE DEF m1
<1> QED
  BY <1>1, <1>5, <1>7, <1>8, <1>9, <1>12, <1>13, <1>14, HandlerKeeps

\* A handler of a Delay or of a Timeout that halts nothing: hit may change, but for a
\* Timeout.
LEMMA ClockHandlerKeeps ==
  ASSUME IInv, NEW n \in DOMAIN timer, Kind(n) \in Clocked, ~Locked(n), NEW m \in MemType(n),
         tree' = tree, status' = status, value' = value, stack' = stack, ret' = ret,
         wake' \in BOOLEAN, mem' = [mem EXCEPT ![n] = m], over' = over,
         m.on <=> mem[n].on, Kind(n) = "Timeout" => m = mem[n],
         timer' \in [DOMAIN timer -> {"off", "added", "waiting", "signalled"}],
         stale' \in [DOMAIN timer -> SUBSET {"aborted", "due"}],
         \A x \in DOMAIN timer : x # n => timer'[x] = timer[x] /\ stale'[x] = stale[x],
         timer'[n] = "off" \/ (stale[n] # {} /\ timer'[n] = timer[n])
  PROVE  IInv'
<1> DEFINE m0 == mem[n]
<1>1. /\ TypeOK /\ Timers /\ n \in Nodes /\ n \in DOMAIN mem /\ Mem(n) = m0
      /\ m0 \in MemType(n)
  BY TypeTimers, MemFacts DEF IInv, Timers, TypeOK
<1>2. mem' = [x \in DOMAIN mem |-> IF x = n THEN m ELSE mem[x]]
  <2>1. mem = [x \in DOMAIN mem |-> mem[x]]
    BY <1>1 DEF TypeOK
  <2> QED
    BY <2>1
<1>3. DOMAIN timer' = DOMAIN timer /\ Timers'
  BY <1>1, <1>2, SameTree DEF Timers, Timed
<1>4. TimerInv(n)'
  <2>1. PICK late \in BOOLEAN : n \in over <=> late
    BY Zenon
  <2>2. TimerOK(n, status[n], m0, timer[n], stale[n], late)
    BY <2>1, TimerInvIs DEF IInv
  <2>3. Kind(n) # "Sleep"
    BY DEF Clocked
  <2>4. TimerOK(n, status[n], m, timer'[n], stale'[n], late)
    BY <2>2, <2>3 DEF TimerOK
  <2>5. mem'[n] = m /\ status'[n] = status[n] /\ (n \in over' <=> late)
    BY <1>1, <1>2, <2>1
  <2> QED
    BY <2>4, <2>5, TimerInvIs
<1>5. ret # "EXCEPTION" => NodeOK(n, status[n], m, Locked(n), LiveIdx(n), DoneIdx(n),
                                   Inside(n) /\ ret \in Completed)
  <2> HAVE ret # "EXCEPTION"
  <2>1. NodeOK(n, status[n], m0, Locked(n), LiveIdx(n), DoneIdx(n), Inside(n) /\ ret \in Completed)
    BY <1>1 DEF IInv, TreeInv, NodeInv
  <2> HIDE DEF m0
  <2>2. /\ Kind(n) \notin Ordered /\ Kind(n) \notin Reactives /\ Kind(n) \notin Parallels
        /\ Kind(n) \notin {"IfThenElse", "WhileDoElse"} /\ Kind(n) # "Switch"
        /\ Kind(n) \notin Plain /\ Kind(n) \notin Loops
        /\ Kind(n) \notin {"Precondition", "Updated", "RunOnce", "Loop", "Sleep"}
    BY DEF Ordered, Sequences_, Fallbacks, Reactives, Parallels, Plain, Loops, Clocked
  <2>3. ClockOK(n, status[n], m0, Locked(n), LiveIdx(n))
             => ClockOK(n, status[n], m, Locked(n), LiveIdx(n))
    <3>1. (m.on <=> m0.on) /\ (Kind(n) = "Timeout" => m = m0)
      BY DEF m0
    <3> QED
      BY <3>1, Zenon DEF ClockOK
  <2> QED
    BY <2>1, <2>2, <2>3, Zenon DEF NodeOK
<1> QED
  BY <1>2, <1>3, <1>4, <1>5, HandlerKeeps

\* The steps of the handlers of a Delay.
LEMMA DelayHandlerKeeps ==
  ASSUME IInv, NEW n \in DOMAIN timer, DelayExpires(n) \/ DelayAborted(n)
  PROVE  IInv'
<1>1. /\ Kind(n) \in Clocked /\ Kind(n) # "Timeout" /\ ~Locked(n) /\ tree' = tree
      /\ status' = status /\ value' = value /\ stack' = stack /\ ret' = ret /\ over' = over
  BY DEF DelayExpires, DelayAborted, Clocked
<1>2. TypeOK /\ Timers /\ n \in DOMAIN mem /\ mem[n] \in MemType(n)
  BY TypeTimers DEF IInv, Timers, TypeOK
<1>3. wake' \in BOOLEAN
  BY <1>2, EmitFacts DEF DelayExpires, DelayAborted, TypeOK
<1>4. PICK hit \in BOOLEAN : mem' = [mem EXCEPT ![n].hit = hit]
  BY DEF DelayExpires, DelayAborted
<1> DEFINE m == [mem[n] EXCEPT !.hit = hit]
<1>5. m \in MemType(n) /\ (m.on <=> mem[n].on)
  BY <1>2 DEF MemType
<1>6. mem' = [mem EXCEPT ![n] = m]
  BY <1>4
<1> HIDE DEF m
<1>7. /\ timer' \in [DOMAIN timer -> {"off", "added", "waiting", "signalled"}]
      /\ stale' \in [DOMAIN timer -> SUBSET {"aborted", "due"}]
      /\ \A x \in DOMAIN timer : x # n => timer'[x] = timer[x] /\ stale'[x] = stale[x]
      /\ timer'[n] = "off" \/ (stale[n] # {} /\ timer'[n] = timer[n])
  <2>1. CASE DelayExpires(n)
    <3>1. PICK q \in Expiries(n) : timer' = q[1] /\ stale' = q[2]
      BY <2>1 DEF DelayExpires
    <3> QED
      BY <1>2, <3>1, ExpiryFacts
  <2>2. CASE DelayAborted(n)
    <3>1. /\ timer \in [DOMAIN timer -> {"off", "added", "waiting", "signalled"}]
          /\ stale \in [DOMAIN timer -> SUBSET {"aborted", "due"}]
      BY <1>2 DEF Timers
    <3>2. /\ timer' = timer /\ "aborted" \in stale[n]
          /\ stale' = [stale EXCEPT ![n] = @ \ {"aborted"}]
      BY <2>2 DEF DelayAborted
    <3> QED
      BY <3>1, <3>2
  <2> QED
    BY <2>1, <2>2
<1> QED
  BY <1>1, <1>3, <1>5, <1>6, <1>7, ClockHandlerKeeps

\* Nothing below a node that is not locked is inside executeTick().
LEMMA NoneInside ==
  ASSUME TypeOK, TreeInv, NEW n \in Nodes, ~Locked(n)
  PROVE  \A x \in Below(n) : x # n => x \notin ToSet(stack) /\ ~Locked(x) /\ ~Inside(x)
<1> TAKE x \in Below(n)
<1> HAVE x # n
<1>1. tree \in DOMAIN Forest /\ x \in Nodes
  BY TreeFacts DEF TypeOK
<1>2. x \notin ToSet(stack)
  <2>1. CASE stack = <<>>
    BY <2>1 DEF ToSet
  <2>2. CASE stack # <<>>
    <3> DEFINE t == Last(stack)
    <3>1. Inside(t)
      BY <2>2 DEF Inside
    <3> HIDE DEF t
    <3>2. /\ t \in Nodes
          /\ \A y \in Nodes : y \in ToSet(stack) <=> t \in Below(y)
          /\ \A y \in Nodes : Locked(y) <=> t \in Below(y) /\ (y = t => ret # None)
      BY <3>1, OnPath
    <3>3. t \notin Below(x)
      BY <1>1, <3>2, BelowFacts
    <3> QED
      BY <1>1, <3>2, <3>3
  <2> QED
    BY <2>1, <2>2
<1>3. ~Locked(x)
  BY <1>2 DEF Locked
<1>4. ~Inside(x)
  <2> SUFFICES ASSUME Inside(x) PROVE FALSE
    OBVIOUS
  <2>1. x \in ToSet(stack)
    BY <1>1, OnPath, TreeFacts
  <2> QED
    BY <1>2, <2>1
<1> QED
  BY <1>2, <1>3, <1>4

\* The child of a Timeout that is not locked is halted: what holds of the tree.
LEMMA TimeoutTree ==
  ASSUME TypeOK, TreeInv, tree' = tree, stack' = stack, ret' = ret, NEW n \in Nodes,
         Kind(n) = "Timeout", ~Locked(n), n \in DOMAIN mem, mem[n] \in MemType(n),
         Leaves(n, status[n], [mem[n] EXCEPT !.hit = TRUE], {Child(n, 1)})
  PROVE  TreeInv'
<1> DEFINE s == status[n]
           m == [mem[n] EXCEPT !.hit = TRUE]
           H == {Child(n, 1)}
<1>1. /\ tree \in DOMAIN Forest /\ stack \in Seq(Nodes) /\ s \in Statuses /\ Path /\ Returned
  BY DEF TypeOK, TreeInv
<1>2. /\ DOMAIN Children(n) = {1} /\ H \subseteq ChildSet(n) /\ Children(n) # <<>>
      /\ Index(n, H) = {1}
  <2>1. Kind(n) \in Decorators
    BY DEF Decorators, Clocked
  <2>2. N(n) = 1 /\ DOMAIN Children(n) = 1 .. N(n)
    BY <1>1, <2>1, ArityFacts
  <2>3. DOMAIN Children(n) = {1}
    BY <2>2
  <2>4. Children(n) # <<>>
    BY <2>3
  <2> QED
    <3>1. 1 \in DOMAIN Children(n)
      BY <2>3
    <3>2. Child(n, 1) \in ChildSet(n)
      BY <1>1, <3>1, TreeFacts
    <3>3. Index(n, {Child(n, 1)}) = {1}
      BY <1>1, <3>1, IndexFacts
    <3> QED
      BY <2>3, <2>4, <3>2, <3>3
<1>3. m \in MemType(n) /\ (m.on <=> mem[n].on)
  BY DEF MemType
<1>4. Mem(n) = mem[n]
  BY DEF Mem
<1> HIDE DEF m
<1>5. \A x \in Below(n) : x # n => x \notin ToSet(stack) /\ ~Locked(x) /\ ~Inside(x)
  BY NoneInside
<1>6. Leaves(n, s, m, H) /\ s \in Statuses \cup {"SKIPPED"} /\ s # "SKIPPED"
  BY <1>1 DEF m, Statuses, Completed
<1> HIDE DEF H
<1>7. /\ H \subseteq Nodes /\ Halted(H) \subseteq Below(n) /\ n \notin Halted(H)
      /\ Mem(n)' = m /\ status'[n] = s
      /\ \A x \in Nodes : x # n /\ x \notin Halted(H) =>
              /\ Mem(x)' = Mem(x)
              /\ status'[x] = "RUNNING" <=> status[x] = "RUNNING"
              /\ x \notin Below(n) => status'[x] = status[x]
      /\ \A x \in Halted(H) :
              x # n => /\ status'[x] = "IDLE"
                       /\ Mem(x)' = IF Kind(x) \in {"SequenceWithMemory", "RunOnce",
                                                    "Precondition", "Loop"}
                                    THEN Mem(x) ELSE Blank
  <2>1. n \notin ChildSet(n)
    BY <1>1, BelowFacts, TreeFacts
  <2> HIDE DEF s
  <2> QED
    BY <1>2, <1>3, <1>6, <2>1, LeavesFrame
<1>8. /\ \A x \in Nodes : Live(x)' => Live(x)
      /\ LiveIdx(n)' \subseteq LiveIdx(n) \ Index(n, H)
      /\ DoneIdx(n)' \subseteq DoneIdx(n) \ Index(n, H)
      /\ \A x \in Halted(H) : LiveIdx(x)' = {} /\ DoneIdx(x)' = {}
      /\ \A x \in Nodes : x # n =>
              LiveIdx(x)' \subseteq LiveIdx(x) /\ DoneIdx(x)' \subseteq DoneIdx(x)
  <2>1. \A x \in Below(n) : x # n => ~Locked(x)
    BY <1>5
  <2>2. n \in DOMAIN mem => m \in MemType(n)
    BY <1>3
  <2>3. /\ \A x \in Nodes :
              Live(x)' => Live(x) \/ (n \in Below(x) /\ Children(n) = <<>> /\ s = "RUNNING")
        /\ LiveIdx(n)' \subseteq LiveIdx(n) \ Index(n, H)
        /\ DoneIdx(n)' \subseteq DoneIdx(n) \ Index(n, H)
        /\ \A x \in Halted(H) : LiveIdx(x)' = {} /\ DoneIdx(x)' = {}
        /\ \A x \in Nodes : x # n =>
              /\ LiveIdx(x)' \subseteq
                   LiveIdx(x) \cup {i \in DOMAIN Children(x) :
                                      n \in Below(Child(x, i)) /\ Children(n) = <<>> /\ s = "RUNNING"}
              /\ DoneIdx(x)' \subseteq
                   DoneIdx(x) \cup {i \in DOMAIN Children(x) :
                                      n = Child(x, i) /\ s \in Completed /\ status[n] \notin Completed}
    BY <1>2, <1>6, <2>1, <2>2, LeavesLive
  <2> QED
    BY <1>2, <2>3
<1>9. \A x \in Nodes : x \in ToSet(stack) => Cur(x)' = Cur(x)
  <2> TAKE x \in Nodes
  <2> HAVE x \in ToSet(stack)
  <2>1. CurIdx(x, Mem(x))' = CurIdx(x, Mem(x))
    <3>1. CASE x = n
      BY <3>1, SameTree DEF CurIdx, Controls, Ordered, Sequences_, Fallbacks, Reactives,
                            Parallels, Branches
    <3>2. CASE x # n
      <4>1. Mem(x)' = Mem(x)
        BY <1>5, <1>7, <3>2
      <4> QED
        BY <4>1, SameTree DEF CurIdx
    <3> QED
      BY <3>1, <3>2
  <2> QED
    BY <2>1, SameTree DEF Cur
<1>10. /\ Path' /\ \A x \in Nodes : (Locked(x)' <=> Locked(x)) /\ (Inside(x)' <=> Inside(x))
  <2>1. \A i \in 1 .. Len(stack) - 1 : Cur(stack[i])' = Cur(stack[i])
    <3> TAKE i \in 1 .. Len(stack) - 1
    <3>1. stack[i] \in Nodes /\ stack[i] \in ToSet(stack)
      BY <1>1 DEF ToSet
    <3> QED
      BY <1>9, <3>1
  <2> QED
    BY <1>1, <2>1, SameStack
<1>11. Returned'
  <2> SUFFICES ASSUME ret # None PROVE Returned'
    BY DEF Returned, Completed, Returning, None
  <2> DEFINE r == IF stack = <<>> THEN Root ELSE Cur(Last(stack))
  <2>1. r \in Nodes /\ (r \in Below(n) => r = n)
    <3>1. CASE stack = <<>>
      BY <1>1, <3>1, TreeFacts, BelowFacts
    <3>2. CASE stack # <<>>
      <4> DEFINE t == Last(stack)
      <4>1. Inside(t)
        BY <3>2 DEF Inside
      <4> HIDE DEF t
      <4>2. /\ t \in Nodes
            /\ \A y \in Nodes : y \in ToSet(stack) <=> t \in Below(y)
            /\ \A y \in Nodes : Locked(y) <=> t \in Below(y) /\ (y = t => ret # None)
            /\ Locked(t) => CurIdx(t, Mem(t)) \in DOMAIN Children(t)
        BY <4>1, OnPath
      <4>3. Locked(t) /\ t \in ToSet(stack)
        BY <1>1, <4>2, TreeFacts
      <4>4. Cur(t) \in ChildSet(t) /\ Cur(t) \in Nodes
        BY <1>1, <4>2, <4>3, TreeFacts DEF Cur
      <4>5. t \notin Below(n)
        BY <1>5, <4>2, <4>3
      <4>6. Cur(t) \in Below(n) => Cur(t) = n
        BY <1>1, <4>2, <4>4, <4>5, BelowFacts
      <4>7. r = Cur(t)
        BY <3>2 DEF t
      <4> QED
        BY <4>4, <4>6, <4>7
    <3> QED
      BY <3>1, <3>2
  <2>2. r' = r
    <3>1. CASE stack = <<>>
      BY <3>1, SameTree
    <3>2. CASE stack # <<>>
      <4>1. Last(stack) \in Nodes /\ Last(stack) \in ToSet(stack)
        BY <1>1, <3>2 DEF Last, ToSet
      <4> QED
        BY <1>9, <3>2, <4>1
    <3> QED
      BY <3>1, <3>2
  <2>3. /\ ret \in Completed => status[r] = ret
        /\ ret \in Returning => ~Live(r)
    BY <1>1 DEF Returned
  <2>4. Returned' <=> /\ ret' \in Completed' => status'[r'] = ret'
                      /\ ret' \in Returning' => ~Live(r)'
    BY DEF Returned
  <2> HIDE DEF r
  <2>5. status'[r] = status[r]
    BY <1>7, <2>1
  <2>6. ret \in Returning => ~Live(r)'
    BY <1>8, <2>1, <2>2, <2>3
  <2> QED
    BY <2>2, <2>3, <2>4, <2>5, <2>6 DEF Completed, Returning
<1>12. \A x \in Nodes : NodeInv(x)'
  <2> TAKE x \in Nodes
  <2>1. PICK locked \in BOOLEAN : Locked(x) <=> locked
    BY Zenon
  <2>2. PICK back \in BOOLEAN : Inside(x) /\ ret \in Completed <=> back
    BY Zenon
  <2>3. NodeOK(x, status[x], Mem(x), locked, LiveIdx(x), DoneIdx(x), back)
    BY <2>1, <2>2, NodeInvIs DEF TreeInv
  <2>4. NodeOK(x, status'[x], Mem(x)', locked, LiveIdx(x)', DoneIdx(x)', back)
    <3>1. CASE x = n
      <4>1. ~locked /\ ~back
        BY <2>1, <2>2, <3>1, MemFacts
      <4>2. LiveIdx(n)' = {} /\ DoneIdx(n)' = {}
        <5>1. LiveIdx(n) \subseteq {1} /\ DoneIdx(n) \subseteq {1}
          BY <1>2 DEF LiveIdx, DoneIdx
        <5> QED
          BY <1>2, <1>8, <5>1
      <4>3. NodeOK(n, s, m, FALSE, {}, {}, FALSE)
        <5>1. /\ Kind(n) \notin Ordered /\ Kind(n) \notin Reactives /\ Kind(n) \notin Parallels
              /\ Kind(n) \notin Plain /\ Kind(n) \notin Loops /\ Kind(n) \in Clocked
          BY DEF Ordered, Sequences_, Fallbacks, Reactives, Parallels, Plain, Loops, Clocked
        <5>2. NodeOK(n, s, mem[n], FALSE, LiveIdx(n), DoneIdx(n), FALSE)
          BY <1>4, <2>3, <3>1, <4>1
        <5>3. ClockOK(n, s, mem[n], FALSE, LiveIdx(n))
          BY <5>1, <5>2 DEF NodeOK
        <5>4. ClockOK(n, s, m, FALSE, {})
          BY <1>3, <5>3 DEF ClockOK
        <5> QED
          BY <5>1, <5>4 DEF NodeOK
      <4> QED
        BY <1>7, <3>1, <4>1, <4>2, <4>3
    <3>2. CASE x # n /\ x \in Halted(H)
      <4>1. status[x] = "RUNNING"
        <5>1. H \in SUBSET Nodes
          BY <1>7
        <5> QED
          BY <3>2, <5>1, HaltedFacts
      <4>2. ~locked /\ ~back
        BY <1>5, <1>7, <2>1, <2>2, <3>2
      <4>3. NodeOK(x, "RUNNING", Mem(x), FALSE, LiveIdx(x), DoneIdx(x), FALSE)
        BY <2>3, <4>1, <4>2
      <4>4. NodeOK(x, "IDLE",
                   IF Kind(x) \in {"SequenceWithMemory", "RunOnce", "Precondition", "Loop"}
                   THEN Mem(x) ELSE Blank, FALSE, {}, {}, FALSE)
        BY <1>1, <4>3, NodeOKHalted
      <4> QED
        BY <1>7, <1>8, <3>2, <4>2, <4>4
    <3>3. CASE x # n /\ x \notin Halted(H)
      <4>1. /\ Mem(x)' = Mem(x) /\ (status[x] = "RUNNING" <=> status'[x] = "RUNNING")
            /\ LiveIdx(x)' \subseteq LiveIdx(x) /\ DoneIdx(x)' \subseteq DoneIdx(x)
        BY <1>7, <1>8, <3>3
      <4>2. NodeOK(x, status'[x], Mem(x), locked, LiveIdx(x)', DoneIdx(x)', back)
        BY <2>3, <4>1, NodeOKMono
      <4> QED
        BY <4>1, <4>2
    <3> QED
      BY <3>1, <3>2, <3>3
  <2>5. (Locked(x)' <=> locked) /\ (Inside(x)' /\ ret' \in Completed <=> back)
    BY <1>10, <2>1, <2>2
  <2> QED
    BY <2>4, <2>5, NodeInvIs
<1> QED
  BY <1>10, <1>11, <1>12, SameTree DEF TreeInv

\* The steps of the handlers of a Timeout.
LEMMA TimeoutHandlerKeeps ==
  ASSUME IInv, NEW n \in DOMAIN timer, TimeoutExpires(n)
  PROVE  IInv'
<1> DEFINE s     == status[n]
           child == Child(n, 1)
           H     == {child}
           m     == [mem[n] EXCEPT !.hit = TRUE]
<1>1. /\ Kind(n) = "Timeout" /\ ~Locked(n) /\ tree' = tree /\ value' = value /\ stack' = stack
      /\ ret' = ret
  BY DEF TimeoutExpires
<1>2. /\ TypeOK /\ Timers /\ n \in Nodes /\ n \in DOMAIN mem /\ mem[n] \in MemType(n)
      /\ tree \in DOMAIN Forest /\ s \in Statuses /\ \A x \in DOMAIN timer : TimerInv(x)
  BY TypeTimers DEF IInv, Timers, TypeOK
<1>3. PICK q \in Expiries(n) :
        IF status[child] = "RUNNING"
        THEN /\ Leaves(n, s, m, H)
             /\ CancelsIn(Halted(H) \cap DOMAIN timer, q[1], q[2])
             /\ EmitWakeUpSignal
        ELSE timer' = q[1] /\ stale' = q[2] /\ UNCHANGED <<status, mem, over, wake>>
  BY DEF TimeoutExpires, Child
<1>4. /\ q[1] \in [DOMAIN timer -> {"off", "added", "waiting", "signalled"}]
      /\ q[2] \in [DOMAIN timer -> SUBSET {"aborted", "due"}]
      /\ \A x \in DOMAIN timer : x # n => q[1][x] = timer[x] /\ q[2][x] = stale[x]
      /\ q[1][n] = "off" \/ (stale[n] # {} /\ q[1][n] = timer[n])
  BY <1>2, ExpiryFacts
<1>5. CASE status[child] # "RUNNING"
  <2>1. mem' = [mem EXCEPT ![n] = mem[n]]
    <3>1. mem = [x \in DOMAIN mem |-> mem[x]]
      BY <1>2 DEF TypeOK
    <3>2. mem' = mem
      BY <1>3, <1>5
    <3>3. [mem EXCEPT ![n] = mem[n]] = [x \in DOMAIN mem |-> mem[x]]
      BY <1>2
    <3> QED
      BY <3>1, <3>2, <3>3
  <2>2. Kind(n) \in Clocked
    BY <1>1 DEF Clocked
  <2>3. wake' \in BOOLEAN /\ timer' = q[1] /\ stale' = q[2] /\ status' = status /\ over' = over
    BY <1>2, <1>3, <1>5 DEF TypeOK
  <2> QED
    BY <1>1, <1>2, <1>4, <2>1, <2>2, <2>3, ClockHandlerKeeps
<1>6. CASE status[child] = "RUNNING"
  <2>1. /\ Leaves(n, s, m, H) /\ CancelsIn(Halted(H) \cap DOMAIN timer, q[1], q[2])
        /\ EmitWakeUpSignal
    BY <1>3, <1>6
  <2>2. m \in MemType(n) /\ (m.on <=> mem[n].on)
    BY <1>2 DEF MemType
  <2>3. H \subseteq ChildSet(n) /\ n \notin ChildSet(n) /\ s \in Statuses \cup {"SKIPPED"}
    <3>1. Kind(n) \in Decorators
      BY <1>1 DEF Decorators, Clocked
    <3>2. N(n) = 1 /\ DOMAIN Children(n) = 1 .. N(n)
      BY <1>2, <3>1, ArityFacts
    <3>3. 1 \in DOMAIN Children(n)
      BY <3>2
    <3> QED
      BY <1>2, <3>3, TreeFacts, BelowFacts
  <2>4. ret # "EXCEPTION" => TreeInv'
    BY <1>1, <1>2, <2>1, TimeoutTree DEF IInv
  <2> HIDE DEF m, H, s
  <2>5. /\ n \notin Halted(H) /\ status' \in [Nodes -> Statuses]
        /\ DOMAIN mem' = DOMAIN mem /\ \A x \in DOMAIN mem : mem'[x] \in MemType(x)
        /\ Mem(n)' = m /\ status'[n] = s
    <3>1. s # "SKIPPED"
      BY <1>2 DEF Statuses, Completed
    <3> QED
      BY <1>1, <1>2, <2>1, <2>2, <2>3, <3>1, LeavesFrame
  <2>6. /\ Timers' /\ DOMAIN timer' = DOMAIN timer /\ over' = over
        /\ \A x \in DOMAIN timer : IF x \in Halted(H) THEN timer'[x] = "off"
                                   ELSE timer'[x] = q[1][x] /\ stale'[x] = q[2][x]
    <3> DEFINE C == Halted(H) \cap DOMAIN timer
    <3>1. CancelsIn(C, q[1], q[2]) /\ C \in SUBSET DOMAIN timer
      BY <2>1
    <3> HIDE DEF C
    <3>2. /\ Timers' /\ DOMAIN timer' = DOMAIN timer /\ over' = over
          /\ \A x \in C : timer'[x] = "off"
          /\ \A x \in DOMAIN timer \ C : timer'[x] = q[1][x] /\ stale'[x] = q[2][x]
      BY <1>1, <1>2, <1>4, <2>5, <3>1, CancelsFrame
    <3> QED
      BY <3>2 DEF C
  <2>7. \A x \in DOMAIN timer : x # n => TimerInv(x)'
    <3>1. \A x \in DOMAIN timer : x # n =>
            IF x \in Halted(H) THEN timer'[x] = "off"
            ELSE timer'[x] = timer[x] /\ stale'[x] = stale[x] /\ (x \in over <=> x \in over')
      BY <1>4, <2>6
    <3>2. n \in DOMAIN mem => m \in MemType(n)
      BY <2>2
    <3> QED
      BY <1>1, <1>2, <2>1, <2>3, <3>1, <3>2, TimerOthers
  <2>8. TimerInv(n)'
    <3>1. PICK late \in BOOLEAN : n \in over <=> late
      BY Zenon
    <3>2. TimerOK(n, s, mem[n], timer[n], stale[n], late)
      BY <1>1, <1>2, <3>1, TimerInvIs DEF s
    <3>3. timer'[n] = "off" \/ (stale[n] # {} /\ timer'[n] = timer[n])
      BY <1>4, <2>5, <2>6
    <3>4. TimerOK(n, s, m, timer'[n], stale'[n], late)
      BY <1>1, <3>2, <3>3 DEF TimerOK
    <3>5. mem'[n] = m /\ (n \in over' <=> late)
      BY <1>2, <2>5, <2>6, <3>1 DEF Mem
    <3> QED
      BY <1>1, <2>5, <3>4, <3>5, TimerInvIs
  <2>9. TypeOK'
    <3>1. {x \in Nodes : Kind(x) \in WithMem}' = {x \in Nodes : Kind(x) \in WithMem}
      BY <1>1, SameTree DEF WithMem, Timed, Sequences_, Fallbacks, Reactives, Parallels, Branches
    <3>2. mem' = [x \in {x \in Nodes : Kind(x) \in WithMem}' |-> mem'[x]]
      <4>1. mem' = [x \in DOMAIN mem |-> mem'[x]]
        BY <2>1 DEF Leaves
      <4>2. DOMAIN mem = {x \in Nodes : Kind(x) \in WithMem}
        BY <1>2 DEF TypeOK
      <4> QED
        BY <3>1, <4>1, <4>2
    <3>3. \A x : MemType(x)' = MemType(x)
      BY <1>1, SameTree
    <3>4. Nodes' = Nodes /\ Statuses' = Statuses /\ Results' = Results /\ None' = None
      BY <1>1, SameTree DEF Statuses, Results, None, Completed
    <3>5. /\ DOMAIN timer' = {x \in Nodes : Kind(x) \in Timed}'
          /\ timer' \in [DOMAIN timer' -> {"off", "added", "waiting", "signalled"}]
          /\ stale' \in [DOMAIN timer' -> SUBSET {"aborted", "due"}]
          /\ over' \subseteq DOMAIN timer'
      BY <2>6 DEF Timers
    <3>6. /\ tree' \in DOMAIN Forest /\ value' \in Values \cup {None} /\ stack' \in Seq(Nodes)
          /\ ret' \in Results \cup {None, "EXCEPTION"} /\ wake' \in BOOLEAN
      BY <1>1, <1>2, <2>1, EmitFacts DEF TypeOK
    <3> QED
      BY <2>5, <3>2, <3>3, <3>4, <3>5, <3>6 DEF TypeOK
  <2>10. ret' = "EXCEPTION" => stack' = <<>>
    BY <1>1 DEF IInv
  <2>11. \A x \in DOMAIN timer' : TimerInv(x)'
    BY <2>6, <2>7, <2>8
  <2> QED
    BY <1>1, <2>4, <2>9, <2>10, <2>11 DEF IInv
<1> QED
  BY <1>5, <1>6

-----------------------------------------------------------------------------
(* The theorems                                                            *)

\* All is idle at first.
LEMMA InitOK ==
  Init => IInv
<1> SUFFICES ASSUME Init PROVE IInv
  OBVIOUS
<1>1. /\ tree \in DOMAIN Forest /\ status = [n \in Nodes |-> "IDLE"]
      /\ mem = [n \in {n \in Nodes : Kind(n) \in WithMem} |-> Blank]
      /\ timer = [n \in {n \in Nodes : Kind(n) \in Timed} |-> "off"]
      /\ stale = [n \in DOMAIN timer |-> {}] /\ over = {} /\ value = None
      /\ stack = <<>> /\ ret = None /\ wake = FALSE
  BY DEF Init
<1>2. TypeOK
  <2>1. \A n \in DOMAIN mem : mem[n] \in MemType(n)
    BY <1>1, BlankFacts
  <2>2. mem = [n \in {n \in Nodes : Kind(n) \in WithMem} |-> mem[n]]
    BY <1>1
  <2>3. status \in [Nodes -> Statuses] /\ stack \in Seq(Nodes)
    BY <1>1 DEF Statuses
  <2>4. /\ DOMAIN timer = {n \in Nodes : Kind(n) \in Timed}
        /\ timer \in [DOMAIN timer -> {"off", "added", "waiting", "signalled"}]
        /\ stale \in [DOMAIN timer -> SUBSET {"aborted", "due"}]
    BY <1>1
  <2> QED
    BY <1>1, <2>1, <2>2, <2>3, <2>4 DEF TypeOK
<1>3. \A n \in Nodes : Mem(n) = Blank /\ LiveIdx(n) = {} /\ DoneIdx(n) = {}
  <2>1. \A n \in Nodes : ~Live(n)
    BY <1>1, TreeFacts DEF Live
  <2>2. \A n \in Nodes : \A i \in DOMAIN Children(n) : Child(n, i) \in Nodes
    BY <1>1, TreeFacts
  <2> QED
    BY <1>1, <2>1, <2>2 DEF Mem, LiveIdx, DoneIdx, Completed
<1>4. \A n \in Nodes : NodeOK(n, "IDLE", Blank, FALSE, {}, {}, FALSE)
  <2> TAKE n \in Nodes
  <2> DEFINE m == Blank
  <2>1. /\ m \in MemType(n) /\ m.idx = 1 /\ m.skips = 0 /\ m.count = 0 /\ m.done = {}
        /\ ~m.on /\ ~m.hit /\ ~m.fresh
    BY BlankFacts
  <2>2. m = [Blank EXCEPT !.idx = m.idx] /\ m = [Blank EXCEPT !.count = m.count]
        /\ m = [Blank EXCEPT !.on = m.on]
    BY <2>1, BlankBut
  <2>3. N(n) \in Nat /\ (Kind(n) \in Controls => N(n) >= 1)
    BY <1>1, ArityFacts
  <2>4. Kind(n) \in Parallels => m.done # 1 .. N(n)
    <3> HAVE Kind(n) \in Parallels
    <3>1. 1 \in 1 .. N(n)
      BY <2>3 DEF Controls
    <3> QED
      BY <2>1, <3>1
  <2>5. 0 \in 0 .. N(n)
    BY <2>3
  <2>6. m = Blank
    OBVIOUS
  <2> HIDE DEF m
  <2>7. /\ OrderedOK(n, "IDLE", m, FALSE, {}, {}) /\ ReactiveOK(n, "IDLE", m, FALSE, {}, {})
        /\ Kind(n) \in Parallels => ParallelOK(n, "IDLE", m, FALSE, {}, {})
        /\ BranchOK(n, "IDLE", m, FALSE, {}, {}) /\ SwitchOK(n, "IDLE", m, FALSE, {}, {}, FALSE)
    BY <2>1, <2>2, <2>4, <2>5, <2>6
       DEF OrderedOK, ReactiveOK, ParallelOK, BranchOK, SwitchOK
  <2>8. /\ LoopOK(n, "IDLE", m, FALSE, {}) /\ UpdatedOK("IDLE", m, FALSE, {})
        /\ RunOnceOK("IDLE", m, FALSE, {}) /\ ClockOK(n, "IDLE", m, FALSE, {})
        /\ SleepOK("IDLE", m)
    BY <2>1, <2>2, <2>6 DEF LoopOK, UpdatedOK, RunOnceOK, ClockOK, SleepOK
  <2>9. NodeOK(n, "IDLE", m, FALSE, {}, {}, FALSE)
    BY <2>7, <2>8 DEF NodeOK
  <2> QED
    BY <2>6, <2>9
<1>5. TreeInv
  <2>1. Path /\ Returned
    BY <1>1 DEF Path, Returned, Completed, Returning, None
  <2>2. \A n \in Nodes : ~Locked(n) /\ ~(Inside(n) /\ ret \in Completed)
    BY <1>1 DEF Locked, ToSet, Inside
  <2>3. \A n \in Nodes : NodeInv(n)
    <3> TAKE n \in Nodes
    <3>1. NodeOK(n, status[n], Mem(n), FALSE, LiveIdx(n), DoneIdx(n), FALSE)
      BY <1>1, <1>3, <1>4
    <3> QED
      BY <2>2, <3>1, NodeInvIs
  <2> QED
    BY <2>1, <2>3 DEF TreeInv
<1>6. \A n \in DOMAIN timer : TimerInv(n)
  BY <1>1 DEF TimerInv, TimerOK
<1> QED
  BY <1>1, <1>2, <1>5, <1>6 DEF IInv, None

\* Nothing changes.
LEMMA StutterKeeps ==
  ASSUME IInv, UNCHANGED vars
  PROVE  IInv'
<1>1. /\ tree' = tree /\ status' = status /\ mem' = mem /\ timer' = timer /\ stale' = stale
      /\ over' = over /\ value' = value /\ stack' = stack /\ ret' = ret /\ wake' = wake
  BY DEF vars, timerVars
<1>2. TypeOK'
  <2>1. {x \in Nodes : Kind(x) \in WithMem}' = {x \in Nodes : Kind(x) \in WithMem}
        /\ {x \in Nodes : Kind(x) \in Timed}' = {x \in Nodes : Kind(x) \in Timed}
    BY <1>1, SameTree DEF WithMem, Timed, Sequences_, Fallbacks, Reactives, Parallels, Branches
  <2>2. \A x : MemType(x)' = MemType(x)
    BY <1>1, SameTree
  <2>3. Nodes' = Nodes /\ Statuses' = Statuses /\ Results' = Results /\ None' = None
    BY <1>1, SameTree DEF Statuses, Results, None, Completed
  <2> QED
    BY <1>1, <2>1, <2>2, <2>3 DEF IInv, TypeOK
<1>3. ASSUME ret # "EXCEPTION" PROVE TreeInv'
  <2>1. TypeOK /\ TreeInv
    BY <1>3 DEF IInv
  <2>2. \A x : Cur(x)' = Cur(x)
    BY <1>1, SameTree DEF Cur, CurIdx, Mem
  <2>3. /\ Path' /\ \A x \in Nodes : (Locked(x)' <=> Locked(x)) /\ (Inside(x)' <=> Inside(x))
    <3>1. \A i \in 1 .. Len(stack) - 1 : Cur(stack[i])' = Cur(stack[i])
      BY <1>1, <2>2
    <3> QED
      BY <1>1, <2>1, <3>1, SameStack DEF TreeInv
  <2>4. \A x : (Live(x)' <=> Live(x)) /\ LiveIdx(x)' = LiveIdx(x) /\ DoneIdx(x)' = DoneIdx(x)
               /\ Mem(x)' = Mem(x)
    <3>1. \A x : Live(x)' <=> Live(x)
      BY <1>1, SameTree DEF Live
    <3> QED
      BY <1>1, <3>1, SameTree DEF LiveIdx, DoneIdx, Completed, Mem
  <2>5. Returned'
    <3>1. (IF stack = <<>> THEN Root ELSE Cur(Last(stack)))'
            = IF stack = <<>> THEN Root ELSE Cur(Last(stack))
      BY <1>1, <2>2, SameTree
    <3> QED
      BY <1>1, <2>1, <2>4, <3>1 DEF TreeInv, Returned, Completed, Returning
  <2>6. \A x \in Nodes : NodeInv(x)'
    <3> TAKE x \in Nodes
    <3>1. PICK locked \in BOOLEAN : Locked(x) <=> locked
      BY Zenon
    <3>2. PICK back \in BOOLEAN : Inside(x) /\ ret \in Completed <=> back
      BY Zenon
    <3>3. (Locked(x)' <=> locked) /\ (Inside(x)' /\ ret' \in Completed <=> back)
      BY <1>1, <2>3, <3>1, <3>2
    <3>4. NodeOK(x, status[x], Mem(x), locked, LiveIdx(x), DoneIdx(x), back)
      BY <2>1, <3>1, <3>2, NodeInvIs DEF TreeInv
    <3> QED
      BY <1>1, <2>4, <3>3, <3>4, NodeInvIs
  <2> QED
    BY <1>1, <2>3, <2>5, <2>6, SameTree DEF TreeInv
<1>4. \A x \in DOMAIN timer' : TimerInv(x)'
  BY <1>1, SameNodeOK DEF IInv, TimerInv
<1> QED
  BY <1>1, <1>2, <1>3, <1>4 DEF IInv

\* A step of the engine keeps the invariant.
LEMMA NextKeeps ==
  ASSUME IInv, [Next]_vars
  PROVE  IInv'
<1>1. CASE TickStep
  <2>1. CASE TickRoot \/ TickAgain
    BY <2>1, RootTicked
  <2>2. CASE TickEnds
    BY <2>2, TickEndsKeeps
  <2>3. CASE stack # <<>> /\ NodeStep(Last(stack))
    <3>1. Inside(Last(stack))
      BY <2>3 DEF Inside
    <3> QED
      BY <2>3, <3>1, NodeStepKeeps
  <2> QED
    BY <1>1, <2>1, <2>2, <2>3 DEF TickStep
<1>2. CASE TimerStep
  <2>1. PICK n \in DOMAIN timer : SleepStep(n) \/ ClockStep(n)
    BY <1>2 DEF TimerStep
  <2> QED
    BY <2>1, SleepHandlerKeeps, DelayHandlerKeeps, TimeoutHandlerKeeps DEF ClockStep
<1>3. CASE UNCHANGED vars
  BY <1>3, StutterKeeps
<1> QED
  BY <1>1, <1>2, <1>3 DEF Next

\* The invariant is inductive, for every forest.
THEOREM Inductive ==
  Spec => []IInv
<1>1. IInv /\ [Next]_vars => IInv'
  BY NextKeeps
<1> QED
  BY <1>1, InitOK, PTL DEF Spec

\* Every variable of the engine has its type, whatever the forest: the members of each
\* node, the timers and the stack of the nodes inside executeTick().
THEOREM TypeCorrect ==
  Spec => []TypeOK
<1>1. IInv => TypeOK
  BY DEF IInv
<1> QED
  BY <1>1, Inductive, PTL

\* A Sleep, a Delay or a Timeout is not over before its timer is, unless a handler of an
\* earlier timer was still to run when it started.
THEOREM EarlyNeedsOldHandlerAlways ==
  Spec => []EarlyNeedsOldHandler
<1>1. IInv => EarlyNeedsOldHandler
  <2> SUFFICES ASSUME IInv, NEW n \in DOMAIN timer, timer[n] \in {"added", "waiting"},
                      status[n] = "RUNNING", n \notin over
               PROVE  IF Kind(n) = "Sleep" THEN mem[n].on ELSE ~mem[n].hit
    BY DEF EarlyNeedsOldHandler
  <2>1. Kind(n) \in {"Sleep", "Delay", "Timeout"}
    BY TypeTimers DEF IInv, Timers, Timed
  <2>2. TimerOK(n, status[n], mem[n], timer[n], stale[n], FALSE)
    <3>1. TimerInv(n) /\ (n \in over) = FALSE
      BY DEF IInv
    <3> QED
      BY <3>1 DEF TimerInv
  <2> QED
    BY <2>1, <2>2 DEF TimerOK, Clocked
<1> QED
  BY <1>1, Inductive, PTL

\* A node that is ticked while idle starts afresh.
THEOREM FreshStartAlways ==
  Spec => []FreshStart
<1>1. IInv => FreshStart
  <2> SUFFICES ASSUME IInv, NEW n \in Nodes, Inside(n), ret = None, status[n] = "IDLE"
               PROVE
                 /\ \A c \in ChildSet(n) :
                      IF status[c] = "RUNNING" THEN \A l \in Running(c) : Children(l) # <<>>
                      ELSE status[c] = "IDLE" \/ Kind(n) \in {"SequenceWithMemory", "IfThenElse"}
                 /\ n \in DOMAIN mem =>
                      CASE Kind(n) \in {"SequenceWithMemory", "RunOnce", "Precondition", "Loop"} -> TRUE
                        [] Kind(n) \in Ordered \ {"SequenceWithMemory"} -> mem[n].idx = 1
                        [] Kind(n) \in Clocked -> ~mem[n].on
                        [] OTHER -> mem[n] = Blank
                 /\ n \in DOMAIN timer /\ n \notin over => timer[n] = "off"
    BY DEF FreshStart
  <2> DEFINE L == LiveIdx(n)
             C == DoneIdx(n)
             m == Mem(n)
  <2>1. /\ TypeOK /\ TreeInv /\ tree \in DOMAIN Forest
        /\ (n \in DOMAIN mem <=> Kind(n) \in WithMem)
        /\ m \in MemType(n) /\ (n \in DOMAIN mem => m = mem[n])
        /\ NodeOK(n, "IDLE", m, FALSE, L, C, FALSE)
    BY Here
  <2>2. L = {}
    BY <2>1 DEF NodeOK
  <2>3. ASSUME NEW c \in ChildSet(n)
        PROVE  IF status[c] = "RUNNING" THEN \A l \in Running(c) : Children(l) # <<>>
               ELSE status[c] = "IDLE" \/ Kind(n) \in {"SequenceWithMemory", "IfThenElse"}
    <3>1. PICK i \in DOMAIN Children(n) : c = Child(n, i)
      BY DEF ChildSet, ToSet, Child
    <3>2. c \in Nodes /\ status[c] \in Statuses
      BY <2>1, <3>1, TreeFacts DEF TypeOK
    <3>3. ~Live(c)
      BY <2>2, <3>1 DEF LiveIdx
    <3>4. \A l \in Running(c) : Children(l) # <<>>
      <4> SUFFICES ASSUME NEW l \in Running(c), Children(l) = <<>> PROVE FALSE
        OBVIOUS
      <4>1. l \in Below(c) /\ \A y \in Below(c) : l \in Below(y) => status[y] = "RUNNING"
        BY DEF Running
      <4>2. l \in Below(l)
        BY <2>1, <3>2, <4>1, TreeFacts
      <4> QED
        BY <3>3, <4>1, <4>2 DEF Live
    <3>5. status[c] \in Completed => Kind(n) \in {"SequenceWithMemory", "IfThenElse"}
      <4> HAVE status[c] \in Completed
      <4>1. C # {}
        BY <3>1 DEF DoneIdx
      <4>2. Children(n) # <<>>
        BY <3>1
      <4>3. Kind(n) \in Controls \cup Decorators
        BY <2>1, <4>2, ArityFacts
      <4> HIDE DEF L, C, m
      <4>4. Kind(n) \notin Decorators
        BY <2>1, <4>1 DEF NodeOK
      <4>5. /\ Kind(n) \in Ordered => Kind(n) = "SequenceWithMemory"
            /\ Kind(n) \notin Reactives /\ Kind(n) \notin Parallels
            /\ Kind(n) # "WhileDoElse" /\ Kind(n) # "Switch"
        BY <2>1, <4>1 DEF NodeOK, OrderedOK, ReactiveOK, ParallelOK, BranchOK, SwitchOK
      <4> QED
        BY <4>3, <4>4, <4>5 DEF Controls, Branches
    <3> QED
      BY <3>2, <3>4, <3>5 DEF Statuses
  <2>4. ASSUME n \in DOMAIN mem
        PROVE  CASE Kind(n) \in {"SequenceWithMemory", "RunOnce", "Precondition", "Loop"} -> TRUE
                 [] Kind(n) \in Ordered \ {"SequenceWithMemory"} -> m.idx = 1
                 [] Kind(n) \in Clocked -> ~m.on
                 [] OTHER -> m = Blank
    <3> HIDE DEF L, C, m
    <3>1. Kind(n) \in Ordered \ {"SequenceWithMemory"} => m.idx = 1
      BY <2>1 DEF NodeOK, OrderedOK
    <3>2. Kind(n) \in Clocked => ~m.on
      BY <2>1 DEF NodeOK, ClockOK
    <3>3. Kind(n) \in Reactives \cup Parallels \cup Loops \cup {"Switch"} => m = Blank
      BY <2>1 DEF NodeOK, ReactiveOK, ParallelOK, LoopOK, SwitchOK
    <3>4. Kind(n) \in {"IfThenElse", "WhileDoElse"} => m = Blank
      <4> HAVE Kind(n) \in {"IfThenElse", "WhileDoElse"}
      <4>1. m = [Blank EXCEPT !.idx = m.idx] /\ m.idx = 1
        BY <2>1 DEF NodeOK, BranchOK
      <4> QED
        BY <2>1, <4>1, BlankBut
    <3>5. Kind(n) \in {"Sleep", "Updated"} => m = Blank
      <4> HAVE Kind(n) \in {"Sleep", "Updated"}
      <4>1. m = [Blank EXCEPT !.on = m.on] /\ ~m.on
        BY <2>1 DEF NodeOK, SleepOK, UpdatedOK
      <4> QED
        BY <2>1, <4>1, BlankBut
    <3>6. Kind(n) \in WithMem
      BY <2>1, <2>4
    <3>7. \/ Kind(n) \in {"SequenceWithMemory", "RunOnce", "Precondition", "Loop"}
          \/ Kind(n) \in Ordered \ {"SequenceWithMemory"} \/ Kind(n) \in Clocked \/ m = Blank
      BY <3>3, <3>4, <3>5, <3>6 DEF WithMem, Branches, Timed, Ordered, Clocked, Loops
    <3> QED
      <4>1. /\ Kind(n) \in Clocked => Kind(n) \notin Ordered
            /\ Kind(n) \notin {"SequenceWithMemory", "RunOnce", "Precondition", "Loop"}
               \/ Kind(n) \notin Ordered \ {"SequenceWithMemory"}
        BY DEF Clocked, Ordered, Sequences_, Fallbacks
      <4> QED
        BY <3>1, <3>2, <3>7, <4>1
  <2>5. n \in DOMAIN timer /\ n \notin over => timer[n] = "off"
    <3> HAVE n \in DOMAIN timer /\ n \notin over
    <3>1. TimerInv(n) /\ (n \in over) = FALSE
      BY DEF IInv
    <3> QED
      BY <3>1 DEF TimerInv, TimerOK
  <2> QED
    BY <2>1, <2>3, <2>4, <2>5
<1> QED
  BY <1>1, Inductive, PTL

\* Two nodes of which none is below the other are below two children of one node.
LEMMA ForkFacts ==
  ASSUME tree \in DOMAIN Forest, NEW x \in Nodes, NEW y \in Nodes,
         x \notin Below(y), y \notin Below(x)
  PROVE  \E n \in Nodes : \E i, j \in DOMAIN Children(n) :
           i # j /\ x \in Below(Child(n, i)) /\ y \in Below(Child(n, j))
<1> DEFINE T == Forest[tree]
           kids(n) == IF n \in DOMAIN T.children THEN T.children[n] ELSE <<>>
<1>1. IsTree(T)
  BY ForestAssumption
<1>2. Nodes = DOMAIN T.kind /\ \A n : Below(n) = T.below[n] /\ Children(n) = kids(n)
  BY DEF Nodes, Below, Port, Children, Has
<1>3. \E n \in DOMAIN T.kind : \E i, j \in DOMAIN kids(n) :
        i # j /\ x \in T.below[kids(n)[i]] /\ y \in T.below[kids(n)[j]]
  <2>1. \A a, b \in DOMAIN T.kind :
           \/ a \in T.below[b] \/ b \in T.below[a]
           \/ \E n \in DOMAIN T.kind : \E i, j \in DOMAIN kids(n) :
                i # j /\ a \in T.below[kids(n)[i]] /\ b \in T.below[kids(n)[j]]
    BY <1>1, Zenon DEF IsTree
  <2>2. x \in DOMAIN T.kind /\ y \in DOMAIN T.kind /\ x \notin T.below[y] /\ y \notin T.below[x]
    BY <1>2
  <2> HIDE DEF T, kids
  <2> QED
    BY <2>1, <2>2
<1> QED
  BY <1>2, <1>3 DEF Child

\* Between two ticks no leaf runs that a halt of the root would not reach, and at most
\* one leaf runs in a forest without a Parallel and without a WhileDoElse.
THEOREM NoOrphanAlways ==
  Spec => []NoOrphan
<1>1. IInv => NoOrphan
  <2> DEFINE leaves == {n \in Nodes : Children(n) = <<>> /\ status[n] = "RUNNING"}
  <2> SUFFICES ASSUME IInv, stack = <<>>, ret # "EXCEPTION"
               PROVE  /\ leaves \subseteq Running(Root)
                      /\ \/ Cardinality(leaves) <= 1
                         \/ \E n \in Nodes : Kind(n) \in Parallels \cup {"WhileDoElse"}
    BY DEF NoOrphan
  <2>1. TypeOK /\ TreeInv /\ tree \in DOMAIN Forest
    BY DEF IInv, TypeOK
  <2>2. \A n \in Nodes : ~Locked(n) /\ ~(Inside(n) /\ ret \in Completed)
    BY DEF Locked, ToSet, Inside
  <2>3. \A l \in leaves : \A y \in Nodes : l \in Below(y) => Live(y)
    BY DEF Live
  <2>4. leaves \subseteq Running(Root)
    <3> SUFFICES ASSUME NEW l \in leaves PROVE l \in Running(Root)
      OBVIOUS
    <3>1. \A y \in Nodes : l \in Below(y) => status[y] = "RUNNING"
      BY <2>1, <2>2, <2>3, Chain
    <3>2. Root \in Nodes /\ l \in Below(Root) /\ Below(Root) \subseteq Nodes
      BY <2>1, TreeFacts
    <3> QED
      BY <3>1, <3>2 DEF Running
  <2>5. ASSUME \A n \in Nodes : Kind(n) \notin Parallels \cup {"WhileDoElse"}
        PROVE  \A x, y \in leaves : x = y
    <3> SUFFICES ASSUME NEW x \in leaves, NEW y \in leaves, x # y PROVE FALSE
      OBVIOUS
    <3>1. \A z \in leaves : \A w \in Below(z) : w = z
      <4> SUFFICES ASSUME NEW z \in leaves, NEW w \in Below(z), w # z PROVE FALSE
        OBVIOUS
      <4>1. \E i \in DOMAIN Children(z) : w \in Below(Child(z, i))
        BY <2>1, BelowFacts
      <4>2. DOMAIN Children(z) = {}
        OBVIOUS
      <4> QED
        BY <4>1, <4>2
    <3>2. PICK n \in Nodes : \E i, j \in DOMAIN Children(n) :
            i # j /\ x \in Below(Child(n, i)) /\ y \in Below(Child(n, j))
      BY <2>1, <3>1, ForkFacts
    <3>3. PICK i, j \in DOMAIN Children(n) :
            i # j /\ x \in Below(Child(n, i)) /\ y \in Below(Child(n, j))
      BY <3>2
    <3>4. i \in LiveIdx(n) /\ j \in LiveIdx(n)
      BY <2>1, <2>3, <3>3, TreeFacts DEF LiveIdx
    <3> DEFINE L == LiveIdx(n)
               C == DoneIdx(n)
    <3>5. NodeOK(n, status[n], Mem(n), FALSE, L, C, FALSE)
      BY <2>1, <2>2, NodeInvIs DEF TreeInv
    <3>6. \A a, b \in L : a = b
      <4>1. Kind(n) \in Controls \cup Decorators
        BY <2>1, <3>3, ArityFacts
      <4>2. Kind(n) \in Decorators => DOMAIN Children(n) = {1}
        <5> HAVE Kind(n) \in Decorators
        <5>1. N(n) = 1 /\ DOMAIN Children(n) = 1 .. N(n)
          BY <2>1, ArityFacts
        <5> QED
          BY <5>1
      <4>3. L \subseteq DOMAIN Children(n)
        BY DEF LiveIdx
      <4>4. Kind(n) \notin Parallels /\ Kind(n) # "WhileDoElse"
        BY <2>5
      <4> HIDE DEF L, C
      <4>5. Kind(n) \in Controls => \A a, b \in L : a = b
        BY <3>5, <4>4 DEF NodeOK, OrderedOK, ReactiveOK, BranchOK, SwitchOK, Controls, Branches
      <4> QED
        BY <4>1, <4>2, <4>3, <4>5
    <3> QED
      BY <3>3, <3>4, <3>6
  <2>6. (\A x, y \in leaves : x = y) => Cardinality(leaves) <= 1
    <3> HIDE DEF leaves
    <3> HAVE \A x, y \in leaves : x = y
    <3>1. CASE leaves = {}
      BY <3>1, FS_EmptySet
    <3>2. CASE leaves # {}
      <4>1. PICK x : leaves = {x}
        <5>1. PICK x \in leaves : TRUE
          BY <3>2
        <5>2. leaves = {x}
          BY <3>1
        <5> QED
          BY <5>2
      <4>2. Cardinality(leaves) = 1
        BY <4>1, FS_Singleton
      <4> QED
        BY <4>2
    <3> QED
      BY <3>1, <3>2
  <2> QED
    BY <2>4, <2>5, <2>6
<1> QED
  BY <1>1, Inductive, PTL
=============================================================================
