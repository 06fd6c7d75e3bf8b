---------------------------- MODULE MCBehaviorTree ----------------------------
(***************************************************************************)
(* The engine on a forest of small trees.  In each a ReactiveSequence      *)
(* ticks a condition, which may halt the node x at any time, and x:        *)
(*                                                                         *)
(*   root: ReactiveSequence(cond, x(a, b, c))                              *)
(*                                                                         *)
(* x is each control node and each decorator in turn; a is an action that  *)
(* may be skipped, a Sleep, or a Sequence, a Timeout or a Precondition of  *)
(* such leaves; b and c are actions.                                       *)
(***************************************************************************)
EXTENDS NodeResults

Inner == [Sequence |-> <<"d", "e">>, Timeout |-> <<"d">>, Precondition |-> <<"d">>]

\* The number of children of x.
Arity(k) == CASE k \in Decorators                                  -> 1
              [] k \in {"TryCatch", "Parallel", "WhileDoElse"}     -> 3
              [] OTHER                                             -> 2

\* Beside those, a Parallel whose failure_count is above the number of its children, and
\* a Sequence whose Sleep has nothing to wait for.
Special == {<<"Parallel", "TooHigh">>, <<"Sequence", "NoTime">>}

Tree(k, ka) ==
  LET xs   == [i \in 1 .. Arity(k) |-> <<"a", "b", "c">>[i]]
      as   == IF ka \in DOMAIN Inner THEN Inner[ka] ELSE <<>>
      kind == [n \in {"root", "cond", "x"} \cup ToSet(xs) \cup ToSet(as) |->
                 CASE n = "root" -> "ReactiveSequence"
                   [] n = "cond" -> "Condition"
                   [] n = "x"    -> k
                   [] n = "a"    -> CASE ka = "TooHigh" -> "Action"
                                      [] ka = "NoTime"  -> "Sleep"
                                      [] OTHER          -> ka
                   [] n = "e"    -> "Sleep"
                   [] OTHER      -> "Action"]
      under == [a |-> {"a"} \cup ToSet(as), x |-> {"x"} \cup ToSet(xs) \cup ToSet(as),
                root |-> DOMAIN kind]
  IN [root     |-> "root",
      kind     |-> kind,
      children |-> [n \in {"root", "x"} \cup (IF as = <<>> THEN {} ELSE {"a"}) |->
                      CASE n = "root" -> <<"cond", "x">>
                        [] n = "x"    -> xs
                        [] n = "a"    -> as],
      below    |-> [n \in DOMAIN kind |-> IF n \in DOMAIN under THEN under[n] ELSE {n}],
      pre      |-> [n \in {IF as = <<>> THEN "a" ELSE "d"} |-> "while"],
      param    |-> [n \in {"x"} \cup (IF ka = "NoTime" THEN {"a"} ELSE {}) |->
                      CASE n = "a"            -> 0
                        [] k = "Parallel"     -> [success |-> IF ka = "Sleep" THEN 2 ELSE -1,
                                                  failure |-> IF ka = "TooHigh" THEN 4 ELSE 1]
                        [] k = "ParallelAll"  -> [failure |-> 1]
                        [] OTHER              -> 2],
      else     |-> [n \in {"x", "a"} |-> IF k = "Loop" THEN "SUCCESS" ELSE "SKIPPED"],
      cond     |-> <<>>,
      writes   |-> <<>>,
      mayFail  |-> DOMAIN kind]

MCForest ==
  [t \in (Controls \cup Decorators) \X ({"Action", "Sleep"} \cup DOMAIN Inner) \cup Special |->
     Tree(t[1], t[2])]

MCSubject == [t \in DOMAIN MCForest |-> "x"]
=============================================================================
