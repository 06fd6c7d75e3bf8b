--------------------------- MODULE MCApproachServer ---------------------------
(***************************************************************************)
(* ApproachServer on small instances.                                      *)
(***************************************************************************)
EXTENDS ApproachServer, TLC

Symmetry == Permutations(Callbacks) \cup Permutations(Labels)
=============================================================================
