---------------------------- MODULE MCRosActionNode ----------------------------
(***************************************************************************)
(* RosActionNode on small instances.                                       *)
(***************************************************************************)
EXTENDS RosActionNode, TLC

Symmetry == Permutations(Leaves)
=============================================================================
