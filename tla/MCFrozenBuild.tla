---------------------------- MODULE MCFrozenBuild ----------------------------
(* Instances of FrozenBuild for TLC. *)
EXTENDS FrozenBuild, TLC

CONSTANTS c1, c2, c3

\* The commands are alike.
Symmetry == Permutations(Commands)
=============================================================================
