----------------------------- MODULE MCInputIndex -----------------------------
(* Instances of InputIndex for TLC. *)
EXTENDS InputIndex, TLC
CONSTANTS f1, f2, d, v1, v2

\* Two files in one directory.
Tree == f1 :> {f1} @@ f2 :> {f2} @@ d :> {f1, f2}

\* What is written is only compared, never chosen by name, and the two files are alike.
Symmetry == Permutations({v1, v2}) \union Permutations({f1, f2})
=============================================================================
