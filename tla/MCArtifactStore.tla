--------------------------- MODULE MCArtifactStore ---------------------------
(* Small instances of ArtifactStore for TLC. *)
EXTENDS ArtifactStore, TLC

CONSTANTS s1, s2, a, b

Sizes == (a :> 1) @@ (b :> 2)
Symmetry == Permutations(Sessions)

=============================================================================
