------------------------ MODULE MCUpgradeTransaction ------------------------
(***************************************************************************)
(* Small instances of UpgradeTransaction for TLC: two versions of a        *)
(* template, one whose second file exists only in the newer version, so    *)
(* that going up replaces and adds and going down replaces and deletes.    *)
(***************************************************************************)
EXTENDS UpgradeTransaction, TLC

CONSTANTS v1, v2, one, two, three, mine

OneFile  == (v1 :> <<one>>) @@ (v2 :> <<two>>)
TwoFiles == (v1 :> <<one, Absent>>) @@ (v2 :> <<two, three>>)

=============================================================================
