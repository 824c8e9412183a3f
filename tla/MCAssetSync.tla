----------------------------- MODULE MCAssetSync -----------------------------
(* Instances of AssetSync for TLC. *)
EXTENDS AssetSync, TLC
CONSTANTS a, b
=============================================================================
