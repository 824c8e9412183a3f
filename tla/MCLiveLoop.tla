------------------------------ MODULE MCLiveLoop ------------------------------
(* Instances of LiveLoop for TLC. *)
EXTENDS LiveLoop
CONSTANTS o1
=============================================================================
