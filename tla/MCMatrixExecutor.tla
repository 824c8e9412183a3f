---------------------------- MODULE MCMatrixExecutor ----------------------------
(* An instance of MatrixExecutor for TLC: cells 1, 2 and 2, 3 share a resource. *)
EXTENDS MatrixExecutor

CONSTANTS build, device

ThreeCells == <<{build}, {build, device}, {device}>>
=============================================================================
