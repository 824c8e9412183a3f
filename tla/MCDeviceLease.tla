----------------------------- MODULE MCDeviceLease -----------------------------
(* Instances of DeviceLease for TLC: sessions s1, s2, ... of one device.      *)
EXTENDS DeviceLease

CONSTANTS s1, s2, s3
=============================================================================
