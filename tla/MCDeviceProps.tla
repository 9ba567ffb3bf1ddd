---------------------------- MODULE MCDeviceProps ----------------------------
(* Small instances of DeviceProps for TLC.                                 *)
EXTENDS DeviceProps, TLC

CONSTANTS b1, b2, b3, b4

Symmetry == Permutations(Block)
=============================================================================
