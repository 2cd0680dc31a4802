----------------------------- MODULE MCDeviceSync -----------------------------
(* Refreshes are alike: TLC may exchange them. *)
EXTENDS DeviceSync, TLC

CONSTANTS r1, r2

MCSymmetry == Permutations(Refresh)
=============================================================================
