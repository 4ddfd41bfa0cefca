-------------------------- MODULE MCDeviceCapture ---------------------------
(* The two devices of a medium for TLC: no action tells one from the other. *)
EXTENDS DeviceCapture, TLC

CONSTANTS d1, d2

Symmetry == Permutations({d1, d2})
=============================================================================
