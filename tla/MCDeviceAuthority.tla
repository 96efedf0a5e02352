-------------------------- MODULE MCDeviceAuthority --------------------------
(* DeviceAuthority for TLC: two devices of one account. *)
EXTENDS DeviceAuthority, TLC

CONSTANTS d1, d2, w1, w2

(* Devices are interchangeable, and so are workflow ids. *)
Symmetry == Permutations({d1, d2}) \cup Permutations({w1, w2})
=============================================================================
