-------------------------- MODULE MCDeviceLifetime --------------------------
(* An instance of DeviceLifetime for TLC: one device with a command list,  *)
(* a pipeline and its replacement, sets for a reload, and two queued jobs. *)
EXTENDS DeviceLifetime

CONSTANTS d1, l1, p1, r1, s1, s2, j1, j2, g1

MCDeviceOf == [x \in Lists \cup Records \cup Objects |-> d1]
=============================================================================
