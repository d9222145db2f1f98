---------------------------- MODULE MCProbeSlots ----------------------------
(* Instances of ProbeSlots for TLC. *)
EXTENDS ProbeSlots

============================================================================
