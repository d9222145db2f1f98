--------------------------- MODULE MCBreakerSync ---------------------------
(* Instances of BreakerSync for TLC. *)
EXTENDS BreakerSync

============================================================================
