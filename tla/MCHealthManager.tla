-------------------------- MODULE MCHealthManager --------------------------
(* Instance of HealthManager for TLC. *)
EXTENDS HealthManager

MCConfigs ==
    {[threshold |-> 2, cooldown |-> 2, scopeThreshold |-> 2, scopeCooldown |-> 1],
     [threshold |-> 1, cooldown |-> 1, scopeThreshold |-> 1, scopeCooldown |-> 2]}

============================================================================
