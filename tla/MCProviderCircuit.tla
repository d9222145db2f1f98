------------------------- MODULE MCProviderCircuit -------------------------
(* Instance of ProviderCircuit for TLC: one provider (circuits do not      *)
(* interact), three deployments, a threshold of two or three, and calls    *)
(* that may act on a clock reading one tick old.                           *)
EXTENDS ProviderCircuit, TLC

MCConfigs ==
    {[threshold |-> 2, window |-> 1, cooldown |-> 2],
     [threshold |-> 3, window |-> 2, cooldown |-> 1]}

Symmetry == Permutations(Reporters)

============================================================================
