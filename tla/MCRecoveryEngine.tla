------------------------- MODULE MCRecoveryEngine -------------------------
(* Instances of RecoveryEngine for TLC. *)
EXTENDS RecoveryEngine

MCProgress == [attempt : 1..Attempts, successes : 0..Threshold]
MCFirstTry == [attempt |-> 1, successes |-> 0]

============================================================================
