----------------------------- MODULE MCVideoJobs -----------------------------
(* VideoJobs for TLC: every request carries the same idempotency key. *)
EXTENDS VideoJobs, TLC

CONSTANTS a, b, j1, j2, r1, r2

MCKey == [j \in Jobs |-> "key"]
JobSymmetry == Permutations(Jobs)
=============================================================================
