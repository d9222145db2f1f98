---------------------------- MODULE MCVideoEpisode ----------------------------
(* VideoEpisode for TLC. *)
EXTENDS VideoEpisode

CONSTANTS a, b, j1, r1

MCKey == [j \in Jobs |-> "key"]
==============================================================================
