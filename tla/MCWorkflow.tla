----------------------------- MODULE MCWorkflow -----------------------------
(* Two definitions for TLC.  In the first the roots 1 (a read and branch node) and 2 (an        *)
(* approval) join in the gated provider call 3; in the second the read 1 feeds the provider     *)
(* call 2, which needs no approval.                                                             *)
EXTENDS Workflow

JoinNodes == 1..3
JoinEdges == {<<1, 3, "L">>, <<2, 3, "">>}
JoinOutcomes == [n \in JoinNodes |-> {"ok", "timeout"}]
JoinSelects == [n \in JoinNodes |-> IF n = 1 THEN {"L", "R"} ELSE {""}]
JoinAttempts == [n \in JoinNodes |-> IF n = 1 THEN 2 ELSE 1]

PairNodes == 1..2
PairEdges == {<<1, 2, "">>}
PairOutcomes == [n \in PairNodes |-> IF n = 1 THEN {"ok", "retry"} ELSE {"ok", "fail", "timeout"}]
PairSelects == [n \in PairNodes |-> {""}]
PairAttempts == [n \in PairNodes |-> IF n = 1 THEN 2 ELSE 1]
=============================================================================
