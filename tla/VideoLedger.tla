---------------------------- MODULE VideoLedger ----------------------------
(***************************************************************************)
(* The cost ledger of the video gateway (internal/video/cost).  One row    *)
(* per job; the PostgreSQL ledger keeps the rows in a table, the in-memory *)
(* one in a map, with three running totals beside it.  Both answer the     *)
(* same calls with the same rules, which are the After... operators here.  *)
(* Amounts are whole numbers; the estimate of a job and its upper bound do *)
(* not change after admission, so a row keeps only its state and the       *)
(* actual cost.                                                            *)
(***************************************************************************)
EXTENDS Integers, FiniteSets

CONSTANTS
    Jobs,         \* job IDs
    Actuals       \* costs a provider may report

VARIABLE bills    \* byJob / the table: job ID -> row

NoRow == [state |-> "absent", actual |-> 0]
RowStates == {"absent", "reserved", "released", "estimate", "actual"}
Rows == [state : RowStates, actual : Actuals \cup {0}]
Settled(r) == r.state \in {"estimate", "actual"}

(* ReserveForJob: idempotent while reserved, refused once finalized. *)
Reservable(r) == r.state \in {"absent", "reserved"}
AfterReserve(r) == [r EXCEPT !.state = "reserved"]

(* ReleaseForJob: only a reservation is released, anything else stays. *)
AfterRelease(r) == IF r.state = "reserved" THEN [r EXCEPT !.state = "released"] ELSE r

(* SettleEstimate: a row that is settled either way ignores the call;  *)
(* a released or missing one is settled.                               *)
AfterEstimate(r) == IF Settled(r) THEN r ELSE [r EXCEPT !.state = "estimate"]

(* SettleActual: the same amount twice is a no-op, another amount is  *)
(* refused, every other row (an estimate, too) becomes the actual.    *)
Conflicts(r, a) == r.state = "actual" /\ r.actual # a
AfterActual(r, a) == [state |-> "actual", actual |-> a]

LedgerInit == bills = [j \in Jobs |-> NoRow]
Reserve(j) == Reservable(bills[j]) /\ bills' = [bills EXCEPT ![j] = AfterReserve(@)]
Release(j) == bills' = [bills EXCEPT ![j] = AfterRelease(@)]
SettleEstimate(j) == bills' = [bills EXCEPT ![j] = AfterEstimate(@)]
SettleActual(j, a) == ~Conflicts(bills[j], a) /\ bills' = [bills EXCEPT ![j] = AfterActual(@, a)]
============================================================================
