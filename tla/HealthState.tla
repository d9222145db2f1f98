---------------------------- MODULE HealthState ----------------------------
(***************************************************************************)
(* The state machine of one deployment and of one capability scope of      *)
(* internal/health/manager.go, as pure operators.  Every method of         *)
(* health.Manager runs under one mutex and rewrites one map entry, so each *)
(* method M is one operator AfterM from the old entry to the new one.  The *)
(* modules that hold the maps apply them.  An operator introduced as a     *)
(* slip is not the code: it is a plausible mistake in the operator that    *)
(* follows it, which the properties are expected to notice.                *)
(*                                                                         *)
(* Time.  The code stores absolute deadlines and compares them with the    *)
(* clock.  A deadline is modelled by what is left of it: n > 0 while the   *)
(* clock is before the deadline, 0 at the instant of the deadline, -1 once *)
(* the clock is after it, and NoDeadline for the zero time.Time.  One tick *)
(* of the clock ages every deadline; a passed deadline stays passed.       *)
(*                                                                         *)
(* Counters.  ConsecutiveFailures is only ever compared with a threshold,  *)
(* so it is counted up to FailCap, which no threshold exceeds.             *)
(* Latency averages, histograms, messages and the recovery counters (all   *)
(* reporting data that no decision reads) are left out.                    *)
(***************************************************************************)
EXTENDS Integers, FiniteSets

CONSTANT FailCap     \* consecutive failures are counted up to this number

ASSUME FailCapAssumption == FailCap \in Nat \ {0}

(* The Status constants; "none" is the zero Status of a map entry that     *)
(* does not exist or that was created by a bookkeeping write only.         *)
NoStatus == "none"
Unknown == "unknown"
Healthy == "healthy"
Degraded == "degraded"
HalfOpen == "half_open"
Cooldown == "cooldown"
Retired == "retired"

Status == {NoStatus, Unknown, Healthy, Degraded, HalfOpen, Cooldown, Retired}

----------------------------------------------------------------------------
(* Deadlines *)

NoDeadline == -2

(* !deadline.IsZero() && now.Before(deadline) *)
Pending(u) == u > 0

(* !deadline.IsZero() && now.After(deadline) *)
Passed(u) == u = -1

(* What is left of a deadline after one tick of the clock. *)
Ticked(u) == IF u >= 0 THEN u - 1 ELSE u

Bump(n) == IF n < FailCap THEN n + 1 ELSE n

----------------------------------------------------------------------------
(* One deployment: the fields of State that decide anything *)

Entry(status, fails, until) ==
    [status |-> status, fails |-> fails, until |-> until]

NoEntry == Entry(NoStatus, 0, NoDeadline)

(* A hard cooldown whose deadline is still ahead. *)
Cooling(s) == s.status = Cooldown /\ Pending(s.until)

normalizeGlobal(s) ==
    IF s.status = Cooldown /\ Passed(s.until)
    THEN Entry(HalfOpen, 0, NoDeadline)
    ELSE s

(* Slip: a late success re-admits a retired model. *)
RecordSuccessUnretires(s) ==
    IF Cooling(s) THEN s ELSE Entry(Healthy, 0, NoDeadline)

(* Slip: a late success ends a pending cooldown. *)
RecordSuccessEndsCooldown(s) ==
    IF s.status = Retired THEN s ELSE Entry(Healthy, 0, NoDeadline)

AfterRecordSuccess(s) ==
    IF s.status = Retired \/ Cooling(s)
    THEN s
    ELSE Entry(Healthy, 0, NoDeadline)

AfterRecordFailure(s, threshold, cooldown) ==
    LET n == Bump(s.fails) IN
    IF s.status = Retired THEN s
    ELSE IF Cooling(s) THEN Entry(Cooldown, n, s.until)
    ELSE IF s.status = HalfOpen \/ n >= threshold THEN Entry(Cooldown, n, cooldown)
    ELSE Entry(Degraded, n, NoDeadline)

(* Quarantine does not look at a pending cooldown: it replaces it. *)
AfterQuarantine(s) ==
    IF s.status = Retired THEN s ELSE Entry(Degraded, Bump(s.fails), NoDeadline)

AfterRecordProbeFailure(s) ==
    IF s.status = Retired THEN s ELSE Entry(Degraded, Bump(s.fails), NoDeadline)

(* A probe success below the recovery threshold keeps the deadline field. *)
AfterRecordRecoverySuccess(s) ==
    IF s.status \in {Retired, Healthy} THEN s ELSE [s EXCEPT !.status = HalfOpen]

AfterEnterCooldown(s, d) ==
    IF s.status = Retired THEN s ELSE Entry(Cooldown, s.fails, d)

AfterForceCooldown(s, d) ==
    IF s.status = Retired THEN s ELSE Entry(Cooldown, Bump(s.fails), d)

AfterRetire(s) == Entry(Retired, Bump(s.fails), NoDeadline)

(* Only ever lengthens a cooldown, and never touches a retired deployment. *)
AfterApplySharedCooldown(s, until) ==
    IF until > 0 /\ s.status # Retired /\ (s.status = Cooldown => until > s.until)
    THEN Entry(Cooldown, s.fails, until)
    ELSE s

Invalidated == Entry(Unknown, 0, NoDeadline)

Aged(s) == [s EXCEPT !.until = Ticked(@)]

----------------------------------------------------------------------------
(* One capability scope of a deployment *)

normalizeScope(s) ==
    IF s.status = Cooldown /\ Passed(s.until)
    THEN Entry(Unknown, 0, NoDeadline)
    ELSE s

AfterRecordScopeSuccess == Entry(Healthy, 0, NoDeadline)

(* Slip: the scope cools down but its deadline is not set. *)
RecordScopeFailureNoDeadline(s, threshold, cooldown) ==
    LET n == Bump(s.fails) IN
    Entry(IF n >= threshold THEN Cooldown ELSE Degraded, n, s.until)

(* Below the threshold the deadline field is left as it was. *)
AfterRecordScopeFailure(s, threshold, cooldown) ==
    LET n == Bump(s.fails) IN
    IF n >= threshold
    THEN Entry(Cooldown, n, cooldown)
    ELSE Entry(Degraded, n, s.until)

scopeReady(s) == s.status # Cooldown

============================================================================
