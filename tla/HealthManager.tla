--------------------------- MODULE HealthManager ---------------------------
(***************************************************************************)
(* health.Manager (internal/health/manager.go) as a shared object: the     *)
(* maps of deployment states and of their capability scopes, and every     *)
(* method that changes them.  Each method takes Manager.mu for all of its  *)
(* reads and writes, so it is one atomic action; any goroutine may call    *)
(* any method at any time, which is what Next says.  GetWithScopes and     *)
(* Snapshot look at the clock before they take the lock: an older clock    *)
(* can only make them normalise less, which is a stuttering step here.     *)
(* RecordTTFT, SetNextRetry and SetErrorClass write reporting fields only. *)
(* The provider incident circuits of the same object are in                *)
(* ProviderCircuit: no method touches both.                                *)
(***************************************************************************)
EXTENDS HealthState

CONSTANTS
    Deployments,    \* deployment IDs
    Scopes,         \* capability scopes ("streaming", "tools", ...)
    Configs,        \* breaker settings a hot reload may install
    Durations       \* explicit cooldowns: Retry-After, recovery, shared

(* What ConfigureAdvanced makes of the settings: every threshold at least  *)
(* one and every cooldown positive.  FailCap is at least every threshold.  *)
ASSUME ConfigsAssumption ==
    /\ Configs # {}
    /\ \A c \in Configs :
         /\ c.threshold \in 1..FailCap /\ c.scopeThreshold \in 1..FailCap
         /\ c.cooldown \in Nat \ {0} /\ c.scopeCooldown \in Nat \ {0}

ASSUME DurationsAssumption == Durations \subseteq Nat \ {0}

VARIABLES
    state,      \* Manager.states: deployment -> entry
    scope,      \* State.Scopes: deployment -> scope -> entry
    conf,       \* threshold, cooldown, scopeThreshold, scopeCooldown
    retired    \* history: deployments retired under their present identity

vars == <<state, scope, conf, retired>>

FreshScopes == [c \in Scopes |-> NoEntry]

Init ==
    /\ state = [d \in Deployments |-> NoEntry]
    /\ scope = [d \in Deployments |-> FreshScopes]
    /\ conf \in Configs
    /\ retired = {}

Become(d, s) == state' = [state EXCEPT ![d] = s]

----------------------------------------------------------------------------
(* Readers: an expired cooldown is turned over by the first one to see it. *)

GetWithScopes(d) ==
    /\ Become(d, normalizeGlobal(state[d]))
    /\ scope' = [scope EXCEPT ![d] = [c \in Scopes |-> normalizeScope(scope[d][c])]]
    /\ UNCHANGED <<conf, retired>>

Snapshot ==
    /\ state' = [d \in Deployments |-> normalizeGlobal(state[d])]
    /\ scope' = [d \in Deployments |-> [c \in Scopes |-> normalizeScope(scope[d][c])]]
    /\ UNCHANGED <<conf, retired>>

(* Results of requests and probes. *)

RecordSuccess(d) ==
    /\ Become(d, AfterRecordSuccess(state[d]))
    /\ UNCHANGED <<scope, conf, retired>>

RecordFailure(d) ==
    /\ Become(d, AfterRecordFailure(state[d], conf.threshold, conf.cooldown))
    /\ UNCHANGED <<scope, conf, retired>>

Quarantine(d) ==
    /\ Become(d, AfterQuarantine(state[d]))
    /\ UNCHANGED <<scope, conf, retired>>

RecordProbeFailure(d) ==
    /\ Become(d, AfterRecordProbeFailure(state[d]))
    /\ UNCHANGED <<scope, conf, retired>>

RecordRecoverySuccess(d) ==
    /\ Become(d, AfterRecordRecoverySuccess(state[d]))
    /\ UNCHANGED <<scope, conf, retired>>

(* Explicit cooldowns.  A duration that is not positive means the          *)
(* configured cooldown.                                                    *)

EnterCooldown(d, t) ==
    /\ Become(d, AfterEnterCooldown(state[d], t))
    /\ UNCHANGED <<scope, conf, retired>>

ForceCooldown(d, t) ==
    /\ Become(d, AfterForceCooldown(state[d], t))
    /\ UNCHANGED <<scope, conf, retired>>

ApplySharedCooldown(d, t) ==
    /\ Become(d, AfterApplySharedCooldown(state[d], t))
    /\ UNCHANGED <<scope, conf, retired>>

Retire(d) ==
    /\ Become(d, AfterRetire(state[d]))
    /\ retired' = retired \cup {d}
    /\ UNCHANGED <<scope, conf>>

(* Capability scopes: one call reports on a non-empty list of scopes. *)

RecordScopeSuccess(d, cs) ==
    /\ scope' = [scope EXCEPT ![d] =
           [c \in Scopes |-> IF c \in cs THEN AfterRecordScopeSuccess ELSE @[c]]]
    /\ UNCHANGED <<state, conf, retired>>

RecordScopeFailure(d, cs) ==
    /\ scope' = [scope EXCEPT ![d] =
           [c \in Scopes |->
               IF c \in cs
               THEN AfterRecordScopeFailure(@[c], conf.scopeThreshold, conf.scopeCooldown)
               ELSE @[c]]]
    /\ UNCHANGED <<state, conf, retired>>

(* Hot reload. *)

Invalidate(d) ==
    /\ Become(d, Invalidated)
    /\ scope' = [scope EXCEPT ![d] = FreshScopes]
    /\ retired' = retired \ {d}
    /\ UNCHANGED conf

Retain(valid) ==
    /\ state' = [d \in Deployments |-> IF d \in valid THEN state[d] ELSE NoEntry]
    /\ scope' = [d \in Deployments |-> IF d \in valid THEN scope[d] ELSE FreshScopes]
    /\ retired' = retired \cap valid
    /\ UNCHANGED conf

ConfigureAdvanced(c) ==
    /\ conf' = c
    /\ UNCHANGED <<state, scope, retired>>

Tick ==
    /\ state' = [d \in Deployments |-> Aged(state[d])]
    /\ scope' = [d \in Deployments |-> [c \in Scopes |-> Aged(scope[d][c])]]
    /\ UNCHANGED <<conf, retired>>

----------------------------------------------------------------------------
CooldownFor == Durations \cup {conf.cooldown}

Next ==
    \/ \E d \in Deployments :
         \/ GetWithScopes(d)
         \/ RecordSuccess(d) \/ RecordFailure(d)
         \/ Quarantine(d) \/ RecordProbeFailure(d) \/ RecordRecoverySuccess(d)
         \/ \E t \in CooldownFor : EnterCooldown(d, t) \/ ForceCooldown(d, t)
         \/ \E t \in Durations : ApplySharedCooldown(d, t)
         \/ Retire(d)
         \/ \E cs \in SUBSET Scopes \ {{}} :
               RecordScopeSuccess(d, cs) \/ RecordScopeFailure(d, cs)
         \/ Invalidate(d)
    \/ Snapshot
    \/ \E valid \in SUBSET Deployments : Retain(valid)
    \/ \E c \in Configs : ConfigureAdvanced(c)
    \/ Tick

Spec == Init /\ [][Next]_vars

----------------------------------------------------------------------------
(* Properties *)

Deadline == Nat \cup {-1, NoDeadline}

EntryType == [status : Status, fails : 0..FailCap, until : Deadline]

(* Every entry has a status, a counted number of failures and a deadline   *)
(* of the modelled kind, and the settings are ones a reload installed.     *)
TypeOK ==
    /\ state \in [Deployments -> EntryType]
    /\ scope \in [Deployments -> [Scopes -> EntryType]]
    /\ conf \in Configs
    /\ retired \subseteq Deployments

(* No cooldown without an end: normalizeGlobal and normalizeScopes skip a  *)
(* zero deadline, so a deployment or scope put into Cooldown without one   *)
(* would be out of rotation until a restart.  No sequence of calls         *)
(* produces one.                                                           *)
CooldownHasDeadline ==
    \A d \in Deployments :
        /\ state[d].status = Cooldown => state[d].until # NoDeadline
        /\ \A c \in Scopes :
              scope[d][c].status = Cooldown => scope[d][c].until # NoDeadline

(* The snapshot "never reports a bogus cooldown_until" (RecordFailure): a  *)
(* deployment that is healthy, degraded, unknown or retired carries no     *)
(* deadline left over from an earlier cooldown, whatever calls interleave. *)
NoBogusDeadline ==
    \A d \in Deployments :
        state[d].until # NoDeadline => state[d].status \in {Cooldown, HalfOpen}

(* Retirement is permanent for the identity it was observed on: late       *)
(* successes, failures, probe results and shared markers never re-admit a  *)
(* retired deployment, only a reload that changes or drops it does.        *)
RetiredUntilIdentityChanges ==
    \A d \in Deployments : d \in retired <=> state[d].status = Retired

(* What does end or shorten a pending cooldown: a quarantine (the form in  *)
(* which the ready strategies report a failed request, a late one          *)
(* included), a recovery probe, a new explicit cooldown, retirement, or a  *)
(* reload.                                                                 *)
Replaces(d) ==
    \/ Quarantine(d) \/ RecordProbeFailure(d) \/ RecordRecoverySuccess(d)
    \/ \E t \in CooldownFor : EnterCooldown(d, t) \/ ForceCooldown(d, t)
    \/ Retire(d) \/ Invalidate(d)
    \/ \E valid \in SUBSET (Deployments \ {d}) : Retain(valid)

(* A pending hard cooldown outlives what RecordSuccess and RecordFailure   *)
(* report of a request that was in flight when it began; a reader, a scope *)
(* result, a marker shared by a peer and a change of the thresholds        *)
(* neither end it nor bring its deadline nearer than the clock does.       *)
(* Quarantine and the results of probes are not meant: they replace it.    *)
RecordedResultsKeepCooldown ==
    [][\A d \in Deployments :
          Cooling(state[d]) /\ ~Replaces(d)
             => state'[d].status = Cooldown /\ state'[d].until >= state[d].until - 1]_vars

============================================================================
