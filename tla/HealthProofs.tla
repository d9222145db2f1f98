--------------------------- MODULE HealthProofs ---------------------------
(***************************************************************************)
(* Proofs about what health decisions rest on: HealthManager, for any set  *)
(* of deployments and scopes, any settings and any failure cap;            *)
(* ProviderCircuit, for any set of providers, any finite set of reporters  *)
(* and any settings and lags; and ProbeSlots, for any probers, limits and  *)
(* reloads.                                                                *)
(*                                                                         *)
(* The manager's invariants are inductive together: each method rewrites   *)
(* one entry, so the work is in one lemma per kind of entry, and a step    *)
(* then only has to say which entries it rewrites.                         *)
(*                                                                         *)
(* NeverOversold is not inductive: a prober at the lock decides with the   *)
(* limit it has read, so that limit has to be one that was in force        *)
(* (ReadIsKnown).  CountsProbes is inductive given the types.              *)
(***************************************************************************)
EXTENDS HealthManager, ProviderCircuit, ProbeSlots, FiniteSetTheorems, TLAPS

(* Zenon proves the steps that name no prover; those with arithmetic or *)
(* records name SMT.                                                    *)
USE ZenonT(30)

(* A scope entry in good order: well typed, and no endless cooldown. *)
ScopeOK(s) ==
    /\ s \in EntryType
    /\ s.status = Cooldown => s.until # NoDeadline

(* A deployment entry in good order: as a scope, and no left-over deadline. *)
StateOK(s) ==
    /\ ScopeOK(s)
    /\ s.until # NoDeadline => s.status \in {Cooldown, HalfOpen}

(* The inductive invariant, entry by entry. *)
Inv ==
    /\ state = [d \in Deployments |-> state[d]]
    /\ scope = [d \in Deployments |-> [c \in Scopes |-> scope[d][c]]]
    /\ \A d \in Deployments : StateOK(state[d])
    /\ \A d \in Deployments : \A c \in Scopes : ScopeOK(scope[d][c])
    /\ conf \in Configs
    /\ retired \subseteq Deployments
    /\ \A d \in Deployments : d \in retired <=> state[d].status = Retired

----------------------------------------------------------------------------
(* An entry put together from a status, a count and a deadline is well     *)
(* typed when its parts are.                                               *)
LEMMA EntryIsTyped ==
    ASSUME NEW st \in Status, NEW n \in 0..FailCap, NEW u \in Deadline
    PROVE  /\ Entry(st, n, u) \in EntryType
           /\ Entry(st, n, u).status = st
           /\ Entry(st, n, u).until = u
  BY DEF Entry, EntryType

(* Counting a failure stays below the cap. *)
LEMMA BumpIsTyped ==
    ASSUME NEW n \in 0..FailCap
    PROVE  Bump(n) \in 0..FailCap
  BY FailCapAssumption, SMTT(30) DEF Bump

(* The methods that never make a deployment retired and never bring a      *)
(* retired one back: what they make of an entry in good order is in good   *)
(* order and retired exactly when the old one was.                         *)
LEMMA MethodsKeepStateOK ==
    ASSUME NEW s, StateOK(s),
           NEW threshold \in Nat, NEW t \in Nat \ {0}
    PROVE  \A r \in { normalizeGlobal(s), AfterRecordSuccess(s),
                      AfterRecordFailure(s, threshold, t), AfterQuarantine(s),
                      AfterRecordProbeFailure(s), AfterRecordRecoverySuccess(s),
                      AfterEnterCooldown(s, t), AfterForceCooldown(s, t),
                      AfterApplySharedCooldown(s, t), Aged(s) } :
              StateOK(r) /\ (r.status = Retired <=> s.status = Retired)
<1> DEFINE Good(r) == StateOK(r) /\ (r.status = Retired <=> s.status = Retired)
<1>1. /\ s.status \in Status /\ s.fails \in 0..FailCap /\ s.until \in Deadline
      /\ s \in EntryType
      /\ Bump(s.fails) \in 0..FailCap
  BY BumpIsTyped DEF StateOK, ScopeOK, EntryType
<1>2. t \in Deadline /\ NoDeadline \in Deadline /\ t # NoDeadline
  BY SMTT(30) DEF Deadline, NoDeadline
<1> USE DEF NoStatus, Unknown, Healthy, Degraded, HalfOpen, Cooldown, Retired, Status
<1>3. 0 \in 0..FailCap
  BY FailCapAssumption, SMTT(30)
<1>4. Good(normalizeGlobal(s))
  BY <1>1, <1>2, <1>3, EntryIsTyped, SMTT(30) DEF normalizeGlobal, StateOK, ScopeOK
<1>5. Good(AfterRecordSuccess(s))
  BY <1>1, <1>2, <1>3, EntryIsTyped, SMTT(30) DEF AfterRecordSuccess, StateOK, ScopeOK
<1>6. Good(AfterRecordFailure(s, threshold, t))
  <2> DEFINE n == Bump(s.fails)
  <2>1. /\ Good(Entry(Cooldown, n, t)) \/ s.status = Retired
        /\ Good(Entry(Degraded, n, NoDeadline)) \/ s.status = Retired
    BY <1>1, <1>2, EntryIsTyped, SMTT(30) DEF StateOK, ScopeOK
  <2>2. Cooling(s) => Good(Entry(Cooldown, n, s.until))
    BY <1>1, EntryIsTyped, SMTT(30) DEF StateOK, ScopeOK, Cooling
  <2>3. Good(s)
    OBVIOUS
  <2> HIDE DEF Good
  <2> QED  BY <2>1, <2>2, <2>3 DEF AfterRecordFailure
<1>7. Good(AfterQuarantine(s)) /\ Good(AfterRecordProbeFailure(s))
  BY <1>1, <1>2, EntryIsTyped, SMTT(30)
  DEF AfterQuarantine, AfterRecordProbeFailure, StateOK, ScopeOK
<1>8. Good(AfterRecordRecoverySuccess(s))
  BY <1>1 DEF AfterRecordRecoverySuccess, StateOK, ScopeOK, EntryType
<1>9. Good(AfterEnterCooldown(s, t)) /\ Good(AfterForceCooldown(s, t))
  BY <1>1, <1>2, EntryIsTyped, SMTT(30)
  DEF AfterEnterCooldown, AfterForceCooldown, StateOK, ScopeOK
<1>10. Good(AfterApplySharedCooldown(s, t))
  BY <1>1, <1>2, EntryIsTyped, SMTT(30) DEF AfterApplySharedCooldown, StateOK, ScopeOK
<1>11. Good(Aged(s))
  BY <1>1, SMTT(30) DEF Aged, Ticked, StateOK, ScopeOK, EntryType, Deadline, NoDeadline
<1> HIDE DEF Good
<1>12. \A r \in { normalizeGlobal(s), AfterRecordSuccess(s),
                  AfterRecordFailure(s, threshold, t), AfterQuarantine(s),
                  AfterRecordProbeFailure(s), AfterRecordRecoverySuccess(s),
                  AfterEnterCooldown(s, t), AfterForceCooldown(s, t),
                  AfterApplySharedCooldown(s, t), Aged(s) } : Good(r)
  BY <1>4, <1>5, <1>6, <1>7, <1>8, <1>9, <1>10, <1>11
<1> QED  BY <1>12 DEF Good

(* The same for capability scopes, which are never retired. *)
LEMMA MethodsKeepScopeOK ==
    ASSUME NEW s, ScopeOK(s), NEW threshold \in Nat, NEW t \in Nat \ {0}
    PROVE  /\ ScopeOK(normalizeScope(s))
           /\ ScopeOK(AfterRecordScopeSuccess)
           /\ ScopeOK(AfterRecordScopeFailure(s, threshold, t))
           /\ ScopeOK(Aged(s))
<1>1. /\ s.status \in Status /\ s.fails \in 0..FailCap /\ s.until \in Deadline
      /\ s \in EntryType
      /\ Bump(s.fails) \in 0..FailCap
  BY BumpIsTyped DEF ScopeOK, EntryType
<1>2. t \in Deadline /\ NoDeadline \in Deadline /\ t # NoDeadline
  BY SMTT(30) DEF Deadline, NoDeadline
<1>3. 0 \in 0..FailCap
  BY FailCapAssumption, SMTT(30)
<1> USE DEF NoStatus, Unknown, Healthy, Degraded, HalfOpen, Cooldown, Retired, Status
<1>4. ScopeOK(normalizeScope(s)) /\ ScopeOK(AfterRecordScopeSuccess)
  BY <1>1, <1>2, <1>3, EntryIsTyped, SMTT(30) DEF normalizeScope, AfterRecordScopeSuccess, ScopeOK
<1>5. ScopeOK(AfterRecordScopeFailure(s, threshold, t))
  <2> DEFINE n == Bump(s.fails)
  <2>0. n \in 0..FailCap
    BY <1>1
  <2> HIDE DEF n
  <2>1. /\ ScopeOK(Entry(Cooldown, n, t))
        /\ ScopeOK(Entry(Degraded, n, s.until))
    <3>1. ScopeOK(Entry(Cooldown, n, t))
      BY <2>0, <1>2, EntryIsTyped, SMTT(30) DEF ScopeOK
    <3>2. ScopeOK(Entry(Degraded, n, s.until))
      BY <2>0, <1>1, EntryIsTyped, SMTT(30) DEF ScopeOK
    <3> QED  BY <3>1, <3>2
  <2>2. AfterRecordScopeFailure(s, threshold, t)
           \in {Entry(Cooldown, n, t), Entry(Degraded, n, s.until)}
    BY DEF AfterRecordScopeFailure, n
  <2> QED  BY <2>1, <2>2
<1>6. ScopeOK(Aged(s))
  BY <1>1, SMTT(30) DEF Aged, Ticked, ScopeOK, EntryType, Deadline, NoDeadline
<1> QED  BY <1>4, <1>5, <1>6

(* A missing entry, a fresh one and a retired one are in good order. *)
LEMMA FixedEntriesOK ==
    /\ StateOK(NoEntry) /\ NoEntry.status # Retired
    /\ StateOK(Invalidated) /\ Invalidated.status # Retired
    /\ \A s : StateOK(s) => StateOK(AfterRetire(s)) /\ AfterRetire(s).status = Retired
<1>1. 0 \in 0..FailCap /\ NoDeadline \in Deadline
  BY FailCapAssumption, SMTT(30) DEF Deadline, NoDeadline
<1> USE DEF NoStatus, Unknown, Healthy, Degraded, HalfOpen, Cooldown, Retired, Status
<1>2. StateOK(NoEntry) /\ NoEntry.status # Retired
  BY <1>1, EntryIsTyped, SMTT(30) DEF NoEntry, StateOK, ScopeOK
<1>3. StateOK(Invalidated) /\ Invalidated.status # Retired
  BY <1>1, EntryIsTyped, SMTT(30) DEF Invalidated, StateOK, ScopeOK
<1>4. ASSUME NEW s, StateOK(s)
      PROVE  StateOK(AfterRetire(s)) /\ AfterRetire(s).status = Retired
  <2>1. Bump(s.fails) \in 0..FailCap
    BY <1>4, BumpIsTyped DEF StateOK, ScopeOK, EntryType
  <2> QED  BY <1>1, <2>1, EntryIsTyped, SMTT(30) DEF AfterRetire, StateOK, ScopeOK
<1> QED  BY <1>2, <1>3, <1>4

----------------------------------------------------------------------------
(* One map update: replacing the entry of one deployment by another good   *)
(* one with the same retirement keeps the invariant.                       *)
LEMMA BecomeKeepsInv ==
    ASSUME Inv, NEW d \in Deployments, NEW r, StateOK(r),
           r.status = Retired <=> state[d].status = Retired,
           Become(d, r), UNCHANGED <<scope, conf, retired>>
    PROVE  Inv'
  BY DEF Inv, Become

(* Every method keeps the invariant. *)
LEMMA NextKeepsInv ==
    ASSUME Inv, [Next]_vars
    PROVE  Inv'
<1>1. /\ conf.threshold \in Nat /\ conf.scopeThreshold \in Nat
      /\ conf.cooldown \in Nat \ {0} /\ conf.scopeCooldown \in Nat \ {0}
  BY ConfigsAssumption, FailCapAssumption, SMTT(30) DEF Inv
<1>2. ASSUME NEW d \in Deployments
      PROVE  StateOK(state[d])
  BY <1>2 DEF Inv
<1>3. ASSUME NEW d \in Deployments, NEW c \in Scopes
      PROVE  ScopeOK(scope[d][c])
  BY <1>3 DEF Inv
<1>4. CASE UNCHANGED vars
  BY <1>4 DEF Inv, vars
<1>5. ASSUME NEW d \in Deployments, GetWithScopes(d)
      PROVE  Inv'
  <2>1. \A c \in Scopes : ScopeOK(normalizeScope(scope[d][c]))
    BY <1>1, <1>3, MethodsKeepScopeOK
  <2>2. /\ StateOK(normalizeGlobal(state[d]))
        /\ normalizeGlobal(state[d]).status = Retired <=> state[d].status = Retired
    BY <1>1, <1>2, MethodsKeepStateOK
  <2> QED  BY <1>5, <2>1, <2>2 DEF GetWithScopes, Become, Inv
<1>6. ASSUME NEW d \in Deployments,
             \/ RecordSuccess(d) \/ RecordFailure(d) \/ Quarantine(d)
             \/ RecordProbeFailure(d) \/ RecordRecoverySuccess(d)
      PROVE  Inv'
  <2>1. \A r \in { AfterRecordSuccess(state[d]), AfterQuarantine(state[d]),
                    AfterRecordFailure(state[d], conf.threshold, conf.cooldown),
                    AfterRecordProbeFailure(state[d]), AfterRecordRecoverySuccess(state[d]) } :
           StateOK(r) /\ (r.status = Retired <=> state[d].status = Retired)
    BY <1>1, <1>2, MethodsKeepStateOK, SMTT(30)
  <2> QED
    BY <1>6, <2>1, BecomeKeepsInv
    DEF RecordSuccess, RecordFailure, Quarantine, RecordProbeFailure, RecordRecoverySuccess
<1>7. ASSUME NEW d \in Deployments, NEW t \in Nat \ {0},
             EnterCooldown(d, t) \/ ForceCooldown(d, t) \/ ApplySharedCooldown(d, t)
      PROVE  Inv'
  <2>1. \A r \in { AfterEnterCooldown(state[d], t), AfterForceCooldown(state[d], t),
                    AfterApplySharedCooldown(state[d], t) } :
           StateOK(r) /\ (r.status = Retired <=> state[d].status = Retired)
    BY <1>1, <1>2, MethodsKeepStateOK, SMTT(30)
  <2> QED
    BY <1>7, <2>1, BecomeKeepsInv DEF EnterCooldown, ForceCooldown, ApplySharedCooldown
<1>8. ASSUME NEW d \in Deployments, Retire(d)
      PROVE  Inv'
  BY <1>2, <1>8, FixedEntriesOK DEF Retire, Become, Inv
<1>9. ASSUME NEW d \in Deployments, NEW cs \in SUBSET Scopes,
             RecordScopeSuccess(d, cs) \/ RecordScopeFailure(d, cs)
      PROVE  Inv'
  <2>1. \A c \in Scopes :
           /\ ScopeOK(AfterRecordScopeSuccess)
           /\ ScopeOK(AfterRecordScopeFailure(scope[d][c], conf.scopeThreshold, conf.scopeCooldown))
    BY <1>1, <1>3, MethodsKeepScopeOK
  <2>2. PICK f : /\ \A c \in Scopes : ScopeOK(f[c])
                 /\ f = [c \in Scopes |-> f[c]]
                 /\ scope' = [scope EXCEPT ![d] = f]
    <3>1. CASE RecordScopeSuccess(d, cs)
      <4> WITNESS [c \in Scopes |-> IF c \in cs THEN AfterRecordScopeSuccess ELSE scope[d][c]]
      <4> QED  BY <1>3, <2>1, <3>1 DEF RecordScopeSuccess
    <3>2. CASE RecordScopeFailure(d, cs)
      <4> WITNESS [c \in Scopes |->
                     IF c \in cs
                     THEN AfterRecordScopeFailure(scope[d][c], conf.scopeThreshold,
                                                  conf.scopeCooldown)
                     ELSE scope[d][c]]
      <4> QED  BY <1>3, <2>1, <3>2 DEF RecordScopeFailure
    <3> QED  BY <1>9, <3>1, <3>2
  <2>3. UNCHANGED <<state, conf, retired>>
    BY <1>9 DEF RecordScopeSuccess, RecordScopeFailure
  <2> QED  BY <2>2, <2>3 DEF Inv
<1>10. ASSUME NEW d \in Deployments, Invalidate(d)
       PROVE  Inv'
  BY <1>10, FixedEntriesOK, ZenonT(40) DEF Invalidate, Become, FreshScopes, Inv, StateOK
<1>11. CASE Snapshot
  <2>1. \A d \in Deployments, c \in Scopes : ScopeOK(normalizeScope(scope[d][c]))
    BY <1>1, <1>3, MethodsKeepScopeOK
  <2>2. \A d \in Deployments :
           /\ StateOK(normalizeGlobal(state[d]))
           /\ normalizeGlobal(state[d]).status = Retired <=> state[d].status = Retired
    BY <1>1, <1>2, MethodsKeepStateOK
  <2> QED  BY <1>11, <2>1, <2>2 DEF Snapshot, Inv
<1>12. ASSUME NEW valid \in SUBSET Deployments, Retain(valid)
       PROVE  Inv'
  BY <1>12, FixedEntriesOK DEF Retain, FreshScopes, Inv, StateOK
<1>13. ASSUME NEW c \in Configs, ConfigureAdvanced(c)
       PROVE  Inv'
  BY <1>13 DEF ConfigureAdvanced, Inv
<1>14. CASE Tick
  <2>1. \A d \in Deployments, c \in Scopes : ScopeOK(Aged(scope[d][c]))
    BY <1>1, <1>3, MethodsKeepScopeOK
  <2>2. \A d \in Deployments :
           StateOK(Aged(state[d])) /\ (Aged(state[d]).status = Retired <=> state[d].status = Retired)
    BY <1>1, <1>2, MethodsKeepStateOK
  <2> QED  BY <1>14, <2>1, <2>2 DEF Tick, Inv
<1>15. CooldownFor \subseteq Nat \ {0} /\ Durations \subseteq Nat \ {0}
  BY <1>1, DurationsAssumption DEF CooldownFor
<1> QED
  BY <1>4, <1>5, <1>6, <1>7, <1>8, <1>9, <1>10, <1>11, <1>12, <1>13, <1>14, <1>15 DEF Next

LEMMA HealthManagerInv == Spec => []Inv
<1>1. Init => Inv
  BY FixedEntriesOK, SMTT(30) DEF Init, FreshScopes, Inv, StateOK
<1>2. Inv /\ [Next]_vars => Inv'
  BY NextKeepsInv
<1> QED  BY <1>1, <1>2, PTL DEF Spec

(* Of every sequence of calls of health.Manager: the entries are well      *)
(* typed, no deployment or scope cools down without an end, and no         *)
(* deadline is left over from an earlier cooldown.                         *)
THEOREM HealthManagerSafety ==
    Spec => [](TypeOK /\ CooldownHasDeadline /\ NoBogusDeadline)
<1>1. Inv => TypeOK /\ CooldownHasDeadline /\ NoBogusDeadline
  BY SMTT(30) DEF Inv, StateOK, ScopeOK, TypeOK, CooldownHasDeadline, NoBogusDeadline
<1> QED  BY <1>1, HealthManagerInv, PTL

(* A retired deployment stays retired, whatever results, probes, shared    *)
(* cooldowns and clock ticks follow, until a reload changes its identity.  *)
THEOREM RetirementLasts == Spec => []RetiredUntilIdentityChanges
<1>1. Inv => RetiredUntilIdentityChanges
  BY DEF Inv, StateOK, RetiredUntilIdentityChanges
<1> QED  BY <1>1, HealthManagerInv, PTL

----------------------------------------------------------------------------
(* What a method makes of a cooling entry when it is not one of the        *)
(* methods that may replace the cooldown.                                  *)
LEMMA CoolingIsKept ==
    ASSUME NEW s, StateOK(s), Cooling(s),
           NEW threshold \in Nat, NEW t \in Nat \ {0}
    PROVE  \A r \in { s, normalizeGlobal(s), AfterRecordSuccess(s),
                      AfterRecordFailure(s, threshold, t),
                      AfterApplySharedCooldown(s, t), Aged(s) } :
              r.status = Cooldown /\ r.until >= s.until - 1
<1>1. s.status = Cooldown /\ s.until \in Nat \ {0} /\ s \in EntryType
  BY SMTT(30) DEF Cooling, Pending, StateOK, ScopeOK, EntryType, Deadline, NoDeadline
<1> USE DEF Cooldown, Retired
<1>2. normalizeGlobal(s) = s
  BY <1>1, SMTT(30) DEF normalizeGlobal, Passed
<1>3. AfterRecordSuccess(s) = s
  BY DEF AfterRecordSuccess
<1>4. AfterRecordFailure(s, threshold, t) = Entry(Cooldown, Bump(s.fails), s.until)
  BY <1>1 DEF AfterRecordFailure
<1>5. AfterApplySharedCooldown(s, t) \in {s, Entry(Cooldown, s.fails, t)}
      /\ (AfterApplySharedCooldown(s, t) = s \/ t > s.until)
  BY <1>1 DEF AfterApplySharedCooldown
<1>6. Aged(s).status = Cooldown /\ Aged(s).until = s.until - 1
  BY <1>1, SMTT(30) DEF Aged, Ticked, EntryType
<1>7. \A n, u : Entry(Cooldown, n, u).status = Cooldown /\ Entry(Cooldown, n, u).until = u
  BY DEF Entry
<1> QED  BY <1>1, <1>2, <1>3, <1>4, <1>5, <1>6, <1>7, SMTT(30)

(* A pending hard cooldown outlives what RecordSuccess and RecordFailure   *)
(* report of requests already in flight, readers, scope results and peers' *)
(* markers: only a quarantine, a recovery probe, a new explicit cooldown,  *)
(* retirement or a reload ends it or brings its deadline nearer.           *)
THEOREM HealthManagerKeepsCooldown == Spec => RecordedResultsKeepCooldown
<1> DEFINE Kept == \A d \in Deployments :
              Cooling(state[d]) /\ ~Replaces(d)
                 => state'[d].status = Cooldown /\ state'[d].until >= state[d].until - 1
<1>1. ASSUME Inv, [Next]_vars
      PROVE  Kept
  <2> SUFFICES ASSUME NEW d \in Deployments, Cooling(state[d]), ~Replaces(d)
               PROVE  state'[d].status = Cooldown /\ state'[d].until >= state[d].until - 1
    OBVIOUS
  <2>1. StateOK(state[d]) /\ conf.threshold \in Nat /\ conf.cooldown \in Nat \ {0}
    BY <1>1, ConfigsAssumption, FailCapAssumption, SMTT(30) DEF Inv
  <2>2. \A t \in Nat \ {0} :
          \A r \in { state[d], normalizeGlobal(state[d]), AfterRecordSuccess(state[d]),
                      AfterRecordFailure(state[d], conf.threshold, conf.cooldown),
                      AfterApplySharedCooldown(state[d], t), Aged(state[d]) } :
             r.status = Cooldown /\ r.until >= state[d].until - 1
    BY <2>1, CoolingIsKept, SMTT(30)
  <2> DEFINE Survives ==
        \/ state'[d] \in { state[d], normalizeGlobal(state[d]), AfterRecordSuccess(state[d]),
                          AfterRecordFailure(state[d], conf.threshold, conf.cooldown),
                          Aged(state[d]) }
        \/ \E t \in Durations : state'[d] = AfterApplySharedCooldown(state[d], t)
  <2>3. Survives
    <3> USE <1>1 DEF Inv, Become
    <3>1. CASE UNCHANGED vars
      BY <3>1 DEF vars
    <3>2. ASSUME NEW e \in Deployments,
                 \/ GetWithScopes(e) \/ RecordSuccess(e) \/ RecordFailure(e)
                 \/ \E t \in Durations : ApplySharedCooldown(e, t)
          PROVE  Survives
      BY <3>2, SMTT(30) DEF GetWithScopes, RecordSuccess, RecordFailure, ApplySharedCooldown
    <3>3. ASSUME NEW e \in Deployments,
                 \/ Quarantine(e) \/ RecordProbeFailure(e) \/ RecordRecoverySuccess(e)
                 \/ \E t \in CooldownFor : EnterCooldown(e, t) \/ ForceCooldown(e, t)
                 \/ Retire(e) \/ Invalidate(e)
          PROVE  Survives
      <4>1. e # d
        BY <3>3 DEF Replaces
      <4> QED
        BY <3>3, <4>1
        DEF Quarantine, RecordProbeFailure, RecordRecoverySuccess, EnterCooldown,
            ForceCooldown, Retire, Invalidate
    <3>4. ASSUME NEW e \in Deployments, NEW cs \in SUBSET Scopes,
                 RecordScopeSuccess(e, cs) \/ RecordScopeFailure(e, cs)
          PROVE  Survives
      BY <3>4 DEF RecordScopeSuccess, RecordScopeFailure
    <3>5. CASE Snapshot
      BY <3>5 DEF Snapshot
    <3>6. ASSUME NEW valid \in SUBSET Deployments, Retain(valid)
          PROVE  Survives
      <4>1. d \in valid
        BY <3>6 DEF Replaces
      <4> QED  BY <3>6, <4>1 DEF Retain
    <3>7. ASSUME NEW c \in Configs, ConfigureAdvanced(c)
          PROVE  Survives
      BY <3>7 DEF ConfigureAdvanced
    <3>8. CASE Tick
      BY <3>8 DEF Tick
    <3> HIDE DEF Survives, Inv, Become
    <3> QED  BY <1>1, <3>1, <3>2, <3>3, <3>4, <3>5, <3>6, <3>7, <3>8 DEF Next
  <2> QED  BY <2>1, <2>2, <2>3, DurationsAssumption
<1>2. Init => Inv
  BY FixedEntriesOK, SMTT(30) DEF Init, FreshScopes, Inv, StateOK
<1>3. Inv /\ [Next]_vars => Inv'
  BY NextKeepsInv
<1>4. Inv /\ [Next]_vars => [Kept]_vars
  BY <1>1
<1> QED  BY <1>2, <1>3, <1>4, PTL DEF Spec, RecordedResultsKeepCooldown

----------------------------------------------------------------------------
(* The provider circuits *)

(* A circuit, and the age of what each reporter sent. *)
Circuits ==
    [status : {NoStatus, Healthy, Degraded, HalfOpen, Cooldown}, fails : Nat, until : Deadline]

Reports == [Reporters -> -1..AgeCap]

(* What a circuit reports of its evidence. *)
Agrees(c, ev) ==
    /\ c.status \in {Degraded, Cooldown} => c.fails = Cardinality(Witnesses(ev))
    /\ c.status \in {NoStatus, Healthy} => Witnesses(ev) = {}

(* Every piece of evidence is a failure reported since the circuit last    *)
(* accepted a success, and the reporter's latest failure is no older.      *)
Backed(ev, rep) == \A r \in Reporters : ev[r] # NoEvidence => rep[r] \in 0..ev[r]

(* What has to hold of one provider. *)
ProviderOK(c, ev, rep) ==
    /\ c \in Circuits /\ ev \in Reports /\ rep \in Reports
    /\ Agrees(c, ev) /\ Backed(ev, rep)

(* The inductive invariant, provider by provider. *)
CircuitInv ==
    /\ circuit = [p \in Providers |-> circuit[p]]
    /\ evidence = [p \in Providers |-> evidence[p]]
    /\ reported = [p \in Providers |-> reported[p]]
    /\ incident \in IncidentConfigs
    /\ \A p \in Providers : ProviderOK(circuit[p], evidence[p], reported[p])

----------------------------------------------------------------------------
(* What a late call sees of a circuit: its deadline further ahead. *)
LEMMA SeenIsCircuit ==
    ASSUME NEW c \in Circuits, NEW at \in Nat, NEW s \in SeenCircuits(c, at)
    PROVE  /\ s \in Circuits /\ s.status = c.status /\ s.fails = c.fails
           /\ Pending(c.until) => s.until = c.until + at
           /\ c.until = NoDeadline => s.until = NoDeadline
           /\ c.until = 0 => s.until = at
           /\ c.until <= 0 => s.until <= at
  <1>1. PICK u \in SeenAs(c.until, at) : s = [c EXCEPT !.until = u]
    BY DEF SeenCircuits
  <1>2. c.until \in Deadline
    BY DEF Circuits
  <1>3. /\ u \in Deadline
        /\ Pending(c.until) => u = c.until + at
        /\ c.until = NoDeadline => u = NoDeadline
        /\ c.until = 0 => u = at
        /\ c.until <= 0 => u <= at
    BY <1>2, SMTT(30) DEF SeenAs, Deadline, NoDeadline, Pending
  <1>4. QED
    BY <1>1, <1>3 DEF Circuits

(* Bringing an entry forward changes nothing but its deadline, and undoes  *)
(* what the late call saw.                                                 *)
LEMMA ForwardIsCircuit ==
    ASSUME NEW c \in Circuits, NEW at \in Nat
    PROVE  /\ BroughtForward(c, at) \in Circuits
           /\ BroughtForward(c, at).status = c.status
           /\ BroughtForward(c, at).fails = c.fails
           /\ \A u \in Deadline : Pending(u) /\ c.until = u + at => BroughtForward(c, at).until = u
           /\ BroughtForward(c, at).until > 0 => c.until > at
  <1> DEFINE v == IF c.until = NoDeadline THEN c.until
                  ELSE IF c.until - at < -1 THEN -1 ELSE c.until - at
  <1>1. BroughtForward(c, at) = [c EXCEPT !.until = v]
    BY DEF BroughtForward
  <1>2. c.until \in Deadline
    BY DEF Circuits
  <1>3. /\ v \in Deadline
        /\ \A u \in Deadline : Pending(u) /\ c.until = u + at => v = u
        /\ v > 0 => c.until > at
    BY <1>2, SMTT(30) DEF Deadline, NoDeadline, Pending
  <1> HIDE DEF v
  <1>4. QED
    BY <1>1, <1>3 DEF Circuits

(* The settings in force, and the deadlines and ages they allow. *)
LEMMA IncidentSettings ==
    ASSUME incident \in IncidentConfigs
    PROVE  /\ incident.threshold \in Nat /\ incident.window \in Nat
           /\ incident.cooldown \in Deadline
           /\ \A at \in Lags : at \in Nat /\ at < AgeCap
           /\ AgeCap \in Nat /\ 0 \in Lags
           /\ NoDeadline \in Deadline
  <1>1. /\ incident.threshold \in Nat /\ incident.window \in Nat \ {0}
        /\ incident.cooldown \in Nat
    BY IncidentConfigsAssumption
  <1>2. \A at \in Lags : at \in Nat /\ at < AgeCap
    BY <1>1, LagsAssumption, SMTT(30)
  <1>3. QED
    BY <1>1, <1>2, LagsAssumption DEF Deadline, NoDeadline

(* Witnesses are reporters, so they can be counted. *)
LEMMA WitnessesAreFew ==
    ASSUME NEW ev
    PROVE  /\ IsFiniteSet(Witnesses(ev)) /\ Cardinality(Witnesses(ev)) \in Nat
           /\ Witnesses(ev) \subseteq Reporters
  <1>1. Witnesses(ev) \subseteq Reporters
    BY DEF Witnesses
  <1>2. QED
    BY <1>1, ReportersAssumption, FS_Subset, FS_CardinalityType

(* Normalising only ever turns a lapsed cooldown into a half-open trial. *)
LEMMA NormalizedCircuit ==
    ASSUME NEW c \in Circuits
    PROVE  /\ normalizeProviderState(c) \in Circuits
           /\ Cooling(c) => normalizeProviderState(c) = c
           /\ Cooling(normalizeProviderState(c)) => normalizeProviderState(c) = c
           /\ normalizeProviderState(c) = c
                \/ (c.status = Cooldown /\ normalizeProviderState(c).status = HalfOpen)
           /\ ~OnTrial(c) => normalizeProviderState(c).status # HalfOpen /\ normalizeProviderState(c) = c
  <1>1. 0 \in Nat /\ NoDeadline \in Deadline
    BY DEF Deadline, NoDeadline
  <1>2. Entry(HalfOpen, 0, NoDeadline) \in Circuits /\ Entry(HalfOpen, 0, NoDeadline).status = HalfOpen
    BY <1>1 DEF Entry, Circuits
  <1>3. QED
    BY <1>2, SMTT(30) DEF normalizeProviderState, Cooling, Pending, Passed, OnTrial, HalfOpen, Cooldown, Circuits, Deadline

(* A failure leaves a circuit that agrees with its evidence. *)
LEMMA FailureAgrees ==
    ASSUME NEW c \in Circuits, NEW ev \in Reports, NEW rep \in Reports, NEW r \in Reporters,
           NEW at \in Lags, incident \in IncidentConfigs, Agrees(c, ev), Backed(ev, rep)
    PROVE  /\ CircuitAfterFailure(c, ev, r, at) \in Circuits
           /\ EvidenceAfterFailure(c, ev, r, at) \in Reports
           /\ Agrees(CircuitAfterFailure(c, ev, r, at), EvidenceAfterFailure(c, ev, r, at))
           /\ Backed(EvidenceAfterFailure(c, ev, r, at),
                     [rep EXCEPT ![r] = IF @ \in 0..at THEN @ ELSE at])
           /\ [rep EXCEPT ![r] = IF @ \in 0..at THEN @ ELSE at] \in Reports
  <1> DEFINE q == normalizeProviderState(c)
             co == Corroborated(ev, r, at)
             one == OnlyWitness(r, at)
             n == Cardinality(Witnesses(co))
             rp == [rep EXCEPT ![r] = IF rep[r] \in 0..at THEN rep[r] ELSE at]
  <1>0. /\ at \in 0..AgeCap /\ AgeCap \in Nat /\ incident.window \in Nat
        /\ incident.cooldown \in Deadline /\ incident.threshold \in Nat
        /\ NoDeadline \in Deadline
    BY IncidentSettings, SMTT(30)
  <1>1. co \in Reports /\ one \in Reports /\ rp \in Reports
    BY <1>0, SMTT(30) DEF Corroborated, OnlyWitness, Reports, NoEvidence
  <1>2. Backed(ev, rp) /\ Backed(co, rp) /\ Backed(one, rp)
    BY <1>0, SMTT(30) DEF Backed, Corroborated, OnlyWitness, Reports, NoEvidence
  <1>3. n \in Nat /\ Cardinality(Witnesses(one)) = 1
    <2>1. Witnesses(one) = {r}
      BY <1>0, SMTT(30) DEF Witnesses, OnlyWitness, NoEvidence
    <2>2. QED
      BY <2>1, WitnessesAreFew, FS_Singleton
  <1>4. q \in Circuits /\ (Cooling(q) => q = c)
    BY NormalizedCircuit
  <1> HIDE DEF q, co, one, n
  <1>5. CASE Cooling(q)
    BY <1>1, <1>2, <1>4, <1>5 DEF CircuitAfterFailure, EvidenceAfterFailure, q
  <1>6. CASE ~Cooling(q) /\ q.status = HalfOpen
    <2>1. /\ CircuitAfterFailure(c, ev, r, at) = Entry(Cooldown, 1, incident.cooldown)
          /\ EvidenceAfterFailure(c, ev, r, at) = one
      BY <1>6 DEF CircuitAfterFailure, EvidenceAfterFailure, q, one
    <2>2. /\ Entry(Cooldown, 1, incident.cooldown) \in Circuits
          /\ Entry(Cooldown, 1, incident.cooldown).status = Cooldown
          /\ Entry(Cooldown, 1, incident.cooldown).fails = 1
      BY <1>0 DEF Entry, Circuits
    <2>3. Agrees(Entry(Cooldown, 1, incident.cooldown), one)
      BY <1>3, <2>2 DEF Agrees, Cooldown, NoStatus, Healthy
    <2>4. QED
      BY <1>1, <1>2, <2>1, <2>2, <2>3
  <1>7. CASE ~Cooling(q) /\ q.status # HalfOpen
    <2>1. /\ \/ CircuitAfterFailure(c, ev, r, at) = Entry(Cooldown, n, incident.cooldown)
             \/ CircuitAfterFailure(c, ev, r, at) = Entry(Degraded, n, NoDeadline)
          /\ EvidenceAfterFailure(c, ev, r, at) = co
      BY <1>7 DEF CircuitAfterFailure, EvidenceAfterFailure, q, co, n
    <2>2. /\ Entry(Cooldown, n, incident.cooldown) \in Circuits
          /\ Entry(Cooldown, n, incident.cooldown).status = Cooldown
          /\ Entry(Cooldown, n, incident.cooldown).fails = n
          /\ Entry(Degraded, n, NoDeadline) \in Circuits
          /\ Entry(Degraded, n, NoDeadline).status = Degraded
          /\ Entry(Degraded, n, NoDeadline).fails = n
      BY <1>0, <1>3 DEF Entry, Circuits
    <2>3. Agrees(Entry(Cooldown, n, incident.cooldown), co)
      BY <2>2 DEF Agrees, Cooldown, NoStatus, Healthy, n
    <2>4. Agrees(Entry(Degraded, n, NoDeadline), co)
      BY <2>2 DEF Agrees, Degraded, NoStatus, Healthy, n
    <2>5. QED
      BY <1>1, <1>2, <2>1, <2>2, <2>3, <2>4
  <1>8. QED
    BY <1>5, <1>6, <1>7

(* A success closes the circuit and clears its evidence, or does nothing. *)
LEMMA SuccessAgrees ==
    ASSUME NEW c \in Circuits, NEW ev \in Reports, NEW rep \in Reports,
           Agrees(c, ev), Backed(ev, rep)
    PROVE  /\ CircuitAfterSuccess(c) \in Circuits
           /\ EvidenceAfterSuccess(c, ev) \in Reports
           /\ Agrees(CircuitAfterSuccess(c), EvidenceAfterSuccess(c, ev))
           /\ Backed(EvidenceAfterSuccess(c, ev), IF Cooling(c) THEN rep ELSE NoReports)
           /\ (IF Cooling(c) THEN rep ELSE NoReports) \in Reports
  <1>1. /\ NoReports \in Reports /\ Witnesses(NoReports) = {} /\ Backed(NoReports, NoReports)
    BY LagsAssumption, SMTT(30) DEF NoReports, Reports, NoEvidence, Witnesses, Backed
  <1>2. /\ Entry(Healthy, 0, NoDeadline) \in Circuits
        /\ Entry(Healthy, 0, NoDeadline).status = Healthy
    BY DEF Entry, Circuits, Deadline, NoDeadline
  <1>3. Agrees(Entry(Healthy, 0, NoDeadline), NoReports)
    BY <1>1, <1>2 DEF Agrees, Healthy, Degraded, Cooldown
  <1>4. QED
    BY <1>1, <1>2, <1>3 DEF CircuitAfterSuccess, EvidenceAfterSuccess

(* Agreement is about the status and the count only. *)
LEMMA AgreementIsStatus ==
    ASSUME NEW c, NEW s, NEW ev, s.status = c.status, s.fails = c.fails, Agrees(c, ev)
    PROVE  Agrees(s, ev)
  BY DEF Agrees

(* A provider nobody has reported on. *)
LEMMA NewProvider ==
    /\ NoEntry \in Circuits /\ NoReports \in Reports
    /\ Agrees(NoEntry, NoReports) /\ Backed(NoReports, NoReports)
  <1>1. /\ NoReports \in Reports /\ Witnesses(NoReports) = {} /\ Backed(NoReports, NoReports)
    BY LagsAssumption, SMTT(30) DEF NoReports, Reports, NoEvidence, Witnesses, Backed
  <1>2. NoEntry \in Circuits /\ NoEntry.status = NoStatus
    BY DEF NoEntry, Entry, Circuits, Deadline, NoDeadline
  <1>3. QED
    BY <1>1, <1>2 DEF Agrees, NoStatus, Degraded, Cooldown

(* Time passing keeps every witness a witness. *)
LEMMA OlderReports ==
    ASSUME NEW ev \in Reports, NEW rep \in Reports, Backed(ev, rep)
    PROVE  /\ [r \in Reporters |-> Older(ev[r])] \in Reports
           /\ [r \in Reporters |-> Older(rep[r])] \in Reports
           /\ Witnesses([r \in Reporters |-> Older(ev[r])]) = Witnesses(ev)
           /\ Backed([r \in Reporters |-> Older(ev[r])], [r \in Reporters |-> Older(rep[r])])
  <1> DEFINE oe == [r \in Reporters |-> Older(ev[r])]
             orp == [r \in Reporters |-> Older(rep[r])]
  <1>0. AgeCap \in Nat
    BY LagsAssumption
  <1>1. \A r \in Reporters : ev[r] \in -1..AgeCap /\ rep[r] \in -1..AgeCap
    BY DEF Reports
  <1>2. \A r \in Reporters : /\ Older(ev[r]) \in -1..AgeCap /\ Older(rep[r]) \in -1..AgeCap
                             /\ Older(ev[r]) # NoEvidence <=> ev[r] # NoEvidence
                             /\ rep[r] \in 0..ev[r] => Older(rep[r]) \in 0..Older(ev[r])
    BY <1>0, <1>1, SMTT(30) DEF Older, NoEvidence
  <1>3. QED
    BY <1>2 DEF Reports, Witnesses, Backed

(* A tick of the clock changes nothing but the deadline. *)
LEMMA AgedCircuit ==
    ASSUME NEW c \in Circuits
    PROVE  /\ Aged(c) \in Circuits /\ Aged(c).status = c.status /\ Aged(c).fails = c.fails
           /\ Aged(c).until = Ticked(c.until)
  <1>1. c.until \in Deadline /\ Ticked(c.until) \in Deadline
    BY SMTT(30) DEF Circuits, Deadline, Ticked, NoDeadline
  <1>2. QED
    BY <1>1 DEF Circuits, Aged

----------------------------------------------------------------------------
(* The inductive step *)

(* Each method keeps one provider in good order. *)
LEMMA NormalizedOK ==
    ASSUME NEW c, NEW ev, NEW rep, ProviderOK(c, ev, rep)
    PROVE  ProviderOK(normalizeProviderState(c), ev, rep)
  BY NormalizedCircuit DEF ProviderOK, Agrees, HalfOpen, Cooldown, Degraded, NoStatus, Healthy

LEMMA FailureOK ==
    ASSUME NEW c, NEW ev, NEW rep, ProviderOK(c, ev, rep), NEW r \in Reporters, NEW at \in Lags,
           NEW s \in SeenCircuits(c, at), incident \in IncidentConfigs
    PROVE  ProviderOK(BroughtForward(CircuitAfterFailure(s, ev, r, at), at),
                      EvidenceAfterFailure(s, ev, r, at),
                      [rep EXCEPT ![r] = IF @ \in 0..at THEN @ ELSE at])
  <1>1. at \in Nat
    BY IncidentSettings
  <1>2. s \in Circuits /\ Agrees(s, ev)
    BY <1>1, SeenIsCircuit, AgreementIsStatus, SMTT(30) DEF ProviderOK
  <1> DEFINE a == CircuitAfterFailure(s, ev, r, at)
             e == EvidenceAfterFailure(s, ev, r, at)
             rp == [rep EXCEPT ![r] = IF @ \in 0..at THEN @ ELSE at]
  <1>3. a \in Circuits /\ e \in Reports /\ rp \in Reports /\ Agrees(a, e) /\ Backed(e, rp)
    BY <1>2, FailureAgrees DEF ProviderOK
  <1> HIDE DEF a, e, rp
  <1>4. BroughtForward(a, at) \in Circuits /\ Agrees(BroughtForward(a, at), e)
    BY <1>1, <1>3, ForwardIsCircuit, AgreementIsStatus
  <1>5. ProviderOK(BroughtForward(a, at), e, rp)
    BY <1>3, <1>4 DEF ProviderOK
  <1>6. QED
    BY <1>5 DEF a, e, rp

LEMMA SuccessOK ==
    ASSUME NEW c, NEW ev, NEW rep, ProviderOK(c, ev, rep), NEW at \in Lags,
           NEW s \in SeenCircuits(c, at), incident \in IncidentConfigs
    PROVE  ProviderOK(BroughtForward(CircuitAfterSuccess(s), at), EvidenceAfterSuccess(s, ev),
                      IF Cooling(s) THEN rep ELSE NoReports)
  <1>1. at \in Nat
    BY IncidentSettings
  <1>2. s \in Circuits /\ Agrees(s, ev)
    BY <1>1, SeenIsCircuit, AgreementIsStatus, SMTT(30) DEF ProviderOK
  <1> DEFINE a == CircuitAfterSuccess(s)
             e == EvidenceAfterSuccess(s, ev)
             rp == IF Cooling(s) THEN rep ELSE NoReports
  <1>3. a \in Circuits /\ e \in Reports /\ rp \in Reports /\ Agrees(a, e) /\ Backed(e, rp)
    BY <1>2, SuccessAgrees DEF ProviderOK
  <1> HIDE DEF a, e, rp
  <1>4. BroughtForward(a, at) \in Circuits /\ Agrees(BroughtForward(a, at), e)
    BY <1>1, <1>3, ForwardIsCircuit, AgreementIsStatus
  <1>5. ProviderOK(BroughtForward(a, at), e, rp)
    BY <1>3, <1>4 DEF ProviderOK
  <1>6. QED
    BY <1>5 DEF a, e, rp

LEMMA AgedOK ==
    ASSUME NEW c, NEW ev, NEW rep, ProviderOK(c, ev, rep)
    PROVE  ProviderOK(Aged(c), [r \in Reporters |-> Older(ev[r])], [r \in Reporters |-> Older(rep[r])])
  <1>1. /\ Witnesses([r \in Reporters |-> Older(ev[r])]) = Witnesses(ev)
        /\ Agrees(Aged(c), ev)
    BY OlderReports, AgedCircuit, AgreementIsStatus DEF ProviderOK
  <1>2. Agrees(Aged(c), [r \in Reporters |-> Older(ev[r])])
    BY <1>1 DEF Agrees
  <1>3. QED
    BY <1>2, OlderReports, AgedCircuit DEF ProviderOK

(* Every step rewrites a provider with one of the methods above. *)
LEMMA CircuitsStep ==
    ASSUME CircuitInv, [CircuitNext]_circuits
    PROVE  CircuitInv'
  <1>1. ASSUME NEW p \in Providers, ProviderAvailable(p)
        PROVE  CircuitInv'
    BY <1>1, NormalizedOK DEF CircuitInv, ProviderAvailable
  <1>2. ASSUME NEW p \in Providers, NEW r \in Reporters, RecordProviderFailure(p, r)
        PROVE  CircuitInv'
    <2>1. PICK at \in Lags : \E s \in SeenCircuits(circuit[p], at) :
             /\ circuit' = [circuit EXCEPT ![p] =
                    BroughtForward(CircuitAfterFailure(s, evidence[p], r, at), at)]
             /\ evidence' = [evidence EXCEPT ![p] = EvidenceAfterFailure(s, @, r, at)]
             /\ reported' = [reported EXCEPT ![p][r] = IF @ \in 0..at THEN @ ELSE at]
             /\ UNCHANGED incident
      BY <1>2 DEF RecordProviderFailure
    <2>2. PICK s \in SeenCircuits(circuit[p], at) :
             /\ circuit' = [circuit EXCEPT ![p] =
                    BroughtForward(CircuitAfterFailure(s, evidence[p], r, at), at)]
             /\ evidence' = [evidence EXCEPT ![p] = EvidenceAfterFailure(s, @, r, at)]
             /\ reported' = [reported EXCEPT ![p][r] = IF @ \in 0..at THEN @ ELSE at]
             /\ UNCHANGED incident
      BY <2>1
    <2>3. ProviderOK(BroughtForward(CircuitAfterFailure(s, evidence[p], r, at), at),
                     EvidenceAfterFailure(s, evidence[p], r, at),
                     [reported[p] EXCEPT ![r] = IF @ \in 0..at THEN @ ELSE at])
      BY FailureOK DEF CircuitInv
    <2>4. QED
      BY <2>2, <2>3 DEF CircuitInv
  <1>3. ASSUME NEW p \in Providers, RecordProviderSuccess(p)
        PROVE  CircuitInv'
    <2>1. PICK at \in Lags : \E s \in SeenCircuits(circuit[p], at) :
             /\ circuit' = [circuit EXCEPT ![p] = BroughtForward(CircuitAfterSuccess(s), at)]
             /\ evidence' = [evidence EXCEPT ![p] = EvidenceAfterSuccess(s, @)]
             /\ reported' = [reported EXCEPT ![p] = IF Cooling(s) THEN @ ELSE NoReports]
             /\ UNCHANGED incident
      BY <1>3 DEF RecordProviderSuccess
    <2>2. PICK s \in SeenCircuits(circuit[p], at) :
             /\ circuit' = [circuit EXCEPT ![p] = BroughtForward(CircuitAfterSuccess(s), at)]
             /\ evidence' = [evidence EXCEPT ![p] = EvidenceAfterSuccess(s, @)]
             /\ reported' = [reported EXCEPT ![p] = IF Cooling(s) THEN @ ELSE NoReports]
             /\ UNCHANGED incident
      BY <2>1
    <2>3. ProviderOK(BroughtForward(CircuitAfterSuccess(s), at),
                     EvidenceAfterSuccess(s, evidence[p]),
                     IF Cooling(s) THEN reported[p] ELSE NoReports)
      BY SuccessOK DEF CircuitInv
    <2>4. QED
      BY <2>2, <2>3 DEF CircuitInv
  <1>4. ASSUME NEW p \in Providers, InvalidateProvider(p)
        PROVE  CircuitInv'
    <2>1. ProviderOK(NoEntry, NoReports, NoReports)
      BY NewProvider DEF ProviderOK
    <2>2. QED
      BY <1>4, <2>1 DEF CircuitInv, InvalidateProvider
  <1>5. CASE ProviderSnapshot
    BY <1>5, NormalizedOK DEF CircuitInv, ProviderSnapshot
  <1>6. CASE \E c \in IncidentConfigs : ConfigureProviderIncidents(c)
    BY <1>6 DEF CircuitInv, ConfigureProviderIncidents
  <1>7. CASE CircuitTick
    BY <1>7, AgedOK, SMTT(30) DEF CircuitInv, CircuitTick
  <1>8. CASE UNCHANGED circuits
    BY <1>8 DEF CircuitInv, circuits
  <1>9. QED
    BY <1>1, <1>2, <1>3, <1>4, <1>5, <1>6, <1>7, <1>8 DEF CircuitNext

(* Hence the invariant. *)
LEMMA CircuitsInv == CircuitSpec => []CircuitInv
  <1>1. CircuitInit => CircuitInv
    BY NewProvider DEF CircuitInit, CircuitInv, ProviderOK
  <1>2. CircuitInv /\ [CircuitNext]_circuits => CircuitInv'
    BY CircuitsStep
  <1>3. QED
    BY <1>1, <1>2, PTL DEF CircuitSpec

(* The count RecordProviderFailure compares with providerThreshold is the  *)
(* number of deployments in the provider's evidence map, and a provider    *)
(* whose circuit is new or closed by a success has no evidence left over.  *)
THEOREM CircuitEvidence == CircuitSpec => []EvidenceMatchesCircuit
  <1>1. CircuitInv => EvidenceMatchesCircuit
    BY DEF CircuitInv, ProviderOK, Agrees, EvidenceMatchesCircuit
  <1>2. QED
    BY <1>1, CircuitsInv, PTL

----------------------------------------------------------------------------
(* What no step does *)

(* A late call sees an open circuit as open, and puts it back unchanged. *)
LEMMA LateResult ==
    ASSUME NEW c \in Circuits, Cooling(c), NEW at \in Nat, NEW s \in SeenCircuits(c, at)
    PROVE  /\ Cooling(s) /\ s \in Circuits
           /\ BroughtForward(s, at).status = Cooldown
           /\ BroughtForward(s, at).until = c.until
  <1>1. /\ s \in Circuits /\ s.status = Cooldown /\ s.until = c.until + at
        /\ c.until \in Deadline /\ Pending(c.until) /\ c.until > 0
    BY SeenIsCircuit, SMTT(30) DEF Cooling, Circuits, Pending
  <1>2. Cooling(s)
    BY <1>1, SMTT(30) DEF Cooling, Pending, Deadline, NoDeadline
  <1>3. QED
    BY <1>1, <1>2, ForwardIsCircuit

(* No step but a reload closes an open circuit; only a tick wears it down. *)
LEMMA CircuitStaysOpen ==
    ASSUME CircuitInv, [CircuitNext]_circuits, NEW p \in Providers, Cooling(circuit[p]),
           ~InvalidateProvider(p)
    PROVE  circuit'[p].status = Cooldown /\ circuit'[p].until >= circuit[p].until - 1
  <1>0. /\ circuit[p] \in Circuits /\ circuit[p].status = Cooldown
        /\ circuit[p].until \in Deadline /\ circuit[p].until \in Int /\ circuit[p].until > 0
        /\ circuit = [q \in Providers |-> circuit[q]]
    BY SMTT(30) DEF CircuitInv, ProviderOK, Circuits, Cooling, Pending, Deadline, NoDeadline
  <1>1. ASSUME circuit'[p] = circuit[p]
        PROVE  circuit'[p].status = Cooldown /\ circuit'[p].until >= circuit[p].until - 1
    BY <1>0, <1>1, SMTT(30)
  <1>2. normalizeProviderState(circuit[p]) = circuit[p]
    BY <1>0, NormalizedCircuit
  <1>3. ASSUME NEW q \in Providers, ProviderAvailable(q)
        PROVE  circuit'[p] = circuit[p]
    BY <1>0, <1>2, <1>3 DEF ProviderAvailable
  <1>4. ASSUME NEW q \in Providers, NEW r \in Reporters, RecordProviderFailure(q, r)
        PROVE  circuit'[p].status = Cooldown /\ circuit'[p].until = circuit[p].until
    <2>0. PICK at \in Lags : \E s \in SeenCircuits(circuit[q], at) :
             circuit' = [circuit EXCEPT ![q] =
                    BroughtForward(CircuitAfterFailure(s, evidence[q], r, at), at)]
      BY <1>4 DEF RecordProviderFailure
    <2>1. PICK s \in SeenCircuits(circuit[q], at) :
             circuit' = [circuit EXCEPT ![q] =
                    BroughtForward(CircuitAfterFailure(s, evidence[q], r, at), at)]
      BY <2>0
    <2>2. CASE q = p
      <3>1. at \in Nat
        BY IncidentSettings DEF CircuitInv
      <3>2. /\ Cooling(s) /\ s \in Circuits
            /\ BroughtForward(s, at).status = Cooldown
            /\ BroughtForward(s, at).until = circuit[p].until
        BY <3>1, <2>2, <1>0, LateResult
      <3>3. CircuitAfterFailure(s, evidence[q], r, at) = s
        BY <3>2, NormalizedCircuit DEF CircuitAfterFailure
      <3>4. circuit'[p] = BroughtForward(s, at)
        BY <1>0, <2>1, <2>2, <3>3
      <3>5. QED
        BY <3>2, <3>4
    <2>3. CASE q # p
      BY <1>0, <2>1, <2>3
    <2>4. QED
      BY <2>2, <2>3
  <1>5. ASSUME NEW q \in Providers, RecordProviderSuccess(q)
        PROVE  circuit'[p].status = Cooldown /\ circuit'[p].until = circuit[p].until
    <2>0. PICK at \in Lags : \E s \in SeenCircuits(circuit[q], at) :
             circuit' = [circuit EXCEPT ![q] = BroughtForward(CircuitAfterSuccess(s), at)]
      BY <1>5 DEF RecordProviderSuccess
    <2>1. PICK s \in SeenCircuits(circuit[q], at) :
             circuit' = [circuit EXCEPT ![q] = BroughtForward(CircuitAfterSuccess(s), at)]
      BY <2>0
    <2>2. CASE q = p
      <3>1. at \in Nat
        BY IncidentSettings DEF CircuitInv
      <3>2. /\ Cooling(s)
            /\ BroughtForward(s, at).status = Cooldown
            /\ BroughtForward(s, at).until = circuit[p].until
        BY <3>1, <2>2, <1>0, LateResult
      <3>3. circuit'[p] = BroughtForward(s, at)
        BY <1>0, <2>1, <2>2, <3>2 DEF CircuitAfterSuccess
      <3>4. QED
        BY <3>2, <3>3
    <2>3. CASE q # p
      BY <1>0, <2>1, <2>3
    <2>4. QED
      BY <2>2, <2>3
  <1>6. ASSUME NEW q \in Providers, InvalidateProvider(q)
        PROVE  circuit'[p] = circuit[p]
    BY <1>0, <1>6 DEF InvalidateProvider
  <1>7. ASSUME ProviderSnapshot
        PROVE  circuit'[p] = circuit[p]
    BY <1>2, <1>7 DEF ProviderSnapshot
  <1>8. ASSUME NEW c \in IncidentConfigs, ConfigureProviderIncidents(c)
        PROVE  circuit'[p] = circuit[p]
    BY <1>8 DEF ConfigureProviderIncidents
  <1>9. ASSUME CircuitTick
        PROVE  circuit'[p].status = Cooldown /\ circuit'[p].until = circuit[p].until - 1
    <2>1. circuit'[p] = Aged(circuit[p])
      BY <1>9 DEF CircuitTick
    <2>2. Ticked(circuit[p].until) = circuit[p].until - 1
      BY <1>0, SMTT(30) DEF Ticked
    <2>3. QED
      BY <1>0, <2>1, <2>2, AgedCircuit
  <1>10. CASE UNCHANGED circuits
    BY <1>1, <1>10 DEF circuits
  <1>11. QED
    BY <1>0, <1>1, <1>3, <1>4, <1>5, <1>6, <1>7, <1>8, <1>9, <1>10, SMTT(30) DEF CircuitNext

(* RecordProviderFailure and RecordProviderSuccess calls that read the     *)
(* clock before a circuit opened neither close it nor shorten its          *)
(* cooldown, however they interleave: only InvalidateProvider ends it      *)
(* early, and only the clock brings its deadline nearer.                   *)
THEOREM CircuitOutlivesLateResults == CircuitSpec => LateResultsKeepCircuitOpen
  <1>1. CircuitInv /\ [CircuitNext]_circuits =>
           [\A p \in Providers :
              Cooling(circuit[p]) /\ ~InvalidateProvider(p)
                 => circuit'[p].status = Cooldown /\ circuit'[p].until >= circuit[p].until - 1]_circuits
    BY CircuitStaysOpen
  <1>2. QED
    BY <1>1, CircuitsInv, PTL DEF CircuitSpec, LateResultsKeepCircuitOpen

(* The deployments that corroborate a failure all reported one inside the  *)
(* window.                                                                 *)
LEMMA CorroboratedRecently ==
    ASSUME NEW ev \in Reports, NEW rep \in Reports, Backed(ev, rep), NEW r \in Reporters,
           NEW at \in Lags, incident \in IncidentConfigs
    PROVE  /\ IsFiniteSet(RecentReporters([rep EXCEPT ![r] = IF @ \in 0..at THEN @ ELSE at]))
           /\ Witnesses(Corroborated(ev, r, at)) \subseteq
                RecentReporters([rep EXCEPT ![r] = IF @ \in 0..at THEN @ ELSE at])
  <1> DEFINE rp == [rep EXCEPT ![r] = IF @ \in 0..at THEN @ ELSE at]
             co == Corroborated(ev, r, at)
  <1>0. at \in Nat /\ AgeCap \in Nat /\ incident.window \in Nat
    BY IncidentSettings
  <1>1. IsFiniteSet(RecentReporters(rp))
    BY ReportersAssumption, FS_Subset DEF RecentReporters
  <1>2. rp[r] \in 0..at /\ \A q \in Reporters \ {r} : rp[q] = rep[q]
    BY <1>0, SMTT(30) DEF Reports
  <1>3. ASSUME NEW q \in Reporters, co[q] # NoEvidence
        PROVE  rp[q] # NoEvidence /\ rp[q] - at <= incident.window
    <2>1. CASE q = r
      BY <1>0, <1>2, <2>1, SMTT(30) DEF NoEvidence
    <2>2. CASE q # r
      <3>1. co[q] = IF ev[q] - at > incident.window THEN NoEvidence ELSE ev[q]
        BY <2>2 DEF Corroborated
      <3>2. ev[q] \in Int /\ ev[q] # NoEvidence /\ ev[q] - at <= incident.window
        BY <1>0, <1>3, <3>1, SMTT(30) DEF Reports
      <3>3. rep[q] \in 0..ev[q]
        BY <3>2 DEF Backed
      <3>4. QED
        BY <1>0, <1>2, <2>2, <3>2, <3>3, SMTT(30) DEF NoEvidence
    <2>3. QED
      BY <2>1, <2>2
  <1> HIDE DEF rp, co
  <1>4. Witnesses(co) \subseteq RecentReporters(rp)
    BY <1>3 DEF Witnesses, RecentReporters
  <1>5. QED
    BY <1>1, <1>4 DEF rp, co

(* A failure that opens a circuit not due for a trial was corroborated. *)
LEMMA FailureOpens ==
    ASSUME NEW c \in Circuits, ~Cooling(c), ~OnTrial(c), NEW ev, NEW r, NEW at \in Nat,
           NEW s \in SeenCircuits(c, at), incident \in IncidentConfigs,
           Cooling(BroughtForward(CircuitAfterFailure(s, ev, r, at), at))
    PROVE  Cardinality(Witnesses(Corroborated(ev, r, at))) >= incident.threshold
  <1> DEFINE n == Cardinality(Witnesses(Corroborated(ev, r, at)))
  <1>1. /\ s \in Circuits /\ s.status = c.status
        /\ c.until = NoDeadline => s.until = NoDeadline
        /\ c.until = 0 => s.until = at
    BY SeenIsCircuit, SMTT(30)
  <1>2. s.status = Cooldown => s.until \in {NoDeadline, at}
    BY <1>1, SMTT(30) DEF Cooling, Pending, OnTrial, Passed, Circuits, Deadline
  <1>3. s.status # HalfOpen /\ normalizeProviderState(s) = s
    BY <1>1, <1>2, SMTT(30) DEF OnTrial, normalizeProviderState, Passed, NoDeadline
  <1>4. n \in Nat /\ incident.threshold \in Nat
    BY WitnessesAreFew, IncidentSettings
  <1>5. CASE Cooling(s)
    <2>1. CircuitAfterFailure(s, ev, r, at) = s
      BY <1>3, <1>5 DEF CircuitAfterFailure
    <2>2. BroughtForward(s, at).until > 0
      BY <2>1 DEF Cooling, Pending
    <2>3. s.until > at
      BY <1>1, <2>2, ForwardIsCircuit
    <2>4. QED
      BY <1>2, <1>5, <2>3, SMTT(30) DEF Cooling, NoDeadline
  <1>6. CASE ~Cooling(s) /\ ~(n >= incident.threshold)
    <2>1. CircuitAfterFailure(s, ev, r, at) = Entry(Degraded, n, NoDeadline)
      BY <1>3, <1>6 DEF CircuitAfterFailure
    <2>2. Entry(Degraded, n, NoDeadline) \in Circuits /\ Entry(Degraded, n, NoDeadline).status = Degraded
      BY <1>4 DEF Entry, Circuits, Deadline
    <2>3. BroughtForward(Entry(Degraded, n, NoDeadline), at).status = Degraded
      BY <2>2, ForwardIsCircuit
    <2>4. QED
      BY <2>1, <2>3 DEF Cooling, Cooldown, Degraded
  <1>7. QED
    BY <1>5, <1>6

(* Only a reported failure opens a circuit. *)
LEMMA NothingElseOpens ==
    ASSUME CircuitInv, [CircuitNext]_circuits, NEW p \in Providers,
           ~Cooling(circuit[p]), Cooling(circuit'[p])
    PROVE  \E r \in Reporters : RecordProviderFailure(p, r)
  <1>0. /\ circuit[p] \in Circuits
        /\ circuit = [q \in Providers |-> circuit[q]]
        /\ circuit'[p] # circuit[p]
    BY DEF CircuitInv, ProviderOK
  <1>1. SUFFICES ASSUME \A r \in Reporters : ~RecordProviderFailure(p, r)
                 PROVE  FALSE
    OBVIOUS
  <1>2. circuit'[p] # normalizeProviderState(circuit[p])
    BY <1>0, NormalizedCircuit
  <1>3. ASSUME NEW q \in Providers, ProviderAvailable(q)
        PROVE  FALSE
    BY <1>0, <1>2, <1>3 DEF ProviderAvailable
  <1>4. ASSUME NEW q \in Providers, NEW r \in Reporters, RecordProviderFailure(q, r)
        PROVE  FALSE
    <2>1. q # p
      BY <1>1, <1>4
    <2>2. circuit'[p] = circuit[p]
      BY <1>0, <1>4, <2>1 DEF RecordProviderFailure
    <2>3. QED
      BY <1>0, <2>2
  <1>5. ASSUME NEW q \in Providers, RecordProviderSuccess(q)
        PROVE  FALSE
    <2>0. PICK at \in Lags : \E s \in SeenCircuits(circuit[q], at) :
             circuit' = [circuit EXCEPT ![q] = BroughtForward(CircuitAfterSuccess(s), at)]
      BY <1>5 DEF RecordProviderSuccess
    <2>1. PICK s \in SeenCircuits(circuit[q], at) :
             circuit' = [circuit EXCEPT ![q] = BroughtForward(CircuitAfterSuccess(s), at)]
      BY <2>0
    <2>2. q = p /\ circuit'[p] = BroughtForward(CircuitAfterSuccess(s), at)
      BY <1>0, <2>1
    <2>3. at \in Nat
      BY IncidentSettings DEF CircuitInv
    <2>4. /\ s \in Circuits /\ s.status = circuit[p].status
          /\ circuit[p].until <= 0 => s.until <= at
          /\ circuit[p].until \in Deadline /\ s.until \in Deadline
      BY <1>0, <2>2, <2>3, SeenIsCircuit, SMTT(30) DEF Circuits
    <2>5. CASE ~Cooling(s)
      <3>1. /\ Entry(Healthy, 0, NoDeadline) \in Circuits
            /\ Entry(Healthy, 0, NoDeadline).status = Healthy
        BY DEF Entry, Circuits, Deadline, NoDeadline
      <3>2. circuit'[p].status = Healthy
        BY <2>2, <2>3, <2>5, <3>1, ForwardIsCircuit, SMTT(30) DEF CircuitAfterSuccess
      <3>3. QED
        BY <3>2 DEF Cooling, Cooldown, Healthy
    <2>6. CASE Cooling(s)
      <3>1. circuit'[p] = BroughtForward(s, at) /\ circuit'[p].until > 0
        BY <2>2, <2>6 DEF CircuitAfterSuccess, Cooling, Pending
      <3>2. s.until > at
        BY <2>3, <2>4, <3>1, ForwardIsCircuit
      <3>3. QED
        BY <2>3, <2>4, <2>6, <3>2, SMTT(30) DEF Cooling, Pending, Deadline, NoDeadline
    <2>7. QED
      BY <2>5, <2>6
  <1>6. ASSUME NEW q \in Providers, InvalidateProvider(q)
        PROVE  FALSE
    BY <1>0, <1>6 DEF InvalidateProvider, NoEntry, Entry, Cooling, NoStatus, Cooldown
  <1>7. ASSUME ProviderSnapshot
        PROVE  FALSE
    BY <1>2, <1>7 DEF ProviderSnapshot
  <1>8. ASSUME NEW c \in IncidentConfigs, ConfigureProviderIncidents(c)
        PROVE  FALSE
    BY <1>0, <1>8 DEF ConfigureProviderIncidents
  <1>9. ASSUME CircuitTick
        PROVE  FALSE
    <2>1. circuit'[p] = Aged(circuit[p])
      BY <1>9 DEF CircuitTick
    <2>2. QED
      BY <1>0, <2>1, AgedCircuit, SMTT(30) DEF Cooling, Pending, Ticked, Circuits, Deadline, NoDeadline
  <1>10. CASE UNCHANGED circuits
    BY <1>0, <1>10 DEF circuits
  <1>11. QED
    BY <1>3, <1>4, <1>5, <1>6, <1>7, <1>8, <1>9, <1>10 DEF CircuitNext

(* A circuit that is not on its half-open trial opens only when at least   *)
(* providerThreshold different deployments reported a failure inside the   *)
(* window since the circuit last accepted a success.                       *)
THEOREM CircuitOpensOnCorroboration == CircuitSpec => OpensOnlyOnCorroboration
  <1>1. ASSUME CircuitInv, [CircuitNext]_circuits, NEW p \in Providers,
               ~Cooling(circuit[p]), Cooling(circuit'[p]), ~OnTrial(circuit[p])
        PROVE  Cardinality(RecentReporters(reported'[p])) >= incident.threshold
    <2>1. PICK r \in Reporters : RecordProviderFailure(p, r)
      BY <1>1, NothingElseOpens
    <2>2. PICK at \in Lags : \E s \in SeenCircuits(circuit[p], at) :
             /\ circuit' = [circuit EXCEPT ![p] =
                    BroughtForward(CircuitAfterFailure(s, evidence[p], r, at), at)]
             /\ reported' = [reported EXCEPT ![p][r] = IF @ \in 0..at THEN @ ELSE at]
      BY <2>1 DEF RecordProviderFailure
    <2>3. PICK s \in SeenCircuits(circuit[p], at) :
             /\ circuit' = [circuit EXCEPT ![p] =
                    BroughtForward(CircuitAfterFailure(s, evidence[p], r, at), at)]
             /\ reported' = [reported EXCEPT ![p][r] = IF @ \in 0..at THEN @ ELSE at]
      BY <2>2
    <2> DEFINE rp == [reported[p] EXCEPT ![r] = IF @ \in 0..at THEN @ ELSE at]
               W == Witnesses(Corroborated(evidence[p], r, at))
    <2>4. /\ circuit'[p] = BroughtForward(CircuitAfterFailure(s, evidence[p], r, at), at)
          /\ reported'[p] = rp
      BY <1>1, <2>3 DEF CircuitInv
    <2>5. /\ circuit[p] \in Circuits /\ evidence[p] \in Reports /\ reported[p] \in Reports
          /\ Backed(evidence[p], reported[p]) /\ incident \in IncidentConfigs
      BY <1>1 DEF CircuitInv, ProviderOK
    <2>6. at \in Nat /\ incident.threshold \in Nat
      BY <2>5, IncidentSettings
    <2>7. Cardinality(W) >= incident.threshold /\ Cardinality(W) \in Nat
      BY <1>1, <2>4, <2>5, <2>6, FailureOpens, WitnessesAreFew
    <2>8. IsFiniteSet(RecentReporters(rp)) /\ W \subseteq RecentReporters(rp)
      BY <2>5, CorroboratedRecently
    <2> HIDE DEF rp, W
    <2>9. Cardinality(W) <= Cardinality(RecentReporters(rp)) /\ Cardinality(RecentReporters(rp)) \in Nat
      BY <2>8, FS_Subset, FS_CardinalityType
    <2>10. QED
      BY <2>4, <2>6, <2>7, <2>9, SMTT(30)
  <1>2. CircuitInv /\ [CircuitNext]_circuits =>
           [\A p \in Providers :
              /\ ~Cooling(circuit[p]) /\ Cooling(circuit'[p])
              /\ ~OnTrial(circuit[p])
              => Cardinality(RecentReporters(reported'[p])) >= incident.threshold]_circuits
    BY <1>1
  <1>3. QED
    BY <1>2, CircuitsInv, PTL DEF CircuitSpec, OpensOnlyOnCorroboration

----------------------------------------------------------------------------
(* The probe slots *)

(* The largest limit is known of every limit in force or read. *)
ReadIsKnown ==
    /\ Effective(concurrency) <= top
    /\ \A p \in Probers : prober[p].at = "lock" => prober[p].limit <= top

SlotsInv == SlotsTypeOK /\ CountsProbes /\ NeverOversold /\ ReadIsKnown

(* The effective limit is a positive number. *)
LEMMA EffectiveType == \A n \in Limits : Effective(n) \in Nat /\ Effective(n) >= 1
  BY SlotsAssumption, SMTT(30) DEF Effective

(* The probing probers are finitely many. *)
LEMMA ProbingFinite == IsFiniteSet(Probing)
  BY SlotsAssumption, FS_Subset DEF Probing

(* A prober that starts probing makes them one more. *)
LEMMA OneMoreProbing ==
    ASSUME NEW p \in Probers, p \notin Probing, Probing' = Probing \cup {p}
    PROVE  Cardinality(Probing') = Cardinality(Probing) + 1
  BY ProbingFinite, FS_AddElement

(* Likewise for one that stops. *)
LEMMA OneLessProbing ==
    ASSUME NEW p \in Probing, Probing' = Probing \ {p}
    PROVE  Cardinality(Probing') = Cardinality(Probing) - 1 /\ Cardinality(Probing) \in Nat \ {0}
  BY ProbingFinite, FS_RemoveElement, FS_CardinalityType, FS_EmptySet

(* A prober that moves between places other than probing leaves them be. *)
LEMMA StillProbing ==
    ASSUME SlotsTypeOK, NEW p \in Probers, NEW x, x.at # "probing", prober[p].at # "probing",
           prober' = [prober EXCEPT ![p] = x]
    PROVE  Probing' = Probing
  BY DEF SlotsTypeOK, Probing

(* The invariant holds initially. *)
LEMMA SlotsStart == SlotsInit => SlotsInv
  <1> SUFFICES ASSUME SlotsInit PROVE SlotsInv
    OBVIOUS
  <1>1. SlotsTypeOK
    <2>1. prober \in [Probers -> Place] /\ \A p \in Probers : prober[p].at = "start"
      BY DEF SlotsInit, Place, At
    <2>2. /\ concurrency \in Limits /\ active \in Nat /\ channel \in Nat /\ top \in Nat
          /\ reloads \in 0..MaxReloads
      BY SlotsAssumption, EffectiveType, SMTT(30) DEF SlotsInit
    <2>3. waking \in BOOLEAN
      BY DEF SlotsInit
    <2>4. QED
      BY <2>1, <2>2, <2>3 DEF SlotsTypeOK
  <1>2. CountsProbes
    <2>1. Probing = {}
      BY DEF SlotsInit, Probing, At
    <2>2. QED
      BY <2>1, FS_EmptySet DEF SlotsInit, CountsProbes
  <1>3. NeverOversold /\ ReadIsKnown
    BY EffectiveType, SMTT(30) DEF SlotsInit, NeverOversold, ReadIsKnown, At
  <1>4. QED
    BY <1>1, <1>2, <1>3 DEF SlotsInv

(* Every step keeps the invariant. *)
LEMMA SlotsStep == SlotsInv /\ [SlotsNext]_slots => SlotsInv'
  <1> SUFFICES ASSUME SlotsInv, [SlotsNext]_slots PROVE SlotsInv'
    OBVIOUS
  <1> USE SlotsAssumption, EffectiveType DEF SlotsInv
  <1>1. ASSUME NEW p \in Probers, ReadLimit(p) PROVE SlotsInv'
    <2>1. [at |-> "lock", limit |-> Effective(concurrency)] \in Place
      BY DEF SlotsTypeOK, Place
    <2>2. Probing' = Probing
      BY <1>1, StillProbing DEF ReadLimit, Move
    <2>3. SlotsTypeOK'
      BY <1>1, <2>1 DEF ReadLimit, Move, SlotsTypeOK
    <2>4. CountsProbes' /\ NeverOversold' /\ ReadIsKnown'
      BY <1>1, <2>2 DEF ReadLimit, Move, CountsProbes, NeverOversold, ReadIsKnown, SlotsTypeOK
    <2>5. QED
      BY <2>3, <2>4
  <1>2. ASSUME NEW p \in Probers, Acquire(p) PROVE SlotsInv'
    <2>1. prober[p].limit \in Nat /\ prober[p].limit <= top
      BY <1>2 DEF Acquire, SlotsTypeOK, Place, ReadIsKnown
    <2>2. CASE active < prober[p].limit
      <3>1. /\ active' = active + 1 /\ prober' = [prober EXCEPT ![p] = At("probing")]
            /\ UNCHANGED <<concurrency, channel, waking, reloads, top>>
        BY <1>2, <2>2 DEF Acquire, Move
      <3>2. p \notin Probing /\ Probing' = Probing \cup {p}
        BY <1>2, <3>1 DEF Acquire, Probing, SlotsTypeOK, At
      <3>3. SlotsTypeOK'
        BY <3>1, SMTT(30) DEF SlotsTypeOK, Place, At
      <3>4. CountsProbes'
        BY <3>1, <3>2, OneMoreProbing DEF CountsProbes
      <3>5. NeverOversold' /\ ReadIsKnown'
        BY <2>1, <2>2, <3>1, SMTT(30) DEF NeverOversold, ReadIsKnown, SlotsTypeOK, At
      <3>6. QED
        BY <3>3, <3>4, <3>5
    <2>3. CASE ~(active < prober[p].limit)
      <3>1. /\ active' = active /\ prober' = [prober EXCEPT ![p] = [at |-> "wait", channel |-> channel]]
            /\ UNCHANGED <<concurrency, channel, waking, reloads, top>>
        BY <1>2, <2>3 DEF Acquire, Move
      <3>2. Probing' = Probing
        BY <1>2, <3>1, StillProbing DEF Acquire
      <3>3. SlotsTypeOK'
        <4>1. [at |-> "wait", channel |-> channel] \in Place
          BY DEF SlotsTypeOK, Place
        <4>2. QED
          BY <3>1, <4>1, SMTT(30) DEF SlotsTypeOK
      <3>4. CountsProbes' /\ NeverOversold' /\ ReadIsKnown'
        BY <3>1, <3>2 DEF CountsProbes, NeverOversold, ReadIsKnown, SlotsTypeOK
      <3>5. QED
        BY <3>3, <3>4
    <2>4. QED
      BY <2>2, <2>3
  <1>3. ASSUME NEW p \in Probers, WakeUp(p) \/ Cancel(p) PROVE SlotsInv'
    <2>1. PICK x \in {At("start"), At("done")} : Move(p, x)
      BY <1>3 DEF WakeUp, Cancel
    <2>2. prober[p].at = "wait" /\ UNCHANGED <<concurrency, active, channel, waking, reloads, top>>
      BY <1>3 DEF WakeUp, Cancel
    <2>3. Probing' = Probing
      BY <2>1, <2>2, StillProbing DEF Move, At
    <2>4. SlotsTypeOK'
      BY <2>1, <2>2, SMTT(30) DEF Move, At, SlotsTypeOK, Place
    <2>5. CountsProbes' /\ NeverOversold' /\ ReadIsKnown'
      BY <2>1, <2>2, <2>3, SMTT(30) DEF Move, At, CountsProbes, NeverOversold, ReadIsKnown, SlotsTypeOK
    <2>6. QED
      BY <2>4, <2>5
  <1>4. ASSUME NEW p \in Probers, releaseProbe(p) PROVE SlotsInv'
    <2>1. p \in Probing /\ Probing' = Probing \ {p}
      BY <1>4 DEF releaseProbe, Move, Probing, SlotsTypeOK, At
    <2>2. active > 0 /\ active' = active - 1
      BY <1>4, <2>1, OneLessProbing, SMTT(30) DEF releaseProbe, CountsProbes
    <2>3. SlotsTypeOK'
      BY <1>4, <2>2, SMTT(30) DEF releaseProbe, Move, At, SlotsTypeOK, Place
    <2>4. CountsProbes'
      BY <2>1, <2>2, OneLessProbing DEF CountsProbes
    <2>5. NeverOversold' /\ ReadIsKnown'
      BY <1>4, <2>2, SMTT(30) DEF releaseProbe, Move, At, NeverOversold, ReadIsKnown, SlotsTypeOK
    <2>6. QED
      BY <2>3, <2>4, <2>5
  <1>5. CASE ReloadConfig
    BY <1>5, SMTT(30) DEF ReloadConfig, SlotsTypeOK, CountsProbes, Probing, NeverOversold, ReadIsKnown, Place
  <1>6. CASE ReloadWakes
    <2>1. \A p \in Probers : prober[p].at = "wait" => prober[p].channel \in Nat
      BY DEF SlotsTypeOK, Place
    <2>2. SlotsTypeOK'
      <3>1. waking' \in BOOLEAN
        BY <1>6 DEF ReloadWakes
      <3>2. channel' \in Nat /\ channel' >= channel /\ channel \in Nat
        BY <1>6, SMTT(30) DEF ReloadWakes, SlotsTypeOK
      <3>3. \A p \in Probers : prober[p].at = "wait" => prober[p].channel <= channel'
        BY <2>1, <3>2, SMTT(30) DEF SlotsTypeOK
      <3>4. QED
        BY <1>6, <3>1, <3>2, <3>3 DEF ReloadWakes, SlotsTypeOK
    <2>3. CountsProbes' /\ NeverOversold' /\ ReadIsKnown'
      BY <1>6 DEF ReloadWakes, CountsProbes, Probing, NeverOversold, ReadIsKnown
    <2>4. QED
      BY <2>2, <2>3
  <1>7. CASE UNCHANGED slots
    BY <1>7 DEF slots, SlotsTypeOK, CountsProbes, Probing, NeverOversold, ReadIsKnown
  <1>8. QED
    BY <1>1, <1>2, <1>3, <1>4, <1>5, <1>6, <1>7 DEF SlotsNext, ProberStep

(* For any number of probers and any sequence of limits: activeProbes      *)
(* counts exactly the probes under way.                                    *)
THEOREM SlotsAreCounted == SlotsSpec => [](SlotsTypeOK /\ CountsProbes)
  BY SlotsStart, SlotsStep, PTL DEF SlotsSpec, SlotsInv

(* No more probes run at once than some configuration allowed, although    *)
(* the limit is read before the lock under which it is compared.           *)
THEOREM SlotsNeverOversold == SlotsSpec => []NeverOversold
  BY SlotsStart, SlotsStep, PTL DEF SlotsSpec, SlotsInv

============================================================================
