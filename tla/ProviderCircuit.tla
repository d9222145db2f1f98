-------------------------- MODULE ProviderCircuit --------------------------
(***************************************************************************)
(* The provider incident circuits of health.Manager: failures of several   *)
(* deployments of one provider inside a short window open a circuit that   *)
(* takes the whole provider out of rotation.                               *)
(*                                                                         *)
(* RecordProviderFailure and RecordProviderSuccess read the clock before   *)
(* they take Manager.mu, so a call may act on a clock reading that is some *)
(* ticks old (Lags) while calls that read later have already been applied. *)
(* Such a call sees every deadline further ahead than it is.               *)
(***************************************************************************)
EXTENDS HealthState

CONSTANTS
    Providers,
    Reporters,  \* deployment IDs (the provider's own ID when none is given)
    IncidentConfigs, \* incident settings a hot reload may install
    Lags,       \* ticks between a call's clock reading and its lock
    AgeCap      \* evidence older than this is as old as any

ASSUME IncidentConfigsAssumption ==
    /\ IncidentConfigs # {}
    /\ \A c \in IncidentConfigs :
         /\ c.threshold \in Nat \ {0, 1}
         /\ c.window \in Nat \ {0} /\ c.cooldown \in Nat \ {0}

ASSUME LagsAssumption ==
    /\ Lags \subseteq Nat /\ 0 \in Lags
    /\ AgeCap \in Nat
    /\ \A c \in IncidentConfigs, at \in Lags : c.window + at < AgeCap

ASSUME ReportersAssumption == IsFiniteSet(Reporters)

VARIABLES
    circuit,    \* Manager.providers; an entry's fails field is Evidence
    evidence,   \* Manager.providerEvidence: age of each reporter's failure
    incident,   \* providerThreshold, providerWindow, providerCooldown
    reported    \* history: age of the latest failure each reporter sent
                \* since the circuit last accepted a success

circuits == <<circuit, evidence, incident, reported>>

NoEvidence == -1

NoReports == [r \in Reporters |-> NoEvidence]

CircuitInit ==
    /\ circuit = [p \in Providers |-> NoEntry]
    /\ evidence = [p \in Providers |-> NoReports]
    /\ incident \in IncidentConfigs
    /\ reported = [p \in Providers |-> NoReports]

----------------------------------------------------------------------------
(* The methods as functions of one circuit, as of the clock they read *)

normalizeProviderState(c) ==
    IF c.status = Cooldown /\ Passed(c.until)
    THEN Entry(HalfOpen, 0, NoDeadline)
    ELSE c

Witnesses(ev) == {r \in Reporters : ev[r] # NoEvidence}

(* The evidence after dropping what is older than the window, measured     *)
(* from a clock reading at ticks ago, and adding a failure of r then.      *)
Corroborated(ev, r, at) ==
    [q \in Reporters |->
        IF q = r THEN at
        ELSE IF ev[q] - at > incident.window THEN NoEvidence ELSE ev[q]]

(* Only r has failed. *)
OnlyWitness(r, at) == [q \in Reporters |-> IF q = r THEN at ELSE NoEvidence]

EvidenceAfterFailure(c, ev, r, at) ==
    LET q == normalizeProviderState(c) IN
    IF Cooling(q) THEN ev
    ELSE IF q.status = HalfOpen THEN OnlyWitness(r, at)
    ELSE Corroborated(ev, r, at)

(* Slip: one deployment's repeated failures count as corroboration. *)
CircuitCountsRepeats(c, ev, r, at) ==
    LET q == normalizeProviderState(c)
        n == q.fails + 1
    IN  IF Cooling(q) THEN q
        ELSE IF q.status = HalfOpen THEN Entry(Cooldown, 1, incident.cooldown)
        ELSE IF n >= incident.threshold THEN Entry(Cooldown, n, incident.cooldown)
        ELSE Entry(Degraded, n, NoDeadline)

CircuitAfterFailure(c, ev, r, at) ==
    LET q == normalizeProviderState(c)
        n == Cardinality(Witnesses(Corroborated(ev, r, at)))
    IN  IF Cooling(q) THEN q
        ELSE IF q.status = HalfOpen THEN Entry(Cooldown, 1, incident.cooldown)
        ELSE IF n >= incident.threshold THEN Entry(Cooldown, n, incident.cooldown)
        ELSE Entry(Degraded, n, NoDeadline)

(* Slip: a success that started before the circuit opened closes it. *)
CircuitClosedByLateSuccess(c) == Entry(Healthy, 0, NoDeadline)

CircuitAfterSuccess(c) ==
    IF Cooling(c) THEN c ELSE Entry(Healthy, 0, NoDeadline)

(* Slip: the evidence of the incident that ended stays behind. *)
EvidenceSurvivesSuccess(c, ev) == ev

EvidenceAfterSuccess(c, ev) == IF Cooling(c) THEN ev ELSE NoReports

(* What a call that read the clock at ticks ago takes a deadline to be; a  *)
(* passed deadline may have been ahead, or just reached, at that reading.  *)
SeenAs(u, at) ==
    IF u >= 0 THEN {u + at}
    ELSE IF u = NoDeadline THEN {u}
    ELSE {-1} \cup 0..(at - 1)

SeenCircuits(c, at) == {[c EXCEPT !.until = u] : u \in SeenAs(c.until, at)}

(* An entry computed as of at ticks ago, as it stands now. *)
BroughtForward(c, at) ==
    [c EXCEPT !.until = IF @ = NoDeadline THEN @ ELSE IF @ - at < -1 THEN -1 ELSE @ - at]

----------------------------------------------------------------------------
ProviderAvailable(p) ==
    /\ circuit' = [circuit EXCEPT ![p] = normalizeProviderState(@)]
    /\ UNCHANGED <<evidence, incident, reported>>

ProviderSnapshot ==
    /\ circuit' = [p \in Providers |-> normalizeProviderState(circuit[p])]
    /\ UNCHANGED <<evidence, incident, reported>>

RecordProviderFailure(p, r) ==
    \E at \in Lags : \E c \in SeenCircuits(circuit[p], at) :
        /\ circuit' = [circuit EXCEPT ![p] =
               BroughtForward(CircuitAfterFailure(c, evidence[p], r, at), at)]
        /\ evidence' = [evidence EXCEPT ![p] = EvidenceAfterFailure(c, @, r, at)]
        /\ reported' = [reported EXCEPT ![p][r] = IF @ \in 0..at THEN @ ELSE at]
        /\ UNCHANGED incident

RecordProviderSuccess(p) ==
    \E at \in Lags : \E c \in SeenCircuits(circuit[p], at) :
        /\ circuit' = [circuit EXCEPT ![p] = BroughtForward(CircuitAfterSuccess(c), at)]
        /\ evidence' = [evidence EXCEPT ![p] = EvidenceAfterSuccess(c, @)]
        /\ reported' = [reported EXCEPT ![p] = IF Cooling(c) THEN @ ELSE NoReports]
        /\ UNCHANGED incident

(* Also RetainProviders, for each provider a reload drops. *)
InvalidateProvider(p) ==
    /\ circuit' = [circuit EXCEPT ![p] = NoEntry]
    /\ evidence' = [evidence EXCEPT ![p] = NoReports]
    /\ reported' = [reported EXCEPT ![p] = NoReports]
    /\ UNCHANGED incident

ConfigureProviderIncidents(c) ==
    /\ incident' = c
    /\ UNCHANGED <<circuit, evidence, reported>>

Older(age) == IF age = NoEvidence \/ age = AgeCap THEN age ELSE age + 1

CircuitTick ==
    /\ circuit' = [p \in Providers |-> Aged(circuit[p])]
    /\ evidence' = [p \in Providers |-> [r \in Reporters |-> Older(evidence[p][r])]]
    /\ reported' = [p \in Providers |-> [r \in Reporters |-> Older(reported[p][r])]]
    /\ UNCHANGED incident

CircuitNext ==
    \/ \E p \in Providers :
         \/ ProviderAvailable(p)
         \/ \E r \in Reporters : RecordProviderFailure(p, r)
         \/ RecordProviderSuccess(p)
         \/ InvalidateProvider(p)
    \/ ProviderSnapshot
    \/ \E c \in IncidentConfigs : ConfigureProviderIncidents(c)
    \/ CircuitTick

CircuitSpec == CircuitInit /\ [][CircuitNext]_circuits

----------------------------------------------------------------------------
(* Properties *)

(* The Evidence count the circuit reports and decides on is the number of  *)
(* deployments in its evidence map, and a provider that is healthy or new  *)
(* starts its next incident from no evidence: providers and                *)
(* providerEvidence are separate maps, updated by different paths.         *)
EvidenceMatchesCircuit ==
    \A p \in Providers :
        /\ circuit[p].status \in {Degraded, Cooldown} =>
              circuit[p].fails = Cardinality(Witnesses(evidence[p]))
        /\ circuit[p].status \in {NoStatus, Healthy} => Witnesses(evidence[p]) = {}

(* Was this circuit due for a half-open trial? *)
OnTrial(c) == c.status = HalfOpen \/ (c.status = Cooldown /\ Passed(c.until))

(* Reporters whose last failure is inside the window of a call as old as   *)
(* any that may be in flight.                                              *)
RecentReporters(reports) ==
    {r \in Reporters : /\ reports[r] # NoEvidence
                       /\ \E at \in Lags : reports[r] - at <= incident.window}

(* One noisy deployment never takes its provider down: unless the provider *)
(* is on its half-open trial, its circuit opens only when at least         *)
(* providerThreshold different deployments failed inside the window, all   *)
(* of them since the last success the circuit accepted.                    *)
OpensOnlyOnCorroboration ==
    [][\A p \in Providers :
          /\ ~Cooling(circuit[p]) /\ Cooling(circuit'[p])
          /\ ~OnTrial(circuit[p])
          => Cardinality(RecentReporters(reported'[p])) >= incident.threshold]_circuits

(* An open provider circuit outlives results that were in flight when it   *)
(* opened, also those that read the clock before and were applied after:   *)
(* short of a reload, only the clock brings its deadline nearer.           *)
LateResultsKeepCircuitOpen ==
    [][\A p \in Providers :
          Cooling(circuit[p]) /\ ~InvalidateProvider(p)
             => circuit'[p].status = Cooldown /\ circuit'[p].until >= circuit[p].until - 1]_circuits

============================================================================
