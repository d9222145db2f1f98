--------------------------- MODULE RecoveryEngine ---------------------------
(***************************************************************************)
(* The ready-mesh supervision loop: requests, the periodic sweep and the   *)
(* recovery workers of internal/probe/engine.go, all reporting to the      *)
(* health manager, while upstreams fail and recover and the configuration  *)
(* is reloaded under them.                                                 *)
(*                                                                         *)
(* The bookkeeping of recovery tasks is RecoverySupervisor; its actions    *)
(* are conjoined here with what the worker does to health.  Between two    *)
(* calls into the health manager, or into the supervisor's maps, any other *)
(* goroutine may run, so every such call is a step of its own.             *)
(*                                                                         *)
(* Left to other modules: provider circuits (ProviderCircuit) and the      *)
(* probe concurrency limit (ProbeSlots).  Timers may fire at any moment    *)
(* after they are armed.                                                   *)
(***************************************************************************)
EXTENDS RecoverySupervisor, HealthState

CONSTANTS
    Requests,           \* client requests in flight at one time
    Attempts,           \* probe.recovery_attempts
    Threshold,          \* probe.recovery_success_threshold
    RecoveryCooldown,   \* probe.recovery_cooldown_seconds, in ticks
    SweepsEnabled,      \* probe.enabled
    ReloadKinds,        \* the kinds of hot reload that happen
    MaxReloads          \* bound on the number of reloads

ASSUME EngineAssumption ==
    /\ Attempts \in Nat \ {0} /\ Threshold \in 1..Attempts
    /\ RecoveryCooldown \in Nat \ {0}
    /\ SweepsEnabled \in BOOLEAN
    /\ ReloadKinds \subseteq {"identity", "strategy", "remove", "add"}
    /\ MaxReloads \in Nat
    /\ Progress = [attempt : 1..Attempts, successes : 0..Threshold]
    /\ FirstTry = [attempt |-> 1, successes |-> 0]

VARIABLES
    state,      \* health.Manager.states
    ready,      \* the strategy in force has a supervisor
    configured, \* the deployments of the configuration in force
    probe,      \* what a worker at its task is about to do, and whether its
                \* probe went to the deployment's present identity
    req,        \* each request's progress
    job,        \* the sweep's progress with each deployment
    settled,    \* the upstream has stopped failing
    proven,     \* history: the last success recorded for a deployment was
                \* observed on its present identity
    spent,      \* history: the probes a recovery spent since its last cooldown,
                \* and how many of them passed
    reloads     \* reloads so far

health == <<state, proven>>
config == <<ready, configured, reloads>>
vars == <<supervisor, health, config, probe, req, job, settled, spent>>

Off == [at |-> "off"]

Nothing == [tries |-> 0, passes |-> 0]

Init ==
    /\ SupervisorInit
    /\ state = [d \in Deployments |-> NoEntry]
    /\ ready \in BOOLEAN
    /\ configured \in SUBSET Deployments
    /\ probe = [w \in Workers |-> Off]
    /\ req = [r \in Requests |-> Off]
    /\ job = [d \in Deployments |-> Off]
    /\ settled = [d \in Deployments |-> FALSE]
    /\ proven = [d \in Deployments |-> FALSE]
    /\ spent = [d \in Deployments |-> Nothing]
    /\ reloads = 0

Become(d, s) == state' = [state EXCEPT ![d] = s]

Get(d) == normalizeGlobal(state[d])

(* hm.RecordSuccess with evidence that is fresh or not. *)
RecordSuccess(d, fresh) ==
    LET s == AfterRecordSuccess(state[d]) IN
    /\ Become(d, s)
    /\ proven' = [proven EXCEPT ![d] = IF s.status = Healthy THEN fresh ELSE @]

----------------------------------------------------------------------------
(* processRecoveryTask *)

Working(w, at) == worker[w].step = "work" /\ probe[w].at = at

(* What a probe or a request to d can come to: an upstream that has not    *)
(* settled answers well or badly, each time anew.  The answer and the call *)
(* that records it are one step: nothing reads the answer in between.      *)
Outcomes(d, bad) == IF settled[d] THEN {"ok"} ELSE {"ok"} \cup bad

TaskOf(w) == worker[w].task

At(w, at) == probe' = [probe EXCEPT ![w] = [at |-> at, fresh |-> TRUE]]

Done(w) == probe' = [probe EXCEPT ![w] = Off]

(* The history of the recovery under way; tasks of an abandoned one leave  *)
(* it alone.                                                               *)
Spent(w, change) ==
    IF isCurrentRecovery(TaskOf(w))
    THEN spent' = [spent EXCEPT ![TaskOf(w).id] = change]
    ELSE UNCHANGED spent

NewCycle(w) == Spent(w, Nothing)

Spend(w, passed) ==
    LET s == spent[TaskOf(w).id] IN
    Spent(w, [tries |-> s.tries + 1, passes |-> s.passes + passed])

(* Is there anything left to recover, and is it time to probe? *)
LookFor(w, supervised) ==
    LET d == TaskOf(w).id IN
    /\ Working(w, "off")
    /\ IF supervised /\ d \in configured
       THEN /\ Become(d, Get(d))
            /\ \/ /\ Get(d).status \in {Retired, Healthy}
                  /\ GiveUp(w) /\ Done(w) /\ UNCHANGED spent
               \/ /\ Cooling(Get(d))
                  /\ Again(w, FirstTry, TRUE) /\ Done(w) /\ NewCycle(w)
               \/ /\ Get(d).status \notin {Retired, Healthy} /\ ~Cooling(Get(d))
                  /\ At(w, "probe") /\ UNCHANGED <<supervisor, spent>>
       ELSE GiveUp(w) /\ Done(w) /\ UNCHANGED <<state, spent>>
    /\ UNCHANGED <<proven, config, req, job, settled>>

(* Slip: recovery goes on under a strategy that has no supervisor. *)
LookWhateverStrategy(w) == LookFor(w, TRUE)

Look(w) == LookFor(w, ready)

(* The deployment is resolved again and the probe sent. *)
SendProbe(w) ==
    /\ Working(w, "probe")
    /\ IF TaskOf(w).id \in configured
       THEN At(w, "sent") /\ UNCHANGED supervisor
       ELSE GiveUp(w) /\ Done(w)
    /\ UNCHANGED <<health, config, req, job, settled, spent>>

(* Slip: the attempt is not counted. *)
CountedForFree(w, success) ==
    [TaskOf(w).progress EXCEPT !.successes = IF success THEN @ + 1 ELSE @]

Counted(w, success) ==
    LET p == TaskOf(w).progress
        n == IF success THEN p.successes + 1 ELSE p.successes
    IN  [attempt |-> p.attempt + 1, successes |-> n]

(* After a probe that did not end the cycle: another attempt, or, when the *)
(* attempts are used up, the recovery cooldown.  The retry delay may be 0. *)
Retry(w, success) ==
    IF TaskOf(w).progress.attempt < Attempts
    THEN \E delayed \in BOOLEAN : Again(w, Counted(w, success), delayed) /\ Done(w)
    ELSE At(w, "exhausted") /\ UNCHANGED supervisor

Answered(w, outcome) ==
    Working(w, "sent") /\ outcome \in Outcomes(TaskOf(w).id, {"failed", "deferred"})

ProbePassed(w) ==
    LET d == TaskOf(w).id IN
    /\ Answered(w, "ok")
    /\ IF TaskOf(w).progress.successes + 1 >= Threshold
       THEN RecordSuccess(d, probe[w].fresh) /\ GiveUp(w) /\ Done(w)
       ELSE /\ Become(d, AfterRecordRecoverySuccess(state[d]))
            /\ Retry(w, TRUE) /\ UNCHANGED proven
    /\ Spend(w, 1)
    /\ UNCHANGED <<config, req, job, settled>>

ProbeFailed(w) ==
    /\ Answered(w, "failed")
    /\ Become(TaskOf(w).id, AfterRecordProbeFailure(state[TaskOf(w).id]))
    /\ Retry(w, FALSE)
    /\ Spend(w, 0)
    /\ UNCHANGED <<proven, config, req, job, settled>>

(* A rate-limited credential is a wait, and costs no attempt.  Slip: the   *)
(* worker does not return after it has scheduled the task again.           *)
ProbeDeferredTwice(w) ==
    /\ Answered(w, "deferred")
    /\ Again(w, TaskOf(w).progress, TRUE)
    /\ UNCHANGED <<health, config, probe, req, job, settled, spent>>

ProbeDeferred(w) ==
    /\ Answered(w, "deferred")
    /\ Again(w, TaskOf(w).progress, TRUE) /\ Done(w)
    /\ UNCHANGED <<health, config, req, job, settled, spent>>

CoolDownThen(w, p) ==
    LET d == TaskOf(w).id IN
    /\ Working(w, "exhausted")
    /\ Become(d, AfterEnterCooldown(state[d], RecoveryCooldown))
    /\ Again(w, p, TRUE) /\ Done(w) /\ NewCycle(w)
    /\ UNCHANGED <<proven, config, req, job, settled>>

(* Slip: the next cycle starts with the successes of this one. *)
CooldownKeepsSuccesses(w) ==
    CoolDownThen(w, [TaskOf(w).progress EXCEPT !.attempt = 1])

enterRecoveryCooldown(w) == CoolDownThen(w, FirstTry)

Bookkeeping(w) ==
    /\ \/ TakeTask(w) \/ CheckTask(w)
       \/ WorkerClear(w) \/ WorkerSchedule(w) \/ WorkerEnqueue(w) \/ WorkerSend(w)
    /\ UNCHANGED <<health, config, probe, req, job, settled, spent>>

WorkerStep(w) ==
    \/ Bookkeeping(w)
    \/ Look(w) \/ SendProbe(w)
    \/ ProbePassed(w) \/ ProbeFailed(w) \/ ProbeDeferred(w) \/ enterRecoveryCooldown(w)

HandStep(d) ==
    /\ \E h \in hands : h.task.id = d /\ (HandEnqueue(h) \/ HandClear(h))
    /\ UNCHANGED <<health, config, probe, req, job, settled, spent>>

TimerStep(d) ==
    /\ \E c \in callbacks : c.task.id = d /\ (TimerStart(c) \/ TimerRun(c))
    /\ UNCHANGED <<health, config, probe, req, job, settled, spent>>

----------------------------------------------------------------------------
(* Engine.Recover, called by a request or by the sweep: a look at the      *)
(* health of the deployment, then the mark.                                *)

CheckRetired(d) ==
    /\ Become(d, Get(d))
    /\ UNCHANGED <<supervisor, proven, config, probe, settled, spent>>

Mark(d) ==
    /\ Recover(d)
    /\ spent' = [spent EXCEPT ![d] = IF gen[d] = None THEN Nothing ELSE @]
    /\ UNCHANGED <<health, config, probe, settled>>

(* A failure without a supervisor: its status decides between a hard       *)
(* cooldown and one failure towards the breaker.                           *)
Unsupervised(d) ==
    \/ Become(d, AfterForceCooldown(state[d], RecoveryCooldown))
    \/ Become(d, AfterRecordFailure(state[d], FailCap, RecoveryCooldown))

----------------------------------------------------------------------------
(* One attempt of a client request *)

ReqAt(r, at) == req' = [req EXCEPT ![r].at = at]

Eligible(s) ==
    IF ready THEN s.status = Healthy ELSE s.status \notin {Cooldown, Retired}

(* currentRouteCandidate, then the upstream call.  The request keeps the   *)
(* strategy of the configuration it started with.                          *)
SendRequest(r, d) ==
    /\ req[r].at = "off" /\ d \in configured /\ Eligible(Get(d))
    /\ Become(d, Get(d))
    /\ req' = [req EXCEPT ![r] = [at |-> "sent", id |-> d, ready |-> ready, fresh |-> TRUE]]
    /\ UNCHANGED <<supervisor, proven, config, probe, job, settled, spent>>

Response(r, outcome) ==
    req[r].at = "sent" /\ outcome \in Outcomes(req[r].id, {"failed", "retired"})

(* recordRouteSuccess *)
RequestSucceeded(r) ==
    /\ Response(r, "ok")
    /\ RecordSuccess(req[r].id, req[r].fresh)
    /\ req' = [req EXCEPT ![r] = Off]
    /\ UNCHANGED <<supervisor, config, probe, job, settled, spent>>

(* A transport failure or a failing status: out of the ready set and over  *)
(* to the supervisor, if the strategy has one.                             *)
RequestFailed(r) ==
    LET d == req[r].id IN
    /\ Response(r, "failed")
    /\ IF req[r].ready
       THEN Become(d, AfterQuarantine(state[d])) /\ ReqAt(r, "check")
       ELSE Unsupervised(d) /\ req' = [req EXCEPT ![r] = Off]
    /\ UNCHANGED <<supervisor, proven, config, probe, job, settled, spent>>

(* The client went away, or the failure is not the deployment's. *)
RequestBlamesNobody(r) ==
    /\ Response(r, "failed")
    /\ req' = [req EXCEPT ![r] = Off]
    /\ UNCHANGED <<supervisor, health, config, probe, job, settled, spent>>

(* The upstream says the model is retired. *)
ModelRetired(r) ==
    /\ Response(r, "retired")
    /\ Become(req[r].id, AfterRetire(state[req[r].id]))
    /\ req' = [req EXCEPT ![r] = Off]
    /\ UNCHANGED <<supervisor, proven, config, probe, job, settled, spent>>

RequestRecovers(r) ==
    \/ /\ req[r].at = "check" /\ CheckRetired(req[r].id)
       /\ req' = [req EXCEPT ![r] = IF Get(@.id).status = Retired
                                     THEN Off ELSE [@ EXCEPT !.at = "mark"]]
       /\ UNCHANGED job
    \/ /\ req[r].at = "mark" /\ Mark(req[r].id)
       /\ req' = [req EXCEPT ![r] = Off] /\ UNCHANGED job

RequestStep(r) ==
    \/ RequestSucceeded(r) \/ RequestFailed(r) \/ RequestBlamesNobody(r)
    \/ ModelRetired(r) \/ RequestRecovers(r)

----------------------------------------------------------------------------
(* runOnce: the periodic sweep, or one an operator forces *)

JobAt(d, at) == job' = [job EXCEPT ![d].at = at]

JobOff(d) == job' = [job EXCEPT ![d] = Off]

(* All deployments and their states are read first, under no common lock;  *)
(* the probes of the sweep use the deployments read here.                  *)
SweepStart(force) ==
    /\ SweepsEnabled \/ force
    /\ \A d \in Deployments : job[d] = Off
    /\ state' = [d \in Deployments |-> IF d \in configured THEN Get(d) ELSE state[d]]
    /\ job' = [d \in Deployments |->
           IF d \in configured
           THEN [at |-> "seen", status |-> Get(d).status, ready |-> ready,
                 force |-> force, fresh |-> TRUE]
           ELSE Off]
    /\ UNCHANGED <<supervisor, proven, config, probe, req, settled, spent>>

(* What the sweep leaves to the recovery supervisor. *)
Supervised(j) ==
    j.ready /\ ~j.force /\ j.status \in {Cooldown, Degraded, HalfOpen}

(* What it skips: retired models, cooling ones, and those under recovery.  *)
Skipped(d) ==
    \/ job[d].status = Retired
    \/ job[d].status = Cooldown
    \/ job[d].ready /\ gen[d] # None

JobDecide(d) ==
    /\ job[d].at = "seen"
    /\ IF Supervised(job[d]) THEN JobAt(d, "check")
       ELSE IF Skipped(d) THEN JobOff(d)
       ELSE \/ JobAt(d, "probing")
            \/ /\ job[d].status = Healthy /\ job[d].ready /\ ~job[d].force
               /\ JobOff(d)         \* the ready lease has not expired
    /\ UNCHANGED <<supervisor, health, config, probe, req, settled, spent>>

JobPassed(d) ==
    /\ job[d].at = "probing"
    /\ RecordSuccess(d, job[d].fresh)
    /\ JobOff(d)
    /\ UNCHANGED <<supervisor, config, probe, req, settled, spent>>

JobFailed(d) ==
    /\ job[d].at = "probing" /\ ~settled[d]
    /\ IF job[d].ready
       THEN Become(d, AfterQuarantine(state[d])) /\ JobAt(d, "failedID")
       ELSE Unsupervised(d) /\ JobOff(d)
    /\ UNCHANGED <<supervisor, proven, config, probe, req, settled, spent>>

(* After wg.Wait: every probe of the sweep has been recorded. *)
JobHandedOver(d) ==
    /\ job[d].at = "failedID"
    /\ \A e \in Deployments : job[e].at \in {"off", "failedID", "check", "mark"}
    /\ JobAt(d, "check")
    /\ UNCHANGED <<supervisor, health, config, probe, req, settled, spent>>

JobRecovers(d) ==
    \/ /\ job[d].at = "check" /\ CheckRetired(d)
       /\ IF Get(d).status = Retired THEN JobOff(d) ELSE JobAt(d, "mark")
       /\ UNCHANGED req
    \/ /\ job[d].at = "mark" /\ Mark(d) /\ JobOff(d) /\ UNCHANGED req

JobStep(d) ==
    \/ JobDecide(d) \/ JobPassed(d) \/ JobFailed(d)
    \/ JobHandedOver(d) \/ JobRecovers(d)

----------------------------------------------------------------------------
(* applyConfigLocked: the registry, the router, health and the probe       *)
(* engine change under one lock.  Evidence under way is then about an      *)
(* identity the deployment no longer has.                                  *)

Outdated(d) ==
    /\ probe' = [w \in Workers |->
           IF worker[w].step = "work" /\ TaskOf(w).id = d
                /\ probe[w].at = "sent"
           THEN [probe[w] EXCEPT !.fresh = FALSE] ELSE probe[w]]
    /\ req' = [r \in Requests |->
           IF req[r].at # "off" /\ req[r].id = d THEN [req[r] EXCEPT !.fresh = FALSE] ELSE req[r]]
    /\ job' = [job EXCEPT ![d] = IF @.at # "off" THEN [@ EXCEPT !.fresh = FALSE] ELSE @]

Reloaded(kind) ==
    /\ kind \in ReloadKinds /\ reloads < MaxReloads
    /\ reloads' = reloads + 1

(* Another base URL, credential or upstream model: hm.Invalidate. *)
ReloadIdentity(d) ==
    /\ Reloaded("identity") /\ d \in configured
    /\ Become(d, Invalidated)
    /\ proven' = [proven EXCEPT ![d] = FALSE]
    /\ Outdated(d)
    /\ UNCHANGED <<supervisor, ready, configured, settled, spent>>

(* Leaving the ready strategies cancels every recovery. *)
ReloadStrategy ==
    /\ Reloaded("strategy")
    /\ ready' = ~ready
    /\ IF ready THEN cancelAllRecoveries ELSE UNCHANGED supervisor
    /\ UNCHANGED <<health, configured, probe, req, job, settled, spent>>

ReloadRemoves(d) ==
    /\ Reloaded("remove") /\ d \in configured
    /\ configured' = configured \ {d}
    /\ Become(d, NoEntry)
    /\ proven' = [proven EXCEPT ![d] = FALSE]
    /\ Outdated(d)
    /\ UNCHANGED <<supervisor, ready, settled, spent>>

ReloadAdds(d) ==
    /\ Reloaded("add") /\ d \notin configured
    /\ configured' = configured \cup {d}
    /\ Become(d, Invalidated)
    /\ proven' = [proven EXCEPT ![d] = FALSE]
    /\ Outdated(d)
    /\ UNCHANGED <<supervisor, ready, settled, spent>>

UpstreamSettles(d) ==
    /\ settled' = [settled EXCEPT ![d] = TRUE]
    /\ UNCHANGED <<supervisor, health, config, probe, req, job, spent>>

Tick ==
    /\ \E d \in Deployments : state[d].until >= 0
    /\ state' = [d \in Deployments |-> Aged(state[d])]
    /\ UNCHANGED <<supervisor, proven, config, probe, req, job, settled, spent>>

Next ==
    \/ \E w \in Workers : WorkerStep(w)
    \/ \E r \in Requests :
         RequestStep(r) \/ \E d \in Deployments : SendRequest(r, d)
    \/ \E d \in Deployments :
         \/ HandStep(d) \/ TimerStep(d) \/ JobStep(d)
         \/ ReloadIdentity(d) \/ ReloadRemoves(d) \/ ReloadAdds(d) \/ UpstreamSettles(d)
    \/ \E force \in BOOLEAN : SweepStart(force)
    \/ ReloadStrategy
    \/ Tick

(* Goroutines that can run do run, probes and requests have timeouts, the  *)
(* clock advances, and an enabled sweep is repeated by Run's timer.        *)
Fairness ==
    /\ \A w \in Workers : WF_vars(WorkerStep(w))
    /\ \A r \in Requests : WF_vars(RequestStep(r))
    /\ \A d \in Deployments :
         WF_vars(HandStep(d)) /\ WF_vars(TimerStep(d)) /\ WF_vars(JobStep(d))
    /\ WF_vars(SweepStart(FALSE))
    /\ WF_vars(Tick)

Spec == Init /\ [][Next]_vars /\ Fairness

----------------------------------------------------------------------------
(* Properties *)

RequestType ==
    [at : {"sent", "check", "mark"}, id : Deployments,
     ready : BOOLEAN, fresh : BOOLEAN]

JobType ==
    [at : {"seen", "probing", "failedID", "check", "mark"},
     status : Status, ready : BOOLEAN, force : BOOLEAN, fresh : BOOLEAN]

ProbeType ==
    [at : {"probe", "sent", "exhausted"}, fresh : BOOLEAN]

(* The engine's own state, and its supervisor's. *)
TypeOK ==
    /\ SupervisorTypeOK
    /\ \A d \in Deployments : state[d].status \in Status
    /\ ready \in BOOLEAN /\ configured \subseteq Deployments
    /\ probe \in [Workers -> ProbeType \cup {Off}]
    /\ req \in [Requests -> RequestType \cup {Off}]
    /\ job \in [Deployments -> JobType \cup {Off}]
    /\ \A w \in Workers : probe[w] # Off => worker[w].step = "work"

(* "recovery_attempts: supervisor probes per recovery cycle": however its  *)
(* task travels through queue, worker and timers, and however often it is  *)
(* deferred, a recovery spends at most Attempts probes before the          *)
(* deployment cools down or is re-admitted.                                *)
CycleIsBounded ==
    \A d \in Deployments : gen[d] # None => spent[d].tries <= Attempts

(* A recovery re-admits a deployment only after Threshold of its probes    *)
(* passed since the deployment last cooled down.                           *)
ReadmissionIsEarned ==
    [][\A w \in Workers : \A d \in Deployments :
        /\ Working(w, "sent") /\ TaskOf(w).id = d /\ isCurrentRecovery(TaskOf(w))
        /\ worker'[w] # worker[w]
        /\ state[d].status # Healthy /\ state'[d].status = Healthy
        => spent'[d].passes >= Threshold]_vars

Recoverable(d) == settled[d] /\ ready /\ d \in configured /\ state[d].status # Retired

(* Recovery terminates: a deployment whose upstream stays up, under a      *)
(* ready strategy and not retired, is healthy for good after some time,    *)
(* whatever failures, late results and reloads were under way before.      *)
RecoversWhenUpstreamStays ==
    \A d \in Deployments : <>[]Recoverable(d) => <>[](state[d].status = Healthy)

(* Recovery stops when there is nothing to recover: once a deployment is   *)
(* retired or removed for good, or the strategy has no supervisor, its     *)
(* mark goes away and no worker takes up its recovery again.               *)
RecoveryStops ==
    \A d \in Deployments :
        <>[](~ready \/ d \notin configured \/ state[d].status = Retired) => <>[](gen[d] = None)

(* "The recovery supervisor owns retry/cooldown until the deployment       *)
(* proves healthy again": between the handlers, a deployment that is       *)
(* quarantined under a ready strategy is under recovery.                   *)
Between(d) ==
    /\ \A r \in Requests : req[r].at \in {"check", "mark"} => req[r].id # d
    /\ job[d].at \notin {"failedID", "check", "mark"}

QuarantinedIsSupervised ==
    \A d \in Deployments :
        ready /\ state[d].status = Degraded /\ Between(d) => gen[d] # None

(* "Disabling probes under a ready strategy means a tripped deployment     *)
(* stays down until probes run again or the config changes": with sweeps   *)
(* disabled, nothing but a forced sweep, or the result of a request that   *)
(* was under way, re-admits it.                                            *)
TrippedStaysDownWithoutProbes ==
    [][\A d \in Deployments :
        ready /\ ~SweepsEnabled /\ state[d].status \in {Degraded, HalfOpen, Cooldown}
              /\ state'[d].status = Healthy => job' # job \/ req' # req]_vars

(* "Changing provider Base URL, credentials, ... or the upstream model ID  *)
(* invalidates the old health proof": under a ready strategy a healthy     *)
(* deployment was last found healthy under the identity it has now.        *)
HealthIsProven ==
    \A d \in Deployments : ready /\ state[d].status = Healthy => proven[d]

============================================================================
