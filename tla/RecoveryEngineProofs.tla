----------------------- MODULE RecoveryEngineProofs -----------------------
(***************************************************************************)
(* RecoveryEngine implements RecoverySupervisor: every step of a request,  *)
(* a sweep, a worker, a reload or the clock is a step of the supervisor's  *)
(* bookkeeping or leaves it alone.  That the counts a worker gives its     *)
(* task are within the supervisor's Progress needs the type of the tasks,  *)
(* so the refinement is proved together with the supervisor's invariant.   *)
(*                                                                         *)
(* CycleIsBounded and ReadmissionIsEarned rest on an account: the counts a *)
(* current task carries through queue, worker and timers are the probes    *)
(* its recovery has spent.  That one worker's spending does not falsify    *)
(* the account of another task needs OneCarrier, in the form the           *)
(* supervisor's invariant gives it.                                        *)
(***************************************************************************)
EXTENDS RecoveryEngine, RecoverySupervisorProofs

(* Zenon proves the steps that name no prover; those with arithmetic or *)
(* records name SMT.                                                    *)
USE ZenonT(30)

Entries == [status : Status, fails : 0..FailCap, until : Int]

StatesTyped == state \in [Deployments -> Entries]

(* A request under way is about a deployment. *)
RequestsTyped == req \in [Requests -> RequestType \cup {Off}]

JobsTyped == job \in [Deployments -> JobType \cup {Off}]

ConfigTyped == ready \in BOOLEAN /\ configured \subseteq Deployments

(* A worker has a probe under way only while it works on a task. *)
ProbesTyped ==
    /\ probe \in [Workers -> ProbeType \cup {Off}]
    /\ \A w \in Workers : probe[w] # Off => worker[w].step = "work"

(* What a task t says of its recovery is what the recovery has spent, if t *)
(* is current under the generations g: s is the history.                   *)
Accounts(g, s, t) ==
    g[t.id] = t.gen =>
        s[t.id] = [tries |-> t.progress.attempt - 1, passes |-> t.progress.successes]

(* A worker that has probed and not yet counted the probe in its task is   *)
(* about to clear it or to enter the recovery cooldown.                    *)
Owes(w) == worker[w].step \notin {"idle", "clear"} /\ probe[w].at # "exhausted"

Accounted ==
    /\ \A h \in hands : Accounts(gen, spent, h.task)
    /\ \A i \in Indices : Accounts(gen, spent, queue[i])
    /\ \A w \in Workers : Owes(w) => Accounts(gen, spent, worker[w].task)
    /\ \A c \in callbacks : Accounts(gen, spent, c.task)

SpentTyped == spent \in [Deployments -> [tries : Nat, passes : Nat]]

SpentInv == SpentTyped /\ Accounted /\ CycleIsBounded

EngineInv ==
    /\ SupervisorInv
    /\ StatesTyped /\ RequestsTyped /\ JobsTyped /\ ConfigTyped /\ ProbesTyped
    /\ SpentInv

----------------------------------------------------------------------------
(* The supervisor's part                                                   *)

(* The task a working worker holds is typed. *)
LEMMA WorkersTask ==
    ASSUME SupervisorTypeOK, NEW w \in Workers, worker[w].step = "work"
    PROVE  /\ TaskOf(w).id \in Deployments
           /\ TaskOf(w).progress \in [attempt : 1..Attempts, successes : 0..Threshold]
  BY EngineAssumption, SMTT(30) DEF SupervisorTypeOK, TaskOf, Holding, NoTask, Task

(* The counts after a probe that did not end the cycle are in range. *)
LEMMA CountedInRange ==
    ASSUME SupervisorTypeOK, NEW w \in Workers, worker[w].step = "work",
           TaskOf(w).progress.attempt < Attempts, NEW success \in BOOLEAN,
           success => TaskOf(w).progress.successes + 1 < Threshold
    PROVE  Counted(w, success) \in Progress
  <1> DEFINE p == TaskOf(w).progress
  <1>1. p.attempt \in 1..Attempts /\ p.successes \in 0..Threshold
    BY WorkersTask
  <1>2. Attempts \in Nat /\ Threshold \in Nat
    BY EngineAssumption, SMTT(30)
  <1> HIDE DEF p
  <1>3. p.attempt + 1 \in 1..Attempts
    BY <1>1, <1>2, SMTT(30) DEF p
  <1>4. (IF success THEN p.successes + 1 ELSE p.successes) \in 0..Threshold
    BY <1>1, <1>2, SMTT(30) DEF p
  <1>5. QED
    BY <1>3, <1>4, EngineAssumption DEF Counted, p

(* A retry puts the task back with counts in range, or only notes that the *)
(* attempts are used up.                                                   *)
LEMMA RetryIsSupervised ==
    ASSUME SupervisorTypeOK, NEW w \in Workers, worker[w].step = "work",
           NEW success \in BOOLEAN, Retry(w, success),
           success => TaskOf(w).progress.successes + 1 < Threshold
    PROVE  [SupervisorNext]_supervisor
  <1>1. CASE TaskOf(w).progress.attempt < Attempts
    <2>1. PICK delayed \in BOOLEAN : Again(w, Counted(w, success), delayed)
      BY <1>1 DEF Retry
    <2>2. QED
      BY <1>1, <2>1, CountedInRange DEF SupervisorNext
  <1>2. CASE ~(TaskOf(w).progress.attempt < Attempts)
    BY <1>2 DEF Retry
  <1>3. QED
    BY <1>1, <1>2

(* Each step of a worker is one of the supervisor's for that worker. *)
LEMMA WorkerIsSupervised ==
    ASSUME SupervisorTypeOK, NEW w \in Workers, WorkerStep(w)
    PROVE  [SupervisorNext]_supervisor
  <1>1. FirstTry \in Progress /\ Threshold \in Nat
    BY SupervisorAssumption, EngineAssumption, SMTT(30)
  <1>2. CASE Bookkeeping(w)
    BY <1>2 DEF Bookkeeping, SupervisorNext
  <1>3. CASE Look(w)
    <2>1. GiveUp(w) \/ Again(w, FirstTry, TRUE) \/ UNCHANGED supervisor
      BY <1>3 DEF Look, LookFor
    <2>2. QED
      BY <1>1, <2>1 DEF SupervisorNext
  <1>4. CASE SendProbe(w)
    BY <1>4 DEF SendProbe, SupervisorNext
  <1>5. CASE ProbePassed(w)
    <2>1. worker[w].step = "work" /\ TaskOf(w).progress.successes \in Nat
      BY <1>5, WorkersTask, SMTT(30) DEF ProbePassed, Answered, Working
    <2>2. GiveUp(w) \/ (Retry(w, TRUE) /\ TaskOf(w).progress.successes + 1 < Threshold)
      <3> DEFINE n == TaskOf(w).progress.successes
      <3>1. n + 1 >= Threshold \/ n + 1 < Threshold
        BY <1>1, <2>1, SMTT(30)
      <3>2. n + 1 >= Threshold => GiveUp(w)
        BY <1>5 DEF ProbePassed
      <3>3. ~(n + 1 >= Threshold) => Retry(w, TRUE)
        BY <1>5 DEF ProbePassed
      <3>4. QED
        BY <3>1, <3>2, <3>3
    <2>3. QED
      BY <2>1, <2>2, RetryIsSupervised DEF SupervisorNext
  <1>6. CASE ProbeFailed(w)
    <2>1. worker[w].step = "work" /\ Retry(w, FALSE)
      BY <1>6 DEF ProbeFailed, Answered, Working
    <2>2. QED
      BY <2>1, RetryIsSupervised
  <1>7. CASE ProbeDeferred(w)
    <2>1. worker[w].step = "work" /\ Again(w, TaskOf(w).progress, TRUE)
      BY <1>7 DEF ProbeDeferred, Answered, Working
    <2>2. TaskOf(w).progress \in Progress
      BY <2>1, WorkersTask, EngineAssumption
    <2>3. QED
      BY <2>1, <2>2 DEF SupervisorNext
  <1>8. CASE enterRecoveryCooldown(w)
    BY <1>1, <1>8 DEF enterRecoveryCooldown, CoolDownThen, SupervisorNext
  <1>9. QED
    BY <1>2, <1>3, <1>4, <1>5, <1>6, <1>7, <1>8 DEF WorkerStep

(* Requests and sweeps touch the bookkeeping only by Recover. *)
LEMMA RequestIsSupervised ==
    ASSUME NEW r \in Requests, RequestStep(r) \/ \E d \in Deployments : SendRequest(r, d),
           RequestsTyped
    PROVE  [SupervisorNext]_supervisor
  BY SMTT(30) DEF RequestsTyped, RequestType, Off,
         RequestStep, SendRequest, RequestSucceeded, RequestFailed, RequestBlamesNobody,
         ModelRetired, RequestRecovers, CheckRetired, Mark, Response, SupervisorNext

(* The same of the sweep. *)
LEMMA JobIsSupervised ==
    ASSUME NEW d \in Deployments, JobStep(d)
    PROVE  [SupervisorNext]_supervisor
  BY DEF JobStep, JobDecide, JobPassed, JobFailed, JobHandedOver, JobRecovers,
         CheckRetired, Mark, SupervisorNext

(* Reloads, the clock and the upstream: only cancelAllRecoveries. *)
LEMMA OthersAreSupervised ==
    ASSUME NEW d \in Deployments,
           \/ HandStep(d) \/ TimerStep(d)
           \/ ReloadIdentity(d) \/ ReloadRemoves(d) \/ ReloadAdds(d) \/ ReloadStrategy
           \/ UpstreamSettles(d) \/ Tick \/ SweepStart(TRUE) \/ SweepStart(FALSE)
    PROVE  [SupervisorNext]_supervisor
  BY DEF HandStep, TimerStep, ReloadIdentity, ReloadRemoves, ReloadAdds, ReloadStrategy,
         UpstreamSettles, Tick, SweepStart, SupervisorNext

(* Every step of the engine is a step of the supervisor or none. *)
LEMMA EngineStepIsSupervised ==
    ASSUME EngineInv, [Next]_vars
    PROVE  [SupervisorNext]_supervisor
  <1> USE DEF EngineInv, SupervisorInv
  <1>1. CASE \E w \in Workers : WorkerStep(w)
    BY <1>1, WorkerIsSupervised
  <1>2. CASE \E r \in Requests : RequestStep(r) \/ \E d \in Deployments : SendRequest(r, d)
    BY <1>2, RequestIsSupervised
  <1>3. CASE \E d \in Deployments : JobStep(d)
    BY <1>3, JobIsSupervised
  <1>4. CASE \E d \in Deployments :
               \/ HandStep(d) \/ TimerStep(d) \/ ReloadIdentity(d) \/ ReloadRemoves(d)
               \/ ReloadAdds(d) \/ UpstreamSettles(d)
    BY <1>4, OthersAreSupervised
  <1>5. CASE ReloadStrategy
    BY <1>5 DEF ReloadStrategy, SupervisorNext
  <1>6. CASE Tick \/ \E force \in BOOLEAN : SweepStart(force)
    BY <1>6 DEF Tick, SweepStart
  <1>7. CASE UNCHANGED vars
    BY <1>7 DEF vars
  <1>8. QED
    BY <1>1, <1>2, <1>3, <1>4, <1>5, <1>6, <1>7 DEF Next

(* No step makes a request be about anything but a deployment. *)
LEMMA RequestsStayTyped ==
    ASSUME EngineInv, [Next]_vars
    PROVE  RequestsTyped'
  <1> USE DEF EngineInv, RequestsTyped, RequestType, Off
  <1>1. CASE \E w \in Workers : WorkerStep(w)
    BY <1>1 DEF WorkerStep, Bookkeeping, Look, LookFor, SendProbe, ProbePassed, ProbeFailed,
                ProbeDeferred, enterRecoveryCooldown, CoolDownThen
  <1>2. ASSUME NEW r \in Requests, RequestStep(r) \/ \E d \in Deployments : SendRequest(r, d)
        PROVE  RequestsTyped'
    <2>1. CASE RequestSucceeded(r) \/ RequestBlamesNobody(r) \/ ModelRetired(r)
      BY <2>1 DEF RequestSucceeded, RequestBlamesNobody, ModelRetired
    <2>2. CASE RequestFailed(r)
      <3>1. req[r] \in RequestType
        BY <2>2, SMTT(30) DEF RequestFailed, Response
      <3>2. [req[r] EXCEPT !.at = "check"] \in RequestType
        BY <3>1
      <3>3. \/ req' = [req EXCEPT ![r] = [req[r] EXCEPT !.at = "check"]]
            \/ req' = [req EXCEPT ![r] = Off]
        BY <2>2 DEF RequestFailed, ReqAt
      <3>4. QED
        BY <3>2, <3>3
    <2>3. CASE RequestRecovers(r)
      <3>1. req[r] \in RequestType
        BY <2>3, SMTT(30) DEF RequestRecovers
      <3>2. [req[r] EXCEPT !.at = "mark"] \in RequestType
        BY <3>1
      <3>3. \/ req' = [req EXCEPT ![r] = [req[r] EXCEPT !.at = "mark"]]
            \/ req' = [req EXCEPT ![r] = Off]
        BY <2>3 DEF RequestRecovers
      <3>4. QED
        BY <3>2, <3>3
    <2>4. ASSUME NEW d \in Deployments, SendRequest(r, d) PROVE RequestsTyped'
      <3>1. ready \in BOOLEAN
        BY DEF ConfigTyped
      <3>2. [at |-> "sent", id |-> d, ready |-> ready, fresh |-> TRUE] \in RequestType
        BY <3>1
      <3>3. QED
        BY <2>4, <3>2 DEF SendRequest
    <2>5. QED
      BY <1>2, <2>1, <2>2, <2>3, <2>4 DEF RequestStep
  <1>3. CASE \E d \in Deployments : JobStep(d)
    BY <1>3 DEF JobStep, JobDecide, JobPassed, JobFailed, JobHandedOver, JobRecovers
  <1>4. ASSUME NEW d \in Deployments,
               \/ HandStep(d) \/ TimerStep(d) \/ ReloadIdentity(d) \/ ReloadRemoves(d)
               \/ ReloadAdds(d) \/ UpstreamSettles(d)
        PROVE  RequestsTyped'
    <2>1. CASE HandStep(d) \/ TimerStep(d) \/ UpstreamSettles(d)
      BY <2>1 DEF HandStep, TimerStep, UpstreamSettles
    <2>2. CASE Outdated(d)
      <3>1. \A r \in Requests :
               req[r].at # "off" => [req[r] EXCEPT !.fresh = FALSE] \in RequestType
        <4> SUFFICES ASSUME NEW r \in Requests, req[r].at # "off"
                     PROVE  [req[r] EXCEPT !.fresh = FALSE] \in RequestType
          OBVIOUS
        <4>1. req[r] \in RequestType
          BY SMTT(30)
        <4>2. QED
          BY <4>1
      <3>2. QED
        BY <2>2, <3>1 DEF Outdated
    <2>3. QED
      BY <1>4, <2>1, <2>2 DEF ReloadIdentity, ReloadRemoves, ReloadAdds
  <1>5. CASE ReloadStrategy \/ Tick \/ \E force \in BOOLEAN : SweepStart(force)
    BY <1>5 DEF ReloadStrategy, Tick, SweepStart
  <1>6. CASE UNCHANGED vars
    BY <1>6 DEF vars
  <1>7. QED
    BY <1>1, <1>2, <1>3, <1>4, <1>5, <1>6 DEF Next

(* Nor does the configuration become anything but a strategy and a set of  *)
(* deployments.                                                            *)
LEMMA ConfigStaysTyped ==
    ASSUME EngineInv, [Next]_vars
    PROVE  ConfigTyped'
  BY DEF EngineInv, ConfigTyped, Next, vars, config,
         WorkerStep, Bookkeeping, Look, LookFor, SendProbe, ProbePassed, ProbeFailed,
         ProbeDeferred, enterRecoveryCooldown, CoolDownThen, HandStep, TimerStep,
         RequestStep, SendRequest, RequestSucceeded, RequestFailed, RequestBlamesNobody,
         ModelRetired, RequestRecovers, CheckRetired, Mark,
         JobStep, JobDecide, JobPassed, JobFailed, JobHandedOver, JobRecovers,
         ReloadIdentity, ReloadRemoves, ReloadAdds, ReloadStrategy, UpstreamSettles, Tick, SweepStart

----------------------------------------------------------------------------
(* Types                                                                   *)

LEMMA EntryTyped ==
    ASSUME NEW st \in Status, NEW n \in 0..FailCap, NEW u \in Int
    PROVE  Entry(st, n, u) \in Entries
  BY DEF Entry, Entries

(* Every method of the health manager that the engine calls makes an entry *)
(* of an entry.                                                            *)
LEMMA MethodsKeepEntries ==
    ASSUME NEW s \in Entries
    PROVE  /\ normalizeGlobal(s) \in Entries
           /\ AfterRecordSuccess(s) \in Entries
           /\ AfterRecordFailure(s, FailCap, RecoveryCooldown) \in Entries
           /\ AfterQuarantine(s) \in Entries
           /\ AfterRecordProbeFailure(s) \in Entries
           /\ AfterRecordRecoverySuccess(s) \in Entries
           /\ AfterEnterCooldown(s, RecoveryCooldown) \in Entries
           /\ AfterForceCooldown(s, RecoveryCooldown) \in Entries
           /\ AfterRetire(s) \in Entries
           /\ Aged(s) \in Entries
  <1>1. /\ s.status \in Status /\ s.fails \in 0..FailCap /\ s.until \in Int
        /\ Bump(s.fails) \in 0..FailCap /\ 0 \in 0..FailCap
        /\ RecoveryCooldown \in Int /\ NoDeadline \in Int
    BY FailCapAssumption, EngineAssumption, SMTT(30) DEF Entries, Bump, NoDeadline
  <1>2. {Healthy, Degraded, HalfOpen, Cooldown, Retired} \subseteq Status
    BY DEF Status
  <1>3. normalizeGlobal(s) \in Entries /\ AfterRecordSuccess(s) \in Entries
    BY <1>1, <1>2, EntryTyped DEF normalizeGlobal, AfterRecordSuccess
  <1>4. AfterRecordFailure(s, FailCap, RecoveryCooldown) \in Entries
    BY <1>1, <1>2, EntryTyped DEF AfterRecordFailure
  <1>5. /\ AfterQuarantine(s) \in Entries /\ AfterRecordProbeFailure(s) \in Entries
        /\ AfterRetire(s) \in Entries
    BY <1>1, <1>2, EntryTyped DEF AfterQuarantine, AfterRecordProbeFailure, AfterRetire
  <1>6. /\ AfterEnterCooldown(s, RecoveryCooldown) \in Entries
        /\ AfterForceCooldown(s, RecoveryCooldown) \in Entries
    BY <1>1, <1>2, EntryTyped DEF AfterEnterCooldown, AfterForceCooldown
  <1>7. AfterRecordRecoverySuccess(s) \in Entries
    BY <1>2 DEF AfterRecordRecoverySuccess, Entries
  <1>8. Aged(s) \in Entries
    BY SMTT(30) DEF Aged, Ticked, Entries
  <1>9. QED
    BY <1>3, <1>4, <1>5, <1>6, <1>7, <1>8

LEMMA FixedEntries == NoEntry \in Entries /\ Invalidated \in Entries
  BY FailCapAssumption, SMTT(30) DEF NoEntry, Invalidated, Entry, Entries, Status, NoDeadline

(* A step that writes one entry, or none, keeps the map typed. *)
LEMMA WriteEntry ==
    ASSUME state \in [Deployments -> Entries], NEW d \in Deployments, NEW s \in Entries,
           Become(d, s)
    PROVE  state' \in [Deployments -> Entries]
  BY DEF Become

(* The states after each step. *)
LEMMA StatesStayTyped ==
    ASSUME StatesTyped, RequestsTyped, SupervisorTypeOK, [Next]_vars
    PROVE  StatesTyped'
  <1> USE DEF StatesTyped
  <1> DEFINE Goal == StatesTyped'
  <1>0. /\ state \in [Deployments -> Entries]
        /\ \A d \in Deployments : state[d] \in Entries /\ Get(d) \in Entries
    BY MethodsKeepEntries DEF Get
  <1>1. ASSUME NEW w \in Workers, WorkerStep(w) PROVE Goal
    <2>0. worker[w].step = "work" => TaskOf(w).id \in Deployments
      BY WorkersTask
    <2>1. CASE Bookkeeping(w)
      BY <1>0, <2>1 DEF Bookkeeping, health
    <2>2. CASE Look(w)
      <3>1. UNCHANGED state \/ Become(TaskOf(w).id, Get(TaskOf(w).id))
        BY <2>2 DEF Look, LookFor
      <3>2. worker[w].step = "work"
        BY <2>2 DEF Look, LookFor, Working
      <3>3. QED
        BY <1>0, <2>0, <3>1, <3>2, WriteEntry
    <2>3. CASE SendProbe(w) \/ ProbeDeferred(w)
      BY <1>0, <2>3 DEF SendProbe, ProbeDeferred, health
    <2>4. CASE ProbePassed(w)
      <3>1. worker[w].step = "work"
        BY <2>4 DEF ProbePassed, Answered, Working
      <3>2. \/ Become(TaskOf(w).id, AfterRecordSuccess(state[TaskOf(w).id]))
            \/ Become(TaskOf(w).id, AfterRecordRecoverySuccess(state[TaskOf(w).id]))
        BY <2>4 DEF ProbePassed, RecordSuccess
      <3>3. QED
        BY <1>0, <2>0, <3>1, <3>2, MethodsKeepEntries, WriteEntry
    <2>5. CASE ProbeFailed(w)
      <3>1. worker[w].step = "work"
        BY <2>5 DEF ProbeFailed, Answered, Working
      <3>2. Become(TaskOf(w).id, AfterRecordProbeFailure(state[TaskOf(w).id]))
        BY <2>5 DEF ProbeFailed
      <3>3. QED
        BY <1>0, <2>0, <3>1, <3>2, MethodsKeepEntries, WriteEntry
    <2>6. CASE enterRecoveryCooldown(w)
      <3>1. worker[w].step = "work"
        BY <2>6 DEF enterRecoveryCooldown, CoolDownThen, Working
      <3>2. Become(TaskOf(w).id, AfterEnterCooldown(state[TaskOf(w).id], RecoveryCooldown))
        BY <2>6 DEF enterRecoveryCooldown, CoolDownThen
      <3>3. QED
        BY <1>0, <2>0, <3>1, <3>2, MethodsKeepEntries, WriteEntry
    <2>7. QED
      BY <1>1, <2>1, <2>2, <2>3, <2>4, <2>5, <2>6 DEF WorkerStep
  <1>2. ASSUME NEW d \in Deployments, Unsupervised(d) PROVE Goal
    BY <1>0, <1>2, MethodsKeepEntries, WriteEntry DEF Unsupervised
  <1>3. ASSUME NEW d \in Deployments, NEW r \in Requests, SendRequest(r, d) PROVE Goal
    BY <1>0, <1>3, WriteEntry DEF SendRequest
  <1>4. ASSUME NEW r \in Requests, RequestStep(r) PROVE Goal
    <2>0. req[r].at # "off" => req[r].id \in Deployments
      BY SMTT(30) DEF RequestsTyped, RequestType, Off
    <2>1. CASE RequestSucceeded(r)
      BY <1>0, <2>0, <2>1, MethodsKeepEntries, WriteEntry DEF RequestSucceeded, RecordSuccess, Response
    <2>2. CASE RequestFailed(r)
      <3>1. req[r].at # "off"
        BY <2>2 DEF RequestFailed, Response
      <3>2. Become(req[r].id, AfterQuarantine(state[req[r].id])) \/ Unsupervised(req[r].id)
        BY <2>2 DEF RequestFailed
      <3>3. QED
        BY <1>0, <1>2, <2>0, <3>1, <3>2, MethodsKeepEntries, WriteEntry
    <2>3. CASE RequestBlamesNobody(r)
      BY <1>0, <2>3 DEF RequestBlamesNobody, health
    <2>4. CASE ModelRetired(r)
      BY <1>0, <2>0, <2>4, MethodsKeepEntries, WriteEntry DEF ModelRetired, Response
    <2>5. CASE RequestRecovers(r)
      BY <1>0, <2>0, <2>5, WriteEntry DEF RequestRecovers, CheckRetired, Mark, health
    <2>6. QED
      BY <1>4, <2>1, <2>2, <2>3, <2>4, <2>5 DEF RequestStep
  <1>5. ASSUME NEW d \in Deployments, JobStep(d) PROVE Goal
    <2>1. CASE JobDecide(d) \/ JobHandedOver(d)
      BY <1>0, <2>1 DEF JobDecide, JobHandedOver, health
    <2>2. CASE JobPassed(d)
      BY <1>0, <2>2, MethodsKeepEntries, WriteEntry DEF JobPassed, RecordSuccess
    <2>3. CASE JobFailed(d)
      BY <1>0, <1>2, <2>3, MethodsKeepEntries, WriteEntry DEF JobFailed
    <2>4. CASE JobRecovers(d)
      BY <1>0, <2>4, WriteEntry DEF JobRecovers, CheckRetired, Mark, health
    <2>5. QED
      BY <1>5, <2>1, <2>2, <2>3, <2>4 DEF JobStep
  <1>6. ASSUME NEW d \in Deployments, HandStep(d) \/ TimerStep(d) \/ UpstreamSettles(d) PROVE Goal
    BY <1>0, <1>6 DEF HandStep, TimerStep, UpstreamSettles, health
  <1>7. ASSUME NEW d \in Deployments, ReloadIdentity(d) \/ ReloadRemoves(d) \/ ReloadAdds(d) PROVE Goal
    BY <1>0, <1>7, FixedEntries, WriteEntry DEF ReloadIdentity, ReloadRemoves, ReloadAdds
  <1>8. CASE ReloadStrategy \/ UNCHANGED vars
    BY <1>0, <1>8 DEF ReloadStrategy, vars, health
  <1>9. CASE Tick
    BY <1>0, <1>9, MethodsKeepEntries DEF Tick
  <1>10. CASE \E force \in BOOLEAN : SweepStart(force)
    BY <1>0, <1>10 DEF SweepStart
  <1>11. QED
    BY <1>1, <1>3, <1>4, <1>5, <1>6, <1>7, <1>8, <1>9, <1>10 DEF Next

(* What the sweep knows of a deployment stays typed. *)
LEMMA JobsStayTyped ==
    ASSUME StatesTyped, JobsTyped, ConfigTyped, [Next]_vars
    PROVE  JobsTyped'
  <1> USE DEF JobsTyped
  <1> DEFINE Goal == JobsTyped'
  <1>0. job \in [Deployments -> JobType \cup {Off}]
    OBVIOUS
  <1>1. ASSUME NEW d \in Deployments, job[d].at # "off",
               NEW at \in {"seen", "probing", "failedID", "check", "mark"},
               JobAt(d, at)
        PROVE  Goal
    <2>1. job[d] \in JobType
      BY <1>0, <1>1, SMTT(30) DEF Off
    <2>2. [job[d] EXCEPT !.at = at] \in JobType
      BY <2>1 DEF JobType
    <2>3. job' = [job EXCEPT ![d] = [job[d] EXCEPT !.at = at]]
      BY <1>1 DEF JobAt
    <2>4. QED
      BY <1>0, <2>2, <2>3
  <1>2. ASSUME NEW d \in Deployments, JobOff(d) PROVE Goal
    BY <1>0, <1>2 DEF JobOff
  <1>3. CASE UNCHANGED job
    BY <1>0, <1>3
  <1>4. ASSUME NEW w \in Workers, WorkerStep(w) PROVE UNCHANGED job
    BY <1>4 DEF WorkerStep, Bookkeeping, Look, LookFor, SendProbe, ProbePassed, ProbeFailed,
                ProbeDeferred, enterRecoveryCooldown, CoolDownThen
  <1>5. ASSUME NEW r \in Requests, RequestStep(r) \/ \E d \in Deployments : SendRequest(r, d)
        PROVE  UNCHANGED job
    BY <1>5 DEF RequestStep, SendRequest, RequestSucceeded, RequestFailed, RequestBlamesNobody,
                ModelRetired, RequestRecovers
  <1>6. ASSUME NEW d \in Deployments, JobStep(d) PROVE Goal
    <2>1. /\ job[d].at # "off"
          /\ JobOff(d) \/ \E at \in {"probing", "failedID", "check", "mark"} : JobAt(d, at)
      BY <1>6 DEF JobStep, JobDecide, JobPassed, JobFailed, JobHandedOver, JobRecovers
    <2>2. QED
      BY <1>1, <1>2, <2>1
  <1>7. ASSUME NEW d \in Deployments, HandStep(d) \/ TimerStep(d) \/ UpstreamSettles(d)
        PROVE  UNCHANGED job
    BY <1>7 DEF HandStep, TimerStep, UpstreamSettles
  <1>8. ASSUME NEW d \in Deployments, ReloadIdentity(d) \/ ReloadRemoves(d) \/ ReloadAdds(d)
        PROVE  Goal
    <2>1. ASSUME job[d].at # "off" PROVE [job[d] EXCEPT !.fresh = FALSE] \in JobType
      <3>1. job[d] \in JobType
        BY <1>0, <2>1, SMTT(30) DEF Off
      <3>2. QED
        BY <3>1 DEF JobType
    <2>2. job' = [job EXCEPT ![d] =
              IF job[d].at # "off" THEN [job[d] EXCEPT !.fresh = FALSE] ELSE job[d]]
      BY <1>8 DEF ReloadIdentity, ReloadRemoves, ReloadAdds, Outdated
    <2>3. QED
      BY <1>0, <2>1, <2>2
  <1>9. CASE ReloadStrategy \/ Tick \/ UNCHANGED vars
    BY <1>0, <1>9 DEF ReloadStrategy, Tick, vars
  <1>10. ASSUME NEW force \in BOOLEAN, SweepStart(force) PROVE Goal
    <2>1. \A d \in Deployments : Get(d).status \in Status
      BY MethodsKeepEntries DEF StatesTyped, Get, Entries
    <2>2. \A d \in Deployments :
             [at |-> "seen", status |-> Get(d).status, ready |-> ready,
              force |-> force, fresh |-> TRUE] \in JobType
      BY <2>1 DEF JobType, ConfigTyped
    <2>3. QED
      BY <1>10, <2>2 DEF SweepStart
  <1>11. QED
    BY <1>3, <1>4, <1>5, <1>6, <1>7, <1>8, <1>9, <1>10 DEF Next

(* A probe that passed is the last one needed, or one more attempt follows. *)
LEMMA PassedOrNotYet ==
    ASSUME SupervisorTypeOK, NEW w \in Workers, ProbePassed(w)
    PROVE  /\ worker[w].step = "work"
           /\ \/ /\ TaskOf(w).progress.successes + 1 >= Threshold
                 /\ RecordSuccess(TaskOf(w).id, probe[w].fresh) /\ GiveUp(w) /\ Done(w)
              \/ /\ TaskOf(w).progress.successes + 1 < Threshold
                 /\ Become(TaskOf(w).id, AfterRecordRecoverySuccess(state[TaskOf(w).id]))
                 /\ Retry(w, TRUE)
  <1> DEFINE n == TaskOf(w).progress.successes
  <1>1. worker[w].step = "work"
    BY DEF ProbePassed, Answered, Working
  <1>2. n \in Nat /\ Threshold \in Nat
    BY <1>1, WorkersTask, EngineAssumption, SMTT(30)
  <1>3. n + 1 >= Threshold =>
          RecordSuccess(TaskOf(w).id, probe[w].fresh) /\ GiveUp(w) /\ Done(w)
    BY DEF ProbePassed
  <1>4. ~(n + 1 >= Threshold) =>
          /\ Become(TaskOf(w).id, AfterRecordRecoverySuccess(state[TaskOf(w).id]))
          /\ Retry(w, TRUE)
    BY DEF ProbePassed
  <1>5. (n + 1 >= Threshold) \/ (n + 1 < Threshold /\ ~(n + 1 >= Threshold))
    BY <1>2, SMTT(30)
  <1> HIDE DEF n
  <1>6. QED
    BY <1>1, <1>3, <1>4, <1>5 DEF n

LEMMA ProbesStayTyped ==
    ASSUME SupervisorTypeOK, ProbesTyped, [Next]_vars
    PROVE  ProbesTyped'
  <1>0. /\ probe \in [Workers -> ProbeType \cup {Off}]
        /\ worker \in [Workers -> Holding \cup {NoTask}]
        /\ \A w \in Workers : probe[w] # Off => worker[w].step = "work"
    BY DEF ProbesTyped, SupervisorTypeOK
  <1>1. ASSUME NEW w \in Workers, Done(w),
               \A v \in Workers \ {w} : worker'[v] = worker[v]
        PROVE  ProbesTyped'
    BY <1>0, <1>1 DEF ProbesTyped, Done
  <1>2. ASSUME NEW w \in Workers, NEW at \in {"probe", "sent", "exhausted"}, At(w, at),
               UNCHANGED worker, worker[w].step = "work"
        PROVE  ProbesTyped'
    BY <1>0, <1>2 DEF ProbesTyped, At, ProbeType
  <1>3. ASSUME UNCHANGED <<probe, worker>> PROVE ProbesTyped'
    BY <1>0, <1>3 DEF ProbesTyped
  <1>4. ASSUME NEW w \in Workers, WorkerStep(w) PROVE ProbesTyped'
    <2>0. \A p \in Progress, delayed \in BOOLEAN :
             GiveUp(w) \/ Again(w, p, delayed) => \A v \in Workers \ {w} : worker'[v] = worker[v]
      BY <1>0 DEF GiveUp, Again
    <2>1. CASE Bookkeeping(w)
      <3>1. UNCHANGED probe /\ worker[w].step # "work"
        BY <2>1, SMTT(30) DEF Bookkeeping, TakeTask, CheckTask, WorkerClear, WorkerSchedule,
                    WorkerEnqueue, WorkerSend, NoTask
      <3>2. \A v \in Workers \ {w} : worker'[v] = worker[v]
        BY <1>0, <2>1 DEF Bookkeeping, TakeTask, CheckTask, WorkerClear, WorkerSchedule,
                    WorkerEnqueue, WorkerSend
      <3>3. QED
        BY <1>0, <3>1, <3>2 DEF ProbesTyped
    <2>2. CASE Look(w)
      <3>1. \/ (GiveUp(w) \/ Again(w, FirstTry, TRUE)) /\ Done(w)
            \/ At(w, "probe") /\ UNCHANGED supervisor /\ worker[w].step = "work"
        BY <2>2 DEF Look, LookFor, Working
      <3>2. QED
        BY <1>1, <1>2, <2>0, <3>1, SupervisorAssumption DEF supervisor
    <2>3. CASE SendProbe(w)
      <3>1. \/ GiveUp(w) /\ Done(w)
            \/ At(w, "sent") /\ UNCHANGED supervisor /\ worker[w].step = "work"
        BY <2>3 DEF SendProbe, Working
      <3>2. QED
        BY <1>1, <1>2, <2>0, <3>1, SupervisorAssumption DEF supervisor
    <2>4. ASSUME NEW success \in BOOLEAN, Retry(w, success), worker[w].step = "work"
          PROVE  ProbesTyped'
      <3>1. \/ (\E delayed \in BOOLEAN : Again(w, Counted(w, success), delayed)) /\ Done(w)
            \/ At(w, "exhausted") /\ UNCHANGED supervisor
        BY <2>4 DEF Retry
      <3>2. ASSUME NEW delayed \in BOOLEAN, Again(w, Counted(w, success), delayed)
            PROVE  \A v \in Workers \ {w} : worker'[v] = worker[v]
        BY <1>0, <3>2 DEF Again
      <3>3. QED
        BY <1>1, <1>2, <2>4, <3>1, <3>2 DEF supervisor
    <2>5. CASE ProbePassed(w)
      <3>1. worker[w].step = "work" /\ (Retry(w, TRUE) \/ (GiveUp(w) /\ Done(w)))
        BY <2>5, PassedOrNotYet
      <3>2. QED
        BY <1>1, <2>0, <2>4, <3>1, SupervisorAssumption
    <2>6. CASE ProbeFailed(w)
      BY <2>4, <2>6 DEF ProbeFailed, Answered, Working
    <2>7. CASE ProbeDeferred(w)
      <3>1. Again(w, TaskOf(w).progress, TRUE) /\ Done(w)
        BY <2>7 DEF ProbeDeferred
      <3>2. \A v \in Workers \ {w} : worker'[v] = worker[v]
        BY <1>0, <3>1 DEF Again
      <3>3. QED
        BY <1>1, <3>1, <3>2
    <2>8. CASE enterRecoveryCooldown(w)
      <3>1. Again(w, FirstTry, TRUE) /\ Done(w)
        BY <2>8 DEF enterRecoveryCooldown, CoolDownThen
      <3>2. QED
        BY <1>1, <2>0, <3>1, SupervisorAssumption
    <2>9. QED
      BY <1>4, <2>1, <2>2, <2>3, <2>5, <2>6, <2>7, <2>8 DEF WorkerStep
  <1>5. ASSUME NEW r \in Requests, RequestStep(r) \/ \E d \in Deployments : SendRequest(r, d)
        PROVE  UNCHANGED <<probe, worker>>
    BY <1>5 DEF RequestStep, SendRequest, RequestSucceeded, RequestFailed, RequestBlamesNobody,
                ModelRetired, RequestRecovers, CheckRetired, Mark, Recover, supervisor
  <1>6. ASSUME NEW d \in Deployments, JobStep(d) PROVE UNCHANGED <<probe, worker>>
    BY <1>6 DEF JobStep, JobDecide, JobPassed, JobFailed, JobHandedOver, JobRecovers,
                CheckRetired, Mark, Recover, supervisor
  <1>7. ASSUME NEW d \in Deployments, HandStep(d) \/ TimerStep(d) \/ UpstreamSettles(d)
        PROVE  UNCHANGED <<probe, worker>>
    BY <1>7 DEF HandStep, TimerStep, UpstreamSettles, HandEnqueue, EnqueueWithin, HandClear,
                TimerStart, TimerRun, supervisor
  <1>8. ASSUME NEW d \in Deployments, ReloadIdentity(d) \/ ReloadRemoves(d) \/ ReloadAdds(d)
        PROVE  ProbesTyped'
    <2>1. ASSUME NEW w \in Workers, probe[w].at = "sent"
          PROVE  [probe[w] EXCEPT !.fresh = FALSE] \in ProbeType
      <3>1. probe[w] \in ProbeType
        BY <1>0, <2>1, SMTT(30) DEF Off
      <3>2. QED
        BY <3>1 DEF ProbeType
    <2>2. /\ probe' = [w \in Workers |->
                IF worker[w].step = "work" /\ TaskOf(w).id = d /\ probe[w].at = "sent"
                THEN [probe[w] EXCEPT !.fresh = FALSE] ELSE probe[w]]
          /\ UNCHANGED worker
      BY <1>8 DEF ReloadIdentity, ReloadRemoves, ReloadAdds, Outdated, supervisor
    <2>3. QED
      BY <1>0, <2>1, <2>2 DEF ProbesTyped
  <1>9. CASE ReloadStrategy \/ Tick \/ UNCHANGED vars \/ \E force \in BOOLEAN : SweepStart(force)
    BY <1>3, <1>9 DEF ReloadStrategy, cancelAllRecoveries, Tick, SweepStart, vars, supervisor
  <1>10. QED
    BY <1>3, <1>4, <1>5, <1>6, <1>7, <1>8, <1>9 DEF Next

----------------------------------------------------------------------------
(* The account of a recovery's probes                                      *)

(* A task that is accounted for stays so while no mark is set and nothing  *)
(* is spent.                                                               *)
LEMMA StillAccounts ==
    ASSUME NEW g \in [Deployments -> Seqs \cup {None}],
           NEW k \in [Deployments -> Seqs \cup {None}],
           \A d \in Deployments : k[d] \in {g[d], None},
           NEW s, NEW t \in Task, Accounts(g, s, t)
    PROVE  Accounts(k, s, t)
  BY SupervisorAssumption DEF Accounts, Task

(* Steps that only carry tasks from one place to another. *)
LEMMA CarryingStep ==
    ASSUME SupervisorTypeOK, SupervisorTypeOK', SpentInv, UNCHANGED spent,
           \A d \in Deployments : gen'[d] \in {gen[d], None},
           \A h \in hands' : Accounts(gen, spent, h.task),
           \A i \in Indices' : Accounts(gen, spent, queue'[i]),
           \A w \in Workers : Owes(w)' => Accounts(gen, spent, worker'[w].task),
           \A c \in callbacks' : Accounts(gen, spent, c.task)
    PROVE  SpentInv'
  <1>0. /\ gen \in [Deployments -> Seqs \cup {None}]
        /\ gen' \in [Deployments -> Seqs \cup {None}]
    BY DEF SupervisorTypeOK
  <1>1. \A h \in hands' : Accounts(gen', spent', h.task)
    <2>1. \A h \in hands' : h.task \in Task
      BY DEF SupervisorTypeOK
    <2>2. QED
      BY <1>0, <2>1, StillAccounts
  <1>2. \A i \in Indices' : Accounts(gen', spent', queue'[i])
    <2>1. \A i \in Indices' : queue'[i] \in Task
      BY SMTT(20) DEF SupervisorTypeOK, Indices
    <2>2. QED
      BY <1>0, <2>1, StillAccounts
  <1>3. \A c \in callbacks' : Accounts(gen', spent', c.task)
    <2>1. \A c \in callbacks' : c.task \in Task
      BY DEF SupervisorTypeOK
    <2>2. QED
      BY <1>0, <2>1, StillAccounts
  <1>4. \A w \in Workers : Owes(w)' => Accounts(gen', spent', worker'[w].task)
    <2>1. \A w \in Workers : Owes(w)' => worker'[w].task \in Task
      BY SMTT(20) DEF SupervisorTypeOK, Owes, Holding, NoTask
    <2>2. QED
      BY <1>0, <2>1, StillAccounts
  <1>5. Accounted'
    BY <1>1, <1>2, <1>3, <1>4 DEF Accounted
  <1>6. CycleIsBounded'
    BY <1>0 DEF SpentInv, CycleIsBounded
  <1>7. QED
    BY <1>5, <1>6 DEF SpentInv, SpentTyped

(* Steps of a worker at its task: another task of the same deployment is   *)
(* not current if this one is, so what this one spends concerns no other.  *)
LEMMA WorkingStep ==
    ASSUME SupervisorInv, SpentInv, NEW w \in Workers, worker[w].step = "work",
           UNCHANGED <<gen, hands, queue, callbacks>>,
           \A v \in Workers \ {w} : worker'[v] = worker[v] /\ probe'[v] = probe[v],
           NEW x \in [tries : Nat, passes : Nat], Spent(w, x) \/ UNCHANGED spent,
           x.tries <= Attempts,
           Owes(w)' => Accounts(gen, spent', worker'[w].task)
    PROVE  SpentInv'
  <1> DEFINE d == TaskOf(w).id
  <1>0. /\ w \in Busy /\ d \in Deployments /\ TaskOf(w) = worker[w].task
        /\ spent \in [Deployments -> [tries : Nat, passes : Nat]]
    BY TasksAreTyped, WorkersTask DEF SupervisorInv, Busy, TaskOf, SpentInv, SpentTyped
  <1>1. CASE UNCHANGED spent
    <2>1. Accounted'
      BY <1>1 DEF SpentInv, Accounted, Indices, Owes
    <2>2. QED
      BY <1>1, <2>1 DEF SpentInv, SpentTyped, CycleIsBounded
  <1>2. CASE isCurrentRecovery(TaskOf(w)) /\ Spent(w, x)
    <2>0. /\ spent' = [spent EXCEPT ![d] = x]
          /\ gen[d] = worker[w].task.gen
      BY <1>0, <1>2 DEF Spent, isCurrentRecovery
    <2>1. ASSUME NEW t, Accounts(gen, spent, t), t.gen # worker[w].task.gen,
                 t.id \in Deployments
          PROVE  Accounts(gen, spent', t)
      BY <1>0, <2>0, <2>1 DEF Accounts
    <2>2. \A h \in hands : Accounts(gen, spent', h.task)
      <3>1. \A h \in hands : h.task.gen # worker[w].task.gen /\ h.task.id \in Deployments
        BY <1>0, SMTT(30) DEF SupervisorInv, SupervisorTypeOK, ApartAcross, Task
      <3>2. QED
        BY <2>1, <3>1 DEF SpentInv, Accounted
    <2>3. \A i \in Indices : Accounts(gen, spent', queue[i])
      <3>1. \A i \in Indices : queue[i].gen # worker[w].task.gen /\ queue[i].id \in Deployments
        BY <1>0, TasksAreTyped, SMTT(30) DEF SupervisorInv, ApartAcross, Task
      <3>2. QED
        BY <2>1, <3>1 DEF SpentInv, Accounted
    <2>4. \A c \in callbacks : Accounts(gen, spent', c.task)
      <3>1. \A c \in callbacks : c.task.gen # worker[w].task.gen /\ c.task.id \in Deployments
        BY <1>0 DEF SupervisorInv, SupervisorTypeOK, ApartAcross, Task
      <3>2. QED
        BY <2>1, <3>1 DEF SpentInv, Accounted
    <2>5. ASSUME NEW v \in Workers \ {w}, Owes(v)
          PROVE  Accounts(gen, spent', worker[v].task)
      <3>1. v \in Busy
        BY <2>5 DEF Owes, Busy
      <3>2. worker[v].task.gen # worker[w].task.gen /\ worker[v].task.id \in Deployments
        BY <1>0, <3>1, TasksAreTyped DEF SupervisorInv, ApartInPlace, Task
      <3>3. QED
        BY <2>1, <2>5, <3>2 DEF SpentInv, Accounted
    <2>6. \A v \in Workers : Owes(v)' => Accounts(gen, spent', worker'[v].task)
      <3>1. \A v \in Workers \ {w} : Owes(v)' <=> Owes(v)
        BY DEF Owes
      <3>2. QED
        BY <2>5, <3>1
    <2>7. Accounted'
      BY <2>2, <2>3, <2>4, <2>6 DEF Accounted, Indices
    <2>8. CycleIsBounded' /\ SpentTyped'
      BY <1>0, <2>0 DEF SpentInv, CycleIsBounded, SpentTyped
    <2>9. QED
      BY <2>7, <2>8 DEF SpentInv
  <1>3. CASE ~isCurrentRecovery(TaskOf(w)) /\ Spent(w, x)
    BY <1>1, <1>3 DEF Spent
  <1>4. QED
    BY <1>1, <1>2, <1>3

(* Marking a deployment starts its history anew, with a first task. *)
LEMMA MarkStep ==
    ASSUME SupervisorInv, SpentInv, NEW d \in Deployments, Mark(d)
    PROVE  SpentInv'
  <1>0. /\ spent \in [Deployments -> [tries : Nat, passes : Nat]]
        /\ gen \in [Deployments -> Seqs \cup {None}]
        /\ UNCHANGED <<queue, worker, callbacks, probe>>
    BY DEF SpentInv, SpentTyped, SupervisorInv, SupervisorTypeOK, Mark, Recover
  <1>1. CASE gen[d] # None
    <2>1. UNCHANGED <<gen, hands, spent>>
      BY <1>0, <1>1 DEF Mark, Recover
    <2>2. QED
      BY <1>0, <2>1 DEF SpentInv, SpentTyped, Accounted, Owes, Indices, CycleIsBounded
  <1>2. CASE gen[d] = None
    <2> DEFINE n == NextSeq
               t == [id |-> d, gen |-> n, progress |-> FirstTry]
    <2>0. /\ FreshSeqs # {} /\ gen' = [gen EXCEPT ![d] = n]
          /\ hands' = hands \cup {Hand("enqueue", t)}
          /\ spent' = [spent EXCEPT ![d] = Nothing]
      BY <1>2 DEF Mark, Recover
    <2>1. /\ n \in Seqs
          /\ \A h \in hands : h.task.gen # n /\ h.task.id \in Deployments
          /\ \A i \in Indices : queue[i].gen # n /\ queue[i].id \in Deployments
          /\ \A w \in Busy : worker[w].task.gen # n /\ worker[w].task.id \in Deployments
          /\ \A c \in callbacks : c.task.gen # n /\ c.task.id \in Deployments
      BY <2>0, FreshIsUnused, TasksAreTyped DEF SupervisorInv, Task
    <2> HIDE DEF n
    <2>2. ASSUME NEW u, u.gen # n, u.id \in Deployments, Accounts(gen, spent, u)
          PROVE  Accounts(gen', spent', u)
      BY <1>0, <2>0, <2>2 DEF Accounts
    <2>3. Accounts(gen', spent', t)
      <3>1. spent'[d] = Nothing /\ t.id = d /\ t.progress = FirstTry
        BY <1>0, <2>0
      <3>2. QED
        BY <3>1, EngineAssumption, SMTT(30) DEF Accounts, Nothing
    <2>4. \A h \in hands' : Accounts(gen', spent', h.task)
      <3>1. Hand("enqueue", t).task = t
        BY DEF Hand
      <3>2. QED
        BY <2>0, <2>1, <2>2, <2>3, <3>1 DEF SpentInv, Accounted
    <2>5. \A w \in Workers : Owes(w) => Accounts(gen', spent', worker[w].task)
      <3>1. \A w \in Workers : Owes(w) => w \in Busy
        BY DEF Owes, Busy
      <3>2. QED
        BY <2>1, <2>2, <3>1 DEF SpentInv, Accounted
    <2>6. Accounted'
      <3>1. \A i \in Indices : Accounts(gen', spent', queue[i])
        BY <2>1, <2>2 DEF SpentInv, Accounted
      <3>2. \A c \in callbacks : Accounts(gen', spent', c.task)
        BY <2>1, <2>2 DEF SpentInv, Accounted
      <3>3. QED
        BY <1>0, <2>4, <2>5, <3>1, <3>2 DEF Accounted, Owes, Indices
    <2>7. CycleIsBounded' /\ SpentTyped'
      BY <1>0, <2>0, EngineAssumption, SMTT(30) DEF SpentInv, CycleIsBounded, SpentTyped, Nothing
    <2>8. QED
      BY <2>6, <2>7 DEF SpentInv
  <1>3. QED
    BY <1>1, <1>2

(* The places of the queue after a task was sent to it, or none was. *)
LEMMA AppendedPlaces ==
    ASSUME queue \in Seq(Task), NEW t \in Task, UNCHANGED queue \/ queue' = Append(queue, t)
    PROVE  \A i \in Indices' : (i \in Indices /\ queue'[i] = queue[i]) \/ queue'[i] = t
  BY SMTT(30) DEF Indices

(* What is left of the queue when its first task is taken. *)
LEMMA TailShifts ==
    ASSUME NEW S, NEW s \in Seq(S), s # << >>
    PROVE  /\ \A i \in 1..Len(Tail(s)) : i + 1 \in 1..Len(s) /\ Tail(s)[i] = s[i + 1]
           /\ 1 \in 1..Len(s) /\ Head(s) = s[1]
  BY SMTT(30)

(* Taking, checking, clearing, scheduling and sending back a task. *)
LEMMA BookkeepingSpends ==
    ASSUME SupervisorInv, SupervisorTypeOK', ProbesTyped, SpentInv,
           NEW w \in Workers, Bookkeeping(w)
    PROVE  SpentInv'
  <1> DEFINE OK(t) == Accounts(gen, spent, t)
  <1>0. /\ gen \in [Deployments -> Seqs \cup {None}]
        /\ worker \in [Workers -> Holding \cup {NoTask}]
        /\ queue \in Seq(Task)
        /\ UNCHANGED <<spent, probe>>
        /\ \A h \in hands : OK(h.task)
        /\ \A i \in Indices : OK(queue[i])
        /\ \A v \in Workers : Owes(v) => OK(worker[v].task)
        /\ \A c \in callbacks : OK(c.task)
    BY DEF SupervisorInv, SupervisorTypeOK, Bookkeeping, SpentInv, Accounted
  <1>1. worker[w].step \notin {"idle", "clear", "work"} => Owes(w)
    BY SMTT(30) DEF ProbesTyped, Owes, Off
  <1> HIDE DEF OK
  <1>2. CASE TakeTask(w)
    <2>1. /\ UNCHANGED <<gen, hands, callbacks>> /\ queue # << >> /\ queue' = Tail(queue)
          /\ worker' = [worker EXCEPT ![w] = Hand("check", Head(queue))]
      BY <1>2 DEF TakeTask
    <2>2. \A i \in Indices' : i + 1 \in Indices /\ queue'[i] = queue[i + 1]
      BY <1>0, <2>1, TailShifts DEF Indices
    <2>3. 1 \in Indices /\ Head(queue) = queue[1]
      BY <1>0, <2>1, TailShifts DEF Indices
    <2>4. \A v \in Workers : Owes(v)' => OK(worker'[v].task)
      BY <1>0, <2>1, <2>3 DEF Owes, Hand
    <2>5. QED
      BY <1>0, <2>1, <2>2, <2>4, CarryingStep DEF SupervisorInv, OK
  <1>3. CASE CheckTask(w) \/ WorkerEnqueue(w)
    <2>1. /\ UNCHANGED <<gen, hands, callbacks, queue>> /\ Owes(w)
          /\ \/ worker' = [worker EXCEPT ![w] = NoTask]
             \/ \E step \in {"work", "send"} : worker' = [worker EXCEPT ![w] = Hand(step, worker[w].task)]
      BY <1>1, <1>3 DEF CheckTask, WorkerEnqueue
    <2>2. \A v \in Workers : Owes(v)' => OK(worker'[v].task)
      BY <1>0, <2>1, SMTT(30) DEF Owes, Hand, NoTask
    <2>3. QED
      BY <1>0, <2>1, <2>2, CarryingStep DEF SupervisorInv, OK, Indices
  <1>4. CASE WorkerClear(w)
    <2>1. /\ UNCHANGED <<hands, queue>> /\ worker' = [worker EXCEPT ![w] = NoTask]
          /\ callbacks' \subseteq callbacks
          /\ \A d \in Deployments : gen'[d] \in {gen[d], None}
      BY <1>0, <1>4 DEF WorkerClear, clearRecoveryTask
    <2>2. \A v \in Workers : Owes(v)' => OK(worker'[v].task)
      BY <1>0, <2>1 DEF Owes, NoTask
    <2>3. QED
      BY <1>0, <2>1, <2>2, CarryingStep DEF SupervisorInv, OK, Indices
  <1>5. CASE WorkerSchedule(w)
    <2>1. /\ UNCHANGED <<gen, hands, queue>> /\ worker' = [worker EXCEPT ![w] = NoTask]
          /\ Owes(w)
      BY <1>1, <1>5 DEF WorkerSchedule, scheduleRecovery
    <2>a. \A c \in callbacks' : c \in callbacks \/ c.task = worker[w].task
      <3>1. \/ callbacks' = callbacks
            \/ callbacks' = (callbacks \ Stoppable(worker[w].task.id))
                 \cup {[task |-> worker[w].task, token |-> NextSeq, started |-> FALSE]}
        BY <1>5 DEF WorkerSchedule, scheduleRecovery
      <3>2. QED
        BY <3>1, SMTT(30)
    <2>2. \A v \in Workers : Owes(v)' => OK(worker'[v].task)
      BY <1>0, <2>1 DEF Owes, NoTask
    <2>3. \A c \in callbacks' : OK(c.task)
      BY <1>0, <2>1, <2>a
    <2>4. QED
      BY <1>0, <2>1, <2>2, <2>3, CarryingStep DEF SupervisorInv, OK, Indices
  <1>6. CASE WorkerSend(w)
    <2>1. /\ UNCHANGED <<gen, hands, callbacks>> /\ Owes(w)
          /\ \/ /\ queue' = Append(queue, worker[w].task)
                /\ worker' = [worker EXCEPT ![w] = NoTask]
             \/ queue' = queue /\ worker' = [worker EXCEPT ![w] = Hand("clear", worker[w].task)]
      BY <1>1, <1>6 DEF WorkerSend
    <2>2. \A v \in Workers : Owes(v)' => OK(worker'[v].task)
      BY <1>0, <2>1, SMTT(30) DEF Owes, NoTask, Hand
    <2>3. \A i \in Indices' : OK(queue'[i])
      <3>1. worker[w].task \in Task
        BY <1>6, TasksAreTyped DEF SupervisorInv, Busy, WorkerSend
      <3>2. \A i \in Indices' : (i \in Indices /\ queue'[i] = queue[i]) \/ queue'[i] = worker[w].task
        BY <1>0, <2>1, <3>1, AppendedPlaces
      <3>3. QED
        BY <1>0, <2>1, <3>2
    <2>4. QED
      BY <1>0, <2>1, <2>2, <2>3, CarryingStep DEF SupervisorInv, OK
  <1>7. QED
    BY <1>2, <1>3, <1>4, <1>5, <1>6 DEF Bookkeeping

(* Goroutines and timers that carry a task to the queue. *)
LEMMA CarriersSpend ==
    ASSUME SupervisorInv, SupervisorTypeOK', SpentInv,
           NEW d \in Deployments, HandStep(d) \/ TimerStep(d)
    PROVE  SpentInv'
  <1> DEFINE OK(t) == Accounts(gen, spent, t)
  <1>0. /\ gen \in [Deployments -> Seqs \cup {None}]
        /\ queue \in Seq(Task)
        /\ UNCHANGED <<spent, probe>>
        /\ \A h \in hands : OK(h.task)
        /\ \A i \in Indices : OK(queue[i])
        /\ \A v \in Workers : Owes(v) => OK(worker[v].task)
        /\ \A c \in callbacks : OK(c.task)
    BY DEF SupervisorInv, SupervisorTypeOK, HandStep, TimerStep, SpentInv, Accounted
  <1> HIDE DEF OK
  <1>1. ASSUME NEW h \in hands, HandEnqueue(h) PROVE SpentInv'
    <2>1. /\ UNCHANGED <<gen, worker, callbacks>>
          /\ \A k \in hands' : k \in hands \/ k.task = h.task
          /\ UNCHANGED queue \/ queue' = Append(queue, h.task)
      BY <1>1, SMTT(30) DEF HandEnqueue, EnqueueWithin, Hand
    <2>2. \A i \in Indices' : OK(queue'[i])
      <3>1. h.task \in Task
        BY DEF SupervisorInv, SupervisorTypeOK
      <3>2. \A i \in Indices' : (i \in Indices /\ queue'[i] = queue[i]) \/ queue'[i] = h.task
        BY <1>0, <2>1, <3>1, AppendedPlaces
      <3>3. QED
        BY <1>0, <3>2
    <2>3. QED
      BY <1>0, <2>1, <2>2, CarryingStep DEF SupervisorInv, OK, Owes
  <1>2. ASSUME NEW h \in hands, HandClear(h) PROVE SpentInv'
    <2>1. /\ UNCHANGED <<queue, worker>> /\ hands' \subseteq hands
          /\ callbacks' \subseteq callbacks
          /\ \A e \in Deployments : gen'[e] \in {gen[e], None}
      BY <1>0, <1>2 DEF HandClear, clearRecoveryTask
    <2>2. QED
      BY <1>0, <2>1, CarryingStep DEF SupervisorInv, OK, Owes, Indices
  <1>3. ASSUME NEW c \in callbacks, TimerStart(c) \/ TimerRun(c) PROVE SpentInv'
    <2>1. /\ UNCHANGED <<gen, queue, worker>>
          /\ \A e \in callbacks' : e \in callbacks \/ e.task = c.task
          /\ \A h \in hands' : h \in hands \/ h.task = c.task
      <3>1. [c EXCEPT !.started = TRUE].task = c.task
        <4>1. c \in [task : Task, token : Seqs, started : BOOLEAN]
          BY DEF SupervisorInv, SupervisorTypeOK
        <4>2. QED
          BY <4>1
      <3>2. CASE TimerStart(c)
        BY <3>1, <3>2 DEF TimerStart
      <3>3. CASE TimerRun(c)
        BY <3>3, SMTT(30) DEF TimerRun, Hand
      <3>4. QED
        BY <1>3, <3>2, <3>3
    <2>2. QED
      BY <1>0, <2>1, CarryingStep DEF SupervisorInv, OK, Owes, Indices
  <1>4. QED
    BY <1>1, <1>2, <1>3 DEF HandStep, TimerStep

LEMMA NothingSpent ==
    Nothing \in [tries : Nat, passes : Nat] /\ Nothing.tries <= Attempts
  <1>1. 0 <= Attempts
    BY EngineAssumption, SMTT(30)
  <1>2. QED
    BY <1>1 DEF Nothing

(* A task whose counts are the recovery's history. *)
LEMMA CurrentTaskAccounts ==
    ASSUME SupervisorTypeOK, SpentInv, NEW w \in Workers, Working(w, "sent"),
           isCurrentRecovery(TaskOf(w))
    PROVE  /\ spent[TaskOf(w).id].tries = TaskOf(w).progress.attempt - 1
           /\ spent[TaskOf(w).id].passes = TaskOf(w).progress.successes
  <1>1. Accounts(gen, spent, TaskOf(w))
    BY DEF SpentInv, Accounted, Owes, Working, TaskOf
  <1>2. spent[TaskOf(w).id] = [tries |-> TaskOf(w).progress.attempt - 1,
                               passes |-> TaskOf(w).progress.successes]
    BY <1>1 DEF Accounts, isCurrentRecovery
  <1>3. QED
    BY <1>2, SMTT(30)

(* A probe in flight is a probe. *)
LEMMA SentProbe ==
    ASSUME ProbesTyped, NEW w \in Workers, probe[w].at = "sent"
    PROVE  probe[w] \in ProbeType
  BY SMTT(30) DEF ProbesTyped, Off

(* The attempt that follows an attempt. *)
LEMMA OneBack == \A attempts \in Nat : \A a \in 1..attempts : \A b : b = a + 1 => b - 1 = a
  BY SMTT(30)

(* Counting one more probe. *)
LEMMA OneMoreProbe ==
    ASSUME NEW attempts \in Nat, NEW a \in 1..attempts, NEW s \in Nat, NEW passed \in {0, 1}
    PROVE  /\ [tries |-> a, passes |-> s + passed] \in [tries : Nat, passes : Nat]
           /\ [tries |-> a, passes |-> s + passed].tries <= attempts
           /\ [tries |-> a - 1 + 1, passes |-> s + passed] = [tries |-> a, passes |-> s + passed]
           /\ [tries |-> a + 1 - 1, passes |-> s + passed] = [tries |-> a, passes |-> s + passed]
  <1>1. a \in Nat /\ s + passed \in Nat /\ a - 1 + 1 = a /\ a + 1 - 1 = a /\ a <= attempts
    BY SMTT(30)
  <1>2. QED
    BY <1>1

(* A probe is spent and counted: in the task, or the worker does not owe. *)
LEMMA ProbeSpends ==
    ASSUME SupervisorInv, ProbesTyped, SpentInv, NEW w \in Workers, Working(w, "sent"),
           NEW success \in BOOLEAN, NEW passed \in {0, 1},
           passed = IF success THEN 1 ELSE 0, Spend(w, passed),
           Retry(w, success) \/ (GiveUp(w) /\ Done(w))
    PROVE  SpentInv'
  <1> DEFINE t == TaskOf(w)
             d == t.id
             x == [tries |-> t.progress.attempt, passes |-> t.progress.successes + passed]
  <1>0. /\ worker \in [Workers -> Holding \cup {NoTask}]
        /\ probe \in [Workers -> ProbeType \cup {Off}]
        /\ worker[w].step = "work" /\ t = worker[w].task /\ t \in Task
        /\ d \in Deployments /\ t.progress.attempt \in 1..Attempts
        /\ t.progress.successes \in 0..Threshold
    BY WorkersTask, TasksAreTyped
       DEF SupervisorInv, SupervisorTypeOK, ProbesTyped, Working, TaskOf, Busy
  <1>1. Attempts \in Nat /\ Threshold \in Nat
    BY EngineAssumption, SMTT(30)
  <1>a. t.progress.attempt \in 1..Attempts /\ t.progress.successes \in Nat
    BY <1>0, <1>1, SMTT(30)
  <1>2. /\ x \in [tries : Nat, passes : Nat] /\ x.tries <= Attempts
        /\ x = [tries |-> t.progress.attempt - 1 + 1, passes |-> t.progress.successes + passed]
        /\ x = [tries |-> t.progress.attempt + 1 - 1, passes |-> t.progress.successes + passed]
    BY <1>1, <1>a, OneMoreProbe, SMTT(30)
  <1>3. Spent(w, x)
    <2>1. ASSUME isCurrentRecovery(t)
          PROVE  [tries |-> spent[d].tries + 1, passes |-> spent[d].passes + passed] = x
      <3>1. spent[d].tries = t.progress.attempt - 1 /\ spent[d].passes = t.progress.successes
        BY <2>1, CurrentTaskAccounts DEF SupervisorInv
      <3>2. QED
        BY <1>2, <3>1
    <2>2. QED
      BY <2>1 DEF Spend, Spent
  <1>4. /\ UNCHANGED <<gen, hands, queue, callbacks>>
        /\ \A v \in Workers \ {w} : worker'[v] = worker[v] /\ probe'[v] = probe[v]
    <2>1. CASE GiveUp(w) /\ Done(w)
      BY <1>0, <2>1 DEF GiveUp, Done
    <2>2. CASE Retry(w, success)
      <3>1. \/ (\E delayed \in BOOLEAN : Again(w, Counted(w, success), delayed)) /\ Done(w)
            \/ At(w, "exhausted") /\ UNCHANGED supervisor
        BY <2>2 DEF Retry
      <3>2. QED
        BY <1>0, <3>1 DEF Again, Done, At, supervisor
    <2>3. QED
      BY <2>1, <2>2
  <1>5. Owes(w)' => Accounts(gen, spent', worker'[w].task)
    <2>1. CASE GiveUp(w) /\ Done(w)
      BY <1>0, <2>1 DEF GiveUp, Hand, Owes
    <2>2. CASE At(w, "exhausted")
      BY <1>0, <2>2 DEF At, Owes
    <2>3. ASSUME NEW delayed \in BOOLEAN, Again(w, Counted(w, success), delayed)
          PROVE  Accounts(gen, spent', worker'[w].task)
      <3> DEFINE u == [t EXCEPT !.progress = Counted(w, success)]
      <3>1. worker'[w].task = u
        BY <1>0, <2>3 DEF Again, Hand
      <3>2. /\ u.id = d /\ u.gen = t.gen
            /\ u.progress.attempt = t.progress.attempt + 1
            /\ u.progress.successes = t.progress.successes + passed
        BY <1>0, <1>1, SMTT(30) DEF Task, Counted
      <3>3. ASSUME gen[d] = t.gen PROVE spent'[d] = x
        <4>1. spent \in [Deployments -> [tries : Nat, passes : Nat]]
          BY DEF SpentInv, SpentTyped
        <4>2. QED
          BY <1>0, <1>3, <3>3, <4>1 DEF Spent, isCurrentRecovery
      <3> HIDE DEF u
      <3>4. [tries |-> u.progress.attempt - 1, passes |-> u.progress.successes] = x
        <4>1. u.progress.attempt - 1 = t.progress.attempt
          BY <1>1, <1>a, <3>2, OneBack
        <4>2. QED
          BY <3>2, <4>1
      <3>5. QED
        BY <3>1, <3>2, <3>3, <3>4 DEF Accounts
    <2>4. QED
      BY <2>1, <2>2, <2>3 DEF Retry
  <1> HIDE DEF x
  <1>6. QED
    BY <1>0, <1>2, <1>3, <1>4, <1>5, WorkingStep

(* A recovery that waits for a cooldown, or enters one, starts anew. *)
LEMMA NewCycleSpends ==
    ASSUME SupervisorInv, ProbesTyped, SpentInv, NEW w \in Workers, worker[w].step = "work",
           Again(w, FirstTry, TRUE), Done(w), NewCycle(w)
    PROVE  SpentInv'
  <1> DEFINE t == TaskOf(w)
  <1>0. /\ worker \in [Workers -> Holding \cup {NoTask}]
        /\ probe \in [Workers -> ProbeType \cup {Off}]
        /\ t = worker[w].task /\ t \in Task /\ t.id \in Deployments
        /\ spent \in [Deployments -> [tries : Nat, passes : Nat]]
    BY WorkersTask, TasksAreTyped
       DEF SupervisorInv, SupervisorTypeOK, ProbesTyped, TaskOf, Busy, SpentInv, SpentTyped
  <1>1. Nothing \in [tries : Nat, passes : Nat] /\ Nothing.tries <= Attempts
    BY NothingSpent
  <1>2. /\ UNCHANGED <<gen, hands, queue, callbacks>>
        /\ \A v \in Workers \ {w} : worker'[v] = worker[v] /\ probe'[v] = probe[v]
    BY <1>0 DEF Again, Done
  <1>3. Accounts(gen, spent', worker'[w].task)
    <2> DEFINE u == [t EXCEPT !.progress = FirstTry]
    <2>1. worker'[w].task = u
      BY <1>0 DEF Again, Hand
    <2>2. u.id = t.id /\ u.gen = t.gen /\ u.progress = FirstTry
      BY <1>0 DEF Task
    <2>3. gen[t.id] = t.gen => spent'[t.id] = Nothing
      BY <1>0 DEF NewCycle, Spent, isCurrentRecovery
    <2>4. Nothing = [tries |-> FirstTry.attempt - 1, passes |-> FirstTry.successes]
      BY EngineAssumption, SMTT(30) DEF Nothing
    <2> HIDE DEF u
    <2>5. QED
      BY <2>1, <2>2, <2>3, <2>4 DEF Accounts
  <1>4. QED
    BY <1>1, <1>2, <1>3, WorkingStep DEF NewCycle

(* Steps of a worker that spend nothing. *)
LEMMA IdleSpends ==
    ASSUME SupervisorInv, ProbesTyped, SpentInv, NEW w \in Workers, worker[w].step = "work",
           UNCHANGED spent,
           \/ GiveUp(w) /\ Done(w)
           \/ UNCHANGED supervisor /\ At(w, "probe") /\ probe[w].at # "exhausted"
           \/ UNCHANGED supervisor /\ At(w, "sent") /\ probe[w].at # "exhausted"
           \/ Again(w, TaskOf(w).progress, TRUE) /\ Done(w) /\ probe[w].at # "exhausted"
    PROVE  SpentInv'
  <1> DEFINE t == TaskOf(w)
  <1>0. /\ worker \in [Workers -> Holding \cup {NoTask}]
        /\ probe \in [Workers -> ProbeType \cup {Off}]
        /\ t = worker[w].task /\ t \in Task
    BY TasksAreTyped DEF SupervisorInv, SupervisorTypeOK, ProbesTyped, TaskOf, Busy
  <1>1. Nothing \in [tries : Nat, passes : Nat] /\ Nothing.tries <= Attempts
    BY NothingSpent
  <1>2. /\ UNCHANGED <<gen, hands, queue, callbacks>>
        /\ \A v \in Workers \ {w} : worker'[v] = worker[v] /\ probe'[v] = probe[v]
    BY <1>0 DEF Again, GiveUp, Done, At, supervisor
  <1>3. ASSUME Owes(w)' PROVE Accounts(gen, spent, worker'[w].task)
    <2>1. probe[w].at # "exhausted" => Accounts(gen, spent, t)
      BY <1>0 DEF SpentInv, Accounted, Owes
    <2>2. [t EXCEPT !.progress = t.progress] = t
      BY <1>0 DEF Task
    <2>3. CASE GiveUp(w)
      BY <1>0, <1>3, <2>3 DEF GiveUp, Hand, Owes
    <2>4. CASE UNCHANGED supervisor /\ probe[w].at # "exhausted"
      BY <1>0, <2>1, <2>4 DEF supervisor
    <2>5. CASE Again(w, TaskOf(w).progress, TRUE) /\ probe[w].at # "exhausted"
      <3>1. worker'[w].task = [t EXCEPT !.progress = t.progress]
        BY <1>0, <2>5 DEF Again, Hand
      <3>2. QED
        BY <2>1, <2>2, <2>5, <3>1
    <2>6. QED
      BY <2>3, <2>4, <2>5
  <1>4. QED
    BY <1>1, <1>2, <1>3, WorkingStep

(* Every step of a worker keeps the account. *)
LEMMA WorkerSpends ==
    ASSUME SupervisorInv, SupervisorTypeOK', ProbesTyped, SpentInv,
           NEW w \in Workers, WorkerStep(w)
    PROVE  SpentInv'
  <1>0. SupervisorTypeOK
    BY DEF SupervisorInv
  <1>1. CASE Bookkeeping(w)
    BY <1>1, BookkeepingSpends
  <1>2. CASE Look(w)
    <2>1. /\ worker[w].step = "work" /\ probe[w].at # "exhausted"
          /\ \/ Again(w, FirstTry, TRUE) /\ Done(w) /\ NewCycle(w)
             \/ GiveUp(w) /\ Done(w) /\ UNCHANGED spent
             \/ At(w, "probe") /\ UNCHANGED <<supervisor, spent>>
      BY <1>2 DEF Look, LookFor, Working
    <2>2. QED
      BY <2>1, NewCycleSpends, IdleSpends
  <1>3. CASE SendProbe(w)
    <2>1. /\ worker[w].step = "work" /\ probe[w].at # "exhausted" /\ UNCHANGED spent
          /\ \/ GiveUp(w) /\ Done(w)
             \/ At(w, "sent") /\ UNCHANGED supervisor
      BY <1>3 DEF SendProbe, Working
    <2>2. QED
      BY <2>1, IdleSpends
  <1>4. CASE ProbePassed(w)
    <2>1. Working(w, "sent") /\ Spend(w, 1)
      BY <1>4 DEF ProbePassed, Answered
    <2>2. Retry(w, TRUE) \/ (GiveUp(w) /\ Done(w))
      BY <1>0, <1>4, PassedOrNotYet
    <2>3. QED
      BY <2>1, <2>2, ProbeSpends
  <1>5. CASE ProbeFailed(w)
    <2>1. Working(w, "sent") /\ Spend(w, 0) /\ Retry(w, FALSE)
      BY <1>5 DEF ProbeFailed, Answered
    <2>2. QED
      BY <2>1, ProbeSpends
  <1>6. CASE ProbeDeferred(w)
    <2>1. /\ worker[w].step = "work" /\ probe[w].at # "exhausted" /\ UNCHANGED spent
          /\ Again(w, TaskOf(w).progress, TRUE) /\ Done(w)
      BY <1>6 DEF ProbeDeferred, Answered, Working
    <2>2. QED
      BY <2>1, IdleSpends
  <1>7. CASE enterRecoveryCooldown(w)
    <2>1. worker[w].step = "work" /\ Again(w, FirstTry, TRUE) /\ Done(w) /\ NewCycle(w)
      BY <1>7 DEF enterRecoveryCooldown, CoolDownThen, Working
    <2>2. QED
      BY <2>1, NewCycleSpends
  <1>8. QED
    BY <1>1, <1>2, <1>3, <1>4, <1>5, <1>6, <1>7 DEF WorkerStep

(* Requests, sweeps and reloads leave the account alone, but for the mark  *)
(* of a new recovery and the end of all recoveries.                        *)
LEMMA SpentStep ==
    ASSUME SupervisorInv, SupervisorTypeOK', ProbesTyped, SpentInv, RequestsTyped, [Next]_vars
    PROVE  SpentInv'
  <1>1. ASSUME UNCHANGED <<gen, hands, queue, worker, callbacks, spent>>,
               \A w \in Workers : probe'[w].at = probe[w].at
        PROVE  SpentInv'
    BY <1>1 DEF SpentInv, SpentTyped, Accounted, Owes, Indices, CycleIsBounded
  <1>2. ASSUME NEW w \in Workers, WorkerStep(w) PROVE SpentInv'
    BY <1>2, WorkerSpends
  <1>3. ASSUME NEW r \in Requests, RequestStep(r) \/ \E d \in Deployments : SendRequest(r, d)
        PROVE  SpentInv'
    <2>1. \/ UNCHANGED <<supervisor, probe, spent>>
          \/ req[r].at = "mark" /\ Mark(req[r].id)
      BY <1>3 DEF RequestStep, SendRequest, RequestSucceeded, RequestFailed, RequestBlamesNobody,
                  ModelRetired, RequestRecovers, CheckRetired
    <2>2. req[r].at = "mark" => req[r].id \in Deployments
      BY SMTT(30) DEF RequestsTyped, RequestType, Off
    <2>3. QED
      BY <1>1, <2>1, <2>2, MarkStep DEF supervisor
  <1>4. ASSUME NEW d \in Deployments, JobStep(d) PROVE SpentInv'
    <2>1. Mark(d) \/ UNCHANGED <<supervisor, probe, spent>>
      BY <1>4 DEF JobStep, JobDecide, JobPassed, JobFailed, JobHandedOver, JobRecovers, CheckRetired
    <2>2. QED
      BY <1>1, <2>1, MarkStep DEF supervisor
  <1>5. ASSUME NEW d \in Deployments, HandStep(d) \/ TimerStep(d) PROVE SpentInv'
    BY <1>5, CarriersSpend
  <1>6. ASSUME NEW d \in Deployments, UpstreamSettles(d) PROVE SpentInv'
    BY <1>1, <1>6 DEF UpstreamSettles, supervisor
  <1>7. ASSUME NEW d \in Deployments, ReloadIdentity(d) \/ ReloadRemoves(d) \/ ReloadAdds(d)
        PROVE  SpentInv'
    <2>1. UNCHANGED <<supervisor, spent>> /\ Outdated(d)
      BY <1>7 DEF ReloadIdentity, ReloadRemoves, ReloadAdds
    <2>2. ASSUME NEW w \in Workers PROVE probe'[w].at = probe[w].at
      <3>1. probe[w] \in ProbeType => [probe[w] EXCEPT !.fresh = FALSE].at = probe[w].at
        BY DEF ProbeType
      <3>2. probe[w].at = "sent" => probe[w] \in ProbeType
        BY SentProbe
      <3>3. QED
        BY <2>1, <3>1, <3>2 DEF Outdated
    <2>3. QED
      BY <1>1, <2>1, <2>2 DEF supervisor
  <1>8. CASE ReloadStrategy
    <2>1. UNCHANGED <<spent, probe, hands, queue, worker>>
      BY <1>8 DEF ReloadStrategy, cancelAllRecoveries, supervisor
    <2>2. /\ callbacks' \subseteq callbacks
          /\ \A d \in Deployments : gen'[d] \in {gen[d], None}
      BY <1>8 DEF ReloadStrategy, cancelAllRecoveries, supervisor
    <2>3. QED
      BY <2>1, <2>2, CarryingStep DEF SupervisorInv, SpentInv, Accounted, Owes, Indices
  <1>9. CASE Tick \/ UNCHANGED vars \/ \E force \in BOOLEAN : SweepStart(force)
    BY <1>1, <1>9 DEF Tick, SweepStart, vars, supervisor
  <1>10. QED
    BY <1>2, <1>3, <1>4, <1>5, <1>6, <1>7, <1>8, <1>9 DEF Next

----------------------------------------------------------------------------
(* The engine's invariant                                                  *)

LEMMA EngineInvInit == Init => EngineInv
  <1> SUFFICES ASSUME Init PROVE EngineInv
    OBVIOUS
  <1>1. SupervisorInv
    BY SupervisorInvInit DEF Init
  <1>2. StatesTyped /\ RequestsTyped /\ JobsTyped /\ ConfigTyped /\ ProbesTyped
    BY FixedEntries
       DEF Init, StatesTyped, RequestsTyped, JobsTyped, ConfigTyped, ProbesTyped
  <1>3. SpentInv
    <2>1. /\ hands = {} /\ queue = << >> /\ callbacks = {}
          /\ \A w \in Workers : worker[w] = NoTask
          /\ \A d \in Deployments : gen[d] = None /\ spent[d] = Nothing
          /\ spent = [d \in Deployments |-> Nothing]
      BY DEF Init, SupervisorInit
    <2>2. SpentTyped /\ CycleIsBounded
      BY <2>1, NothingSpent DEF SpentTyped, CycleIsBounded
    <2>3. Indices = {}
      BY <2>1, SMTT(30) DEF Indices
    <2>4. \A w \in Workers : ~Owes(w)
      BY <2>1, SMTT(30) DEF Owes, NoTask
    <2>5. QED
      BY <2>1, <2>2, <2>3, <2>4 DEF SpentInv, Accounted
  <1>4. QED
    BY <1>1, <1>2, <1>3 DEF EngineInv

LEMMA EngineInvStep ==
    ASSUME EngineInv, [Next]_vars
    PROVE  EngineInv' /\ [SupervisorNext]_supervisor
  <1>0. /\ SupervisorInv /\ SupervisorTypeOK
        /\ StatesTyped /\ RequestsTyped /\ JobsTyped /\ ConfigTyped /\ ProbesTyped
        /\ SpentInv
    BY DEF EngineInv, SupervisorInv
  <1>1. [SupervisorNext]_supervisor
    BY EngineStepIsSupervised
  <1>2. SupervisorInv' /\ SupervisorTypeOK'
    BY <1>0, <1>1, SupervisorInvStep DEF SupervisorInv
  <1>3. StatesTyped' /\ RequestsTyped' /\ JobsTyped' /\ ConfigTyped' /\ ProbesTyped'
    BY <1>0, StatesStayTyped, RequestsStayTyped, JobsStayTyped, ConfigStaysTyped, ProbesStayTyped
  <1>4. SpentInv'
    BY <1>0, <1>2, SpentStep
  <1>5. QED
    BY <1>1, <1>2, <1>3, <1>4 DEF EngineInv

LEMMA EngineKeepsInv == Spec => []EngineInv
  BY EngineInvInit, EngineInvStep, PTL DEF Spec

(* The engine drives the supervisor only in ways RecoverySupervisor        *)
(* allows, whatever requests, sweeps and reloads do.                       *)
THEOREM EngineImplementsSupervisor == Spec => SupervisorSpec
  <1>1. Init => SupervisorInit
    BY DEF Init
  <1>2. QED
    BY <1>1, EngineInvStep, EngineKeepsInv, PTL DEF Spec, SupervisorSpec

(* So no recovery of the running engine is switched off or doubled: the    *)
(* supervisor's invariants are the engine's.                               *)
THEOREM EngineKeepsRecoveries == Spec => [](MarkedHasCarrier /\ OneCarrier)
  BY EngineImplementsSupervisor, SupervisorSafety, PTL

(* The engine's maps, tasks, requests and sweeps are well-formed, and a    *)
(* worker has a probe under way only while it works on a task, for any     *)
(* number of workers, requests and deployments.                            *)
THEOREM EngineTypes == Spec => []TypeOK
  <1>1. EngineInv => TypeOK
    BY DEF EngineInv, SupervisorInv, StatesTyped, Entries, RequestsTyped, JobsTyped,
           ConfigTyped, ProbesTyped, TypeOK
  <1>2. QED
    BY <1>1, EngineKeepsInv, PTL

(* A recovery spends at most recovery_attempts probes before its           *)
(* deployment cools down or is re-admitted, however processRecoveryTask,   *)
(* the queue and the timers pass its task around.                          *)
THEOREM CyclesAreBounded == Spec => []CycleIsBounded
  <1>1. EngineInv => CycleIsBounded
    BY DEF EngineInv, SpentInv
  <1>2. QED
    BY <1>1, EngineKeepsInv, PTL

(* A worker that probes is not handing a task on. *)
LEMMA BookkeepingIsNotWork ==
    ASSUME NEW w \in Workers, Bookkeeping(w)
    PROVE  worker[w].step # "work"
  <1>1. TakeTask(w) => worker[w].step = "idle"
    <2>1. TakeTask(w) => worker[w] = NoTask
      BY DEF TakeTask
    <2>2. NoTask.step = "idle"
      BY DEF NoTask
    <2>3. QED
      BY <2>1, <2>2
  <1>2. CheckTask(w) => worker[w].step = "check"
    BY DEF CheckTask
  <1>3. WorkerClear(w) => worker[w].step = "clear"
    BY DEF WorkerClear
  <1>4. WorkerSchedule(w) => worker[w].step = "schedule"
    BY DEF WorkerSchedule
  <1>5. WorkerEnqueue(w) => worker[w].step = "enqueue"
    BY DEF WorkerEnqueue
  <1>6. WorkerSend(w) => worker[w].step = "send"
    BY DEF WorkerSend
  <1>7. worker[w].step \in {"idle", "check", "clear", "schedule", "enqueue", "send"}
    BY <1>1, <1>2, <1>3, <1>4, <1>5, <1>6 DEF Bookkeeping
  <1>8. QED
    BY <1>7

(* A step that changes what a worker with a probe under way holds is that  *)
(* worker's own, the answer to its probe.                                  *)
LEMMA AnswersToProbes ==
    ASSUME SupervisorTypeOK, [Next]_vars, NEW w \in Workers, Working(w, "sent"),
           worker'[w] # worker[w]
    PROVE  ProbePassed(w) \/ ProbeFailed(w) \/ ProbeDeferred(w)
  <1>0. worker \in [Workers -> Holding \cup {NoTask}]
    BY DEF SupervisorTypeOK
  <1>1. ASSUME NEW v \in Workers, WorkerStep(v) PROVE v = w
    <2>1. CASE Bookkeeping(v)
      BY <1>0, <2>1 DEF Bookkeeping, TakeTask, CheckTask, WorkerClear, WorkerSchedule,
                        WorkerEnqueue, WorkerSend
    <2>2. ASSUME GiveUp(v) \/ (\E p, delayed : Again(v, p, delayed)) \/ UNCHANGED supervisor
          PROVE  v = w
      BY <1>0, <2>2 DEF GiveUp, Again, supervisor
    <2>3. CASE Look(v)
      BY <2>2, <2>3 DEF Look, LookFor
    <2>4. CASE SendProbe(v) \/ ProbeDeferred(v) \/ enterRecoveryCooldown(v)
      BY <2>2, <2>4 DEF SendProbe, ProbeDeferred, enterRecoveryCooldown, CoolDownThen
    <2>5. ASSUME NEW success \in BOOLEAN, Retry(v, success) PROVE v = w
      BY <2>2, <2>5 DEF Retry
    <2>6. CASE ProbePassed(v)
      BY <2>2, <2>5, <2>6, PassedOrNotYet
    <2>7. CASE ProbeFailed(v)
      BY <2>5, <2>7 DEF ProbeFailed
    <2>8. QED
      BY <1>1, <2>1, <2>3, <2>4, <2>6, <2>7 DEF WorkerStep
  <1>2. WorkerStep(w) => ProbePassed(w) \/ ProbeFailed(w) \/ ProbeDeferred(w)
    <2>1. worker[w].step = "work" /\ probe[w].at = "sent"
      BY DEF Working
    <2>2. ~Bookkeeping(w)
      BY <2>1, BookkeepingIsNotWork
    <2>3. ~Look(w) /\ ~SendProbe(w) /\ ~enterRecoveryCooldown(w)
      BY <2>1 DEF Look, LookFor, SendProbe, enterRecoveryCooldown, CoolDownThen, Working
    <2>4. QED
      BY <2>2, <2>3 DEF WorkerStep
  <1>3. ASSUME NEW r \in Requests, RequestStep(r) \/ \E d \in Deployments : SendRequest(r, d)
        PROVE  UNCHANGED worker
    BY <1>3 DEF RequestStep, SendRequest, RequestSucceeded, RequestFailed, RequestBlamesNobody,
                ModelRetired, RequestRecovers, CheckRetired, Mark, Recover, supervisor
  <1>4. ASSUME NEW d \in Deployments, JobStep(d) PROVE UNCHANGED worker
    BY <1>4 DEF JobStep, JobDecide, JobPassed, JobFailed, JobHandedOver, JobRecovers,
                CheckRetired, Mark, Recover, supervisor
  <1>5. ASSUME NEW d \in Deployments,
               \/ HandStep(d) \/ TimerStep(d) \/ UpstreamSettles(d)
               \/ ReloadIdentity(d) \/ ReloadRemoves(d) \/ ReloadAdds(d)
        PROVE  UNCHANGED worker
    BY <1>5 DEF HandStep, TimerStep, UpstreamSettles, HandEnqueue, EnqueueWithin, HandClear,
                TimerStart, TimerRun, ReloadIdentity, ReloadRemoves, ReloadAdds, supervisor
  <1>6. ReloadStrategy \/ Tick \/ UNCHANGED vars \/ (\E force \in BOOLEAN : SweepStart(force))
          => UNCHANGED worker
    BY DEF ReloadStrategy, cancelAllRecoveries, Tick, SweepStart, vars, supervisor
  <1>7. QED
    BY <1>1, <1>2, <1>3, <1>4, <1>5, <1>6 DEF Next

(* A recovery makes a deployment healthy only in the step in which the     *)
(* probes that passed since its last cooldown reach                        *)
(* recovery_success_threshold.                                             *)
THEOREM ReadmissionsAreEarned == Spec => ReadmissionIsEarned
  <1>1. ASSUME EngineInv, [Next]_vars, NEW w \in Workers, NEW d \in Deployments,
               Working(w, "sent"), TaskOf(w).id = d, isCurrentRecovery(TaskOf(w)),
               worker'[w] # worker[w],
               state[d].status # Healthy, state'[d].status = Healthy
        PROVE  spent'[d].passes >= Threshold
    <2>0. /\ SupervisorTypeOK /\ SpentInv /\ state \in [Deployments -> Entries]
          /\ spent \in [Deployments -> [tries : Nat, passes : Nat]]
      BY <1>1 DEF EngineInv, SupervisorInv, StatesTyped, SpentInv, SpentTyped
    <2>1. ~ProbeDeferred(w)
      BY <1>1 DEF ProbeDeferred, health
    <2>2. ~ProbeFailed(w)
      <3>1. AfterRecordProbeFailure(state[d]).status # Healthy
        BY <1>1 DEF AfterRecordProbeFailure, Entry, Degraded, Healthy
      <3>2. QED
        BY <1>1, <2>0, <3>1 DEF ProbeFailed, Become
    <2>3. ProbePassed(w)
      BY <1>1, <2>0, <2>1, <2>2, AnswersToProbes
    <2>4. TaskOf(w).progress.successes + 1 >= Threshold
      <3>1. AfterRecordRecoverySuccess(state[d]).status # Healthy
        <4>1. state[d] \in Entries
          BY <2>0
        <4>2. QED
          BY <1>1, <4>1 DEF AfterRecordRecoverySuccess, Entries, HalfOpen, Healthy
      <3>2. ~Become(d, AfterRecordRecoverySuccess(state[d]))
        BY <1>1, <2>0, <3>1 DEF Become
      <3>3. QED
        BY <1>1, <2>0, <2>3, <3>2, PassedOrNotYet
    <2>5. spent[d].passes = TaskOf(w).progress.successes
      BY <1>1, <2>0, CurrentTaskAccounts
    <2>6. spent'[d].passes = spent[d].passes + 1
      <3>1. spent' = [spent EXCEPT ![d] = [tries |-> spent[d].tries + 1,
                                           passes |-> spent[d].passes + 1]]
        BY <1>1, <2>3 DEF ProbePassed, Spend, Spent
      <3>2. QED
        BY <2>0, <3>1
    <2>7. QED
      BY <2>4, <2>5, <2>6
  <1>2. EngineInv /\ [Next]_vars =>
          (\/ \A w \in Workers : \A d \in Deployments :
                /\ Working(w, "sent") /\ TaskOf(w).id = d /\ isCurrentRecovery(TaskOf(w))
                /\ worker'[w] # worker[w]
                /\ state[d].status # Healthy /\ state'[d].status = Healthy
                => spent'[d].passes >= Threshold
           \/ UNCHANGED vars)
    BY <1>1
  <1>3. QED
    BY <1>2, EngineKeepsInv, PTL DEF Spec, ReadmissionIsEarned

============================================================================
