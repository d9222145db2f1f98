------------------------------ MODULE VideoJobs ------------------------------
(***************************************************************************)
(* Single-shot video jobs: Create, RunJob, pollAndFinalize,                *)
(* downloadAndComplete, Recover, Cancel and ForceFail of                   *)
(* internal/video/orchestrator/orchestrator.go, the queue and the retry    *)
(* timers of each gateway process, over one job store and one cost ledger  *)
(* that the processes share (the PostgreSQL backends).                     *)
(*                                                                         *)
(* A process of the model is the queue worker of an instance (named like   *)
(* the instance) or a client request.  Each call of the store, the ledger  *)
(* or the provider is one step; between two of them any other process may  *)
(* run.  pc[p] names the call p makes next, task[p] what it holds: the job *)
(* ID, its copy of the record, and the instance it runs in.                *)
(*                                                                         *)
(* One worker stands for the pool of an instance: the others serve other   *)
(* jobs, since a job is never twice in the hands of an instance            *)
(* (OneTokenPerInstance).                                                  *)
(***************************************************************************)
EXTENDS VideoStore

CONSTANTS
    Requests,     \* client requests
    Operators,    \* those of them that also cancel and force-fail jobs
    Key,          \* job ID -> idempotency key of the request that creates it
    Actuals,      \* costs a provider may report
    QueueCap,     \* queue_size of an instance
    Retention,    \* whether job_retention_days is set
    MaxCrashes,   \* bound on process crashes
    MaxFaults     \* bound on failing calls of the store and the ledger

ASSUME VideoAssumption ==
    /\ Requests \cap Instances = {} /\ Operators \subseteq Requests /\ Retention \in BOOLEAN
    /\ QueueCap \in Nat \ {0} /\ MaxCrashes \in Nat /\ MaxFaults \in Nat

VARIABLES
    bills,        \* the cost ledger
    phase,        \* instance -> "down", "recovering" (Runtime.Start) or "up"
    todo,         \* instance -> what Recover listed and has not handled
    queue,        \* instance -> its queue of job IDs
    retry,        \* instance -> jobs with a pending scheduleRetry timer
    pc, task,     \* process -> next call, what it holds
    remote,       \* external: provider job ID -> its state at the provider
    submissions,  \* external: CreateJob calls the provider accepted
    crashes, faults

INSTANCE VideoLedger

vars == <<jobs, bills, phase, todo, queue, retry, pc, task, remote, submissions, crashes, faults>>
instance == <<phase, todo, queue, retry, crashes>>
provider == <<remote, submissions>>

Procs == Instances \cup Requests
NoTask == [id |-> NoJob, rec |-> NoJob, home |-> NoOwner]
Held(p) == task[p].rec
Id(p) == task[p].id
Is(p, label) == pc[p] = label

(* p goes on with the call named label and the record r. *)
Move(p, label, r) ==
    /\ pc' = [pc EXCEPT ![p] = label]
    /\ task' = [task EXCEPT ![p] = IF label = "idle" THEN NoTask ELSE [@ EXCEPT !.rec = r]]
Goto(p, label) == Move(p, label, Held(p))
As(r, state) == [r EXCEPT !.st = state]

(* A call of the database fails; a request's call also fails without      *)
(* effect when its client has gone (the request's context is cancelled).  *)
Fault == faults < MaxFaults /\ faults' = faults + 1
GivesUp(p) == p \in Requests /\ UNCHANGED faults

(* The store refuses an update of a job that is terminal or not there. *)
Refused(j) == Stored(j) => IsTerminal(jobs[j])

(* Store.Update with the record r, then one of the calls in ok.  A call   *)
(* that fails may have taken effect all the same (the answer to the       *)
(* commit was lost).                                                      *)
Update(p, r, ok, err) ==
    LET j == Id(p)
        put == /\ Stored(j) /\ Writable(jobs[j], r)
               /\ jobs' = [jobs EXCEPT ![j] = r]
    IN  \/ put /\ (\E label \in ok : Move(p, label, r)) /\ UNCHANGED faults
        \/ /\ Refused(j)
           /\ Goto(p, err) /\ UNCHANGED <<jobs, faults>>
        \/ Fault /\ Goto(p, err) /\ (put \/ UNCHANGED jobs)
        \/ GivesUp(p) /\ Goto(p, err) /\ UNCHANGED jobs

Enqueue(i, j) == Len(queue[i]) < QueueCap /\ queue' = [queue EXCEPT ![i] = Append(@, j)]
ScheduleRetrySlip(i, j) == UNCHANGED retry
ScheduleRetry(i, j) == retry' = [retry EXCEPT ![i] = @ \cup {j}]
----------------------------------------------------------------------------
(* Create.  What is refused before the reservation changes nothing. *)
SameKeySlip(j) == {k \in Jobs : Stored(k) /\ k = j}
SameKey(j) == {k \in Jobs : Stored(k) /\ Key[k] = Key[j]}
Unused(j) == ~Stored(j) /\ bills[j] = NoRow /\ \A p \in Procs : Id(p) # j
Fresh(state) == [st |-> state, pid |-> NoJob, forced |-> FALSE, owner |-> NoOwner]

CreateStart(p, j, i) ==
    /\ Is(p, "idle") /\ phase[i] = "up" /\ Unused(j) /\ SameKey(j) = {}
    /\ \E dry \in BOOLEAN :
         /\ IF dry THEN UNCHANGED bills ELSE Reserve(j)
         /\ pc' = [pc EXCEPT ![p] = IF dry THEN "dry" ELSE "create"]
         /\ task' = [task EXCEPT ![p] =
                        [id |-> j, rec |-> Fresh(IF dry THEN "dry" ELSE "queued"), home |-> i]]
    /\ UNCHANGED <<jobs, instance, provider, faults>>

(* Store.Create, which decides between requests with one key. *)
CreatePut(p) ==
    LET j == Id(p)
        put == SameKey(j) = {} /\ jobs' = [jobs EXCEPT ![j] = Held(p)]
        no == IF Is(p, "dry") THEN "idle" ELSE "release"
    IN  /\ Is(p, "dry") \/ Is(p, "create")
        /\ \/ put /\ Goto(p, IF Is(p, "dry") THEN "idle" ELSE "enqueue") /\ UNCHANGED faults
           \/ SameKey(j) # {} /\ Goto(p, no) /\ UNCHANGED <<jobs, faults>>
           \/ Fault /\ Goto(p, no) /\ (put \/ UNCHANGED jobs)
           \/ GivesUp(p) /\ Goto(p, no) /\ UNCHANGED jobs
        /\ UNCHANGED <<bills, instance, provider>>

CreateEnqueue(p) ==
    LET i == task[p].home
    IN  /\ Is(p, "enqueue")
        /\ \/ Enqueue(i, Id(p)) /\ Goto(p, "idle")
           \/ Move(p, "refused", As(Held(p), "failed")) /\ UNCHANGED queue   \* full, or the client has gone
        /\ UNCHANGED <<jobs, bills, phase, todo, retry, provider, crashes, faults>>

CreateRefusedSlip(p) ==
    /\ Is(p, "refused") /\ Update(p, Held(p), {"idle"}, "release")
    /\ UNCHANGED <<bills, instance, provider>>
CreateRefused(p) ==
    /\ Is(p, "refused") /\ Update(p, Held(p), {"release"}, "release")
    /\ UNCHANGED <<bills, instance, provider>>
----------------------------------------------------------------------------
(* The ledger call that ends an operation; its failure is only logged. *)
EndBill(p) ==
    /\ \/ /\ Is(p, "release") \/ Is(p, "forceRelease")
          /\ Release(Id(p)) /\ UNCHANGED faults
       \/ /\ Is(p, "bill")
          /\ SettleEstimate(Id(p)) /\ UNCHANGED faults
       \/ /\ pc[p] \in {"release", "forceRelease", "bill"}
          /\ Fault /\ UNCHANGED bills
    /\ Goto(p, "idle")
    /\ UNCHANGED <<jobs, instance, provider>>

(* markNeedsManual, and fail with the settlement that follows it. *)
Manual(p, r) == Move(p, "manual", As(r, "manual"))
Fail(p, r) == Move(p, "fail", As(r, "failed"))
PutEnd(p) ==
    /\ \/ Is(p, "manual") /\ Update(p, Held(p), {"idle"}, "idle")
       \/ Is(p, "fail") /\ Update(p, Held(p), {"bill"}, "idle")
    /\ UNCHANGED <<bills, instance, provider>>
----------------------------------------------------------------------------
(* RunJob: take a job off the queue, claim it and go where its state      *)
(* says.  An admitted job has no provider job ID, the later states have   *)
(* one (SubmissionIsRecorded), so the other combinations are left out.    *)
Resume(i, r) ==
    \/ AtRest(r) /\ UNCHANGED <<pc, task>>
    \/ /\ ~AtRest(r)
       /\ \E next \in CASE r.st = "queued" -> {<<"admit", r>>}
                        [] r.st = "admitted" -> {<<"manual", As(r, "manual")>>}
                        [] OTHER -> {<<"poll", r>>, <<"fail", As(r, "failed")>>} :
            /\ pc' = [pc EXCEPT ![i] = next[1]]
            /\ task' = [task EXCEPT ![i] = [id |-> Head(queue[i]), rec |-> next[2], home |-> i]]

(* Go is what follows the claim: Resume, or an episode's. *)
ClaimNext(i, Go(_, _)) ==
    LET j == Head(queue[i])
        claim == jobs' = [jobs EXCEPT ![j] = Leased(@, i)]
    IN  /\ phase[i] # "down" /\ Is(i, "idle") /\ queue[i] # <<>>
        /\ queue' = [queue EXCEPT ![i] = Tail(@)]
        /\ \/ ~Stored(j) /\ UNCHANGED <<jobs, pc, task, retry, faults>>
           \/ /\ Stored(j) /\ ~Claimable(jobs[j], i)         \* retryAfterLease
              /\ ScheduleRetry(i, j) /\ UNCHANGED <<jobs, pc, task, faults>>
           \/ /\ Stored(j) /\ Claimable(jobs[j], i)
              /\ claim /\ Go(i, Leased(jobs[j], i)) /\ UNCHANGED <<retry, faults>>
           \/ /\ Fault /\ UNCHANGED <<pc, task, retry>>
              /\ \/ Stored(j) /\ Claimable(jobs[j], i) /\ claim
                 \/ UNCHANGED jobs
        /\ UNCHANGED <<bills, phase, todo, provider, crashes>>
RunJob(i) == ClaimNext(i, Resume)

Admit(p) ==
    /\ Is(p, "admit") /\ Update(p, As(Held(p), "admitted"), {"submit"}, "idle")
    /\ UNCHANGED <<bills, instance, provider>>

SubmittedSlip(r, id) == As(r, "submitted")
Submitted(r, id) == [r EXCEPT !.st = "submitted", !.pid = id]

(* CreateJob.  An error, or an answer without an ID, leaves it unknown    *)
(* whether the provider accepted the job.                                 *)
Submit(p) ==
    LET accept == /\ submissions' = [submissions EXCEPT ![Id(p)] = @ + 1]
                  /\ remote' = [remote EXCEPT ![Id(p)] = "running"]
        saved == Submitted(Held(p), Id(p))
    IN  /\ Is(p, "submit")
        /\ \/ Fail(p, Held(p)) /\ UNCHANGED provider          \* the provider is not configured
           \/ Manual(p, Held(p)) /\ (accept \/ UNCHANGED provider)
           \/ Move(p, "save", saved) /\ accept
           \/ Move(p, "saveOdd", saved) /\ accept             \* an inconsistent answer
        /\ UNCHANGED <<jobs, bills, instance, faults>>

Save(p) ==
    /\ \/ Is(p, "save") /\ Update(p, Held(p), {"poll"}, "drop")
       \/ Is(p, "saveOdd") /\ Update(p, Held(p), {"odd"}, "drop")
       \/ Is(p, "odd") /\ Update(p, As(Held(p), "manual"), {"idle"}, "idle")
    /\ UNCHANGED <<bills, instance, provider>>

(* CancelJob stops what still runs. *)
CancelRemote(id) == remote' = [remote EXCEPT ![id] = IF @ = "running" THEN "cancelled" ELSE @]

(* bestEffortCancelProvider *)
Drop(p) ==
    /\ Is(p, "drop") /\ Goto(p, "idle")
    /\ CancelRemote(Held(p).pid) \/ UNCHANGED remote
    /\ UNCHANGED <<jobs, bills, instance, submissions, faults>>
----------------------------------------------------------------------------
(* pollAndFinalize and downloadAndComplete: each round renews the lease. *)
Renew(p) ==
    LET j == Id(p)
        mine == Stored(j) /\ Claimable(jobs[j], p)
        claim == mine /\ jobs' = [jobs EXCEPT ![j] = Leased(@, p)]
    IN  /\ Is(p, "poll")
        /\ \/ claim /\ Move(p, "ask", Leased(Held(p), p)) /\ UNCHANGED faults
           \/ ~mine /\ Goto(p, "idle") /\ UNCHANGED <<jobs, faults>>
           \/ Fault /\ Goto(p, "idle") /\ (claim \/ UNCHANGED jobs)
        /\ UNCHANGED <<bills, instance, provider>>

(* GetJob: no answer, an answer that is refused, or the provider's state. *)
GetJob(p) ==
    LET r == Held(p)
        s == remote[Held(p).pid]
    IN  /\ Is(p, "ask")
        /\ \/ Goto(p, "keep")                    \* lookup failed, or queued or submitted
           \/ Manual(p, r)                       \* another ID, bad progress, unknown state, regression
           \/ s = "running" /\ r.st # "uploading" /\ Move(p, "keep", As(r, "processing"))
           \/ s = "failed" /\ Fail(p, r)
           \/ s = "cancelled" /\ Move(p, "gone", As(r, "cancelled"))
           \/ s = "done" /\ Move(p, "lateManual", As(r, "manual"))    \* no outputs or no sink
           \/ s = "done" /\ Move(p, "upload", As(r, "uploading"))
        /\ UNCHANGED <<jobs, bills, instance, provider, faults>>

(* What is stored after an answer: another round, or the last of MaxPolls *)
(* is over.  The download follows the uploading state; it succeeds, fails *)
(* or yields unusable outputs.                                            *)
PutPolled(p) ==
    /\ \/ Is(p, "keep") /\ Update(p, Held(p), {"poll", "later"}, "idle")
       \/ Is(p, "gone") /\ Update(p, Held(p), {"release"}, "idle")
       \/ Is(p, "later") /\ Update(p, Held(p), {"again"}, "idle")
       \/ Is(p, "upload") /\ Update(p, Held(p), {"commit", "notDownloaded", "lateManual"}, "maybe")
       \/ Is(p, "lateManual") /\ Update(p, As(Held(p), "manual"), {"maybe"}, "maybe")
       \/ Is(p, "notDownloaded") /\ Update(p, Held(p), {"maybe"}, "maybe")
    /\ UNCHANGED <<bills, instance, provider>>

(* The retry after the polling deadline, and the one after an error of    *)
(* downloadAndComplete: only while the stored job is still uploading.     *)
Again(p) ==
    LET j == Id(p)
    IN  /\ \/ Is(p, "again") /\ ScheduleRetry(p, j) /\ UNCHANGED faults
           \/ /\ Is(p, "maybe") /\ UNCHANGED faults
              /\ IF Stored(j) /\ jobs[j].st = "uploading" THEN ScheduleRetry(p, j) ELSE UNCHANGED retry
           \/ Is(p, "maybe") /\ Fault /\ UNCHANGED retry
        /\ Goto(p, "idle")
        /\ UNCHANGED <<jobs, bills, phase, todo, queue, provider, crashes>>

(* lockVideoJobOperation: a lock per job and gateway process, held from   *)
(* the second read of the job to the last call of the commit.             *)
Locked == {"settle", "unsettled", "complete", "forcePut", "forceRelease",
           "settleEpisode", "unsettledEpisode", "completeEpisode"}
Open(r) == ~IsTerminal(r) /\ r.st # "failed"
LockFreeSlip(p) == TRUE
LockFree(p) == \A q \in Procs : task[q].home = task[p].home /\ Id(q) = Id(p) => pc[q] \notin Locked

CommitRead(p) ==
    LET j == Id(p)
    IN  /\ Is(p, "commit") /\ LockFree(p)
        /\ \/ Stored(j) /\ Open(jobs[j]) /\ Move(p, "settle", jobs[j]) /\ UNCHANGED faults
           \/ Stored(j) /\ ~Open(jobs[j]) /\ Goto(p, "idle") /\ UNCHANGED faults
           \/ ~Stored(j) /\ Goto(p, "maybe") /\ UNCHANGED faults
           \/ Fault /\ Goto(p, "maybe")
        /\ UNCHANGED <<jobs, bills, instance, provider>>

(* The cost is settled before the completion is stored. *)
Settle(p) ==
    LET j == Id(p)
        r == Held(p)
        settle == SettleEstimate(j) \/ \E a \in Actuals : SettleActual(j, a)
    IN  /\ Is(p, "settle")
        /\ \/ /\ settle /\ UNCHANGED faults
              /\ IF CanTransition(r.st, "completed")
                 THEN Move(p, "complete", As(r, "completed"))
                 ELSE Goto(p, "maybe")
           \/ /\ \E a \in Actuals : Conflicts(bills[j], a)
              /\ Goto(p, "unsettled") /\ UNCHANGED <<bills, faults>>
           \/ Fault /\ Goto(p, "unsettled") /\ (settle \/ UNCHANGED bills)
        /\ UNCHANGED <<jobs, instance, provider>>

PutCompleted(p) ==
    /\ \/ Is(p, "unsettled") /\ Update(p, Held(p), {"maybe"}, "maybe")
       \/ Is(p, "complete") /\ Update(p, Held(p), {"idle"}, "maybe")
    /\ UNCHANGED <<bills, instance, provider>>
----------------------------------------------------------------------------
Take(p, j, i, label, r) ==
    /\ p \in Operators /\ Is(p, "idle") /\ phase[i] = "up" /\ Stored(j)
    /\ pc' = [pc EXCEPT ![p] = label]
    /\ task' = [task EXCEPT ![p] = [id |-> j, rec |-> r, home |-> i]]

(* Cancel: read, cancel at the provider, write.  No lock is taken.  Every *)
(* state with a provider job ID may become cancelled.                     *)
CancelAs(p, j, i, r) ==
    /\ Take(p, j, i, IF HasId(jobs[j]) THEN "cancelRemote" ELSE "cancelPut", r)
    /\ Open(jobs[j]) /\ CanTransition(jobs[j].st, "cancelled")
    /\ UNCHANGED <<jobs, bills, instance, provider, faults>>
Cancel(p, j, i) == CancelAs(p, j, i, As(jobs[j], "cancelled"))

CancelAtProvider(p) ==
    /\ Is(p, "cancelRemote")
    /\ \/ Goto(p, "idle") /\ UNCHANGED remote
       \/ Goto(p, "cancelPut") /\ CancelRemote(Held(p).pid)
    /\ UNCHANGED <<jobs, bills, instance, submissions, faults>>

CancelPut(p) ==
    /\ Is(p, "cancelPut") /\ Update(p, Held(p), {IF HasId(Held(p)) THEN "bill" ELSE "release"}, "idle")
    /\ UNCHANGED <<bills, instance, provider>>

(* ForceFail: cancel at the provider as far as possible, then under the   *)
(* lock read again, write the operator's mark and release.                *)
ForceFail(p, j, i) ==
    /\ Take(p, j, i, "forceRead", NoJob) /\ Open(jobs[j])
    /\ (HasId(jobs[j]) /\ CancelRemote(jobs[j].pid)) \/ UNCHANGED remote
    /\ UNCHANGED <<jobs, bills, instance, submissions, faults>>

Forced(r) == [As(r, "failed") EXCEPT !.forced = TRUE]
ForceReadAs(p, Mark(_)) ==
    LET r == jobs[Id(p)]
    IN  /\ Is(p, "forceRead") /\ LockFree(p)
        /\ \/ /\ Stored(Id(p)) /\ Open(r)
              /\ Move(p, "forcePut", Mark(r)) /\ UNCHANGED faults
           \/ (Stored(Id(p)) => ~Open(r)) /\ Goto(p, "idle") /\ UNCHANGED faults
           \/ (Fault \/ GivesUp(p)) /\ Goto(p, "idle")
        /\ UNCHANGED <<jobs, bills, instance, provider>>
ForceRead(p) == ForceReadAs(p, Forced)

ForcePut(p) ==
    /\ Is(p, "forcePut") /\ Update(p, Held(p), {"forceRelease"}, "idle")
    /\ UNCHANGED <<bills, instance, provider>>
----------------------------------------------------------------------------
(* scheduleRetry: the timer's goroutine waits for room in the queue. *)
RetryFiresSlip(i) ==
    /\ \E j \in retry[i] : Enqueue(i, j)
    /\ UNCHANGED <<jobs, bills, phase, todo, retry, pc, task, provider, crashes, faults>>
RetryFires(i) ==
    /\ \E j \in retry[i] : Enqueue(i, j) /\ retry' = [retry EXCEPT ![i] = @ \ {j}]
    /\ UNCHANGED <<jobs, bills, phase, todo, pc, task, provider, crashes, faults>>

(* PruneTerminalJobs, for a job that is old enough. *)
Prune(i) ==
    /\ Retention /\ phase[i] = "up"
    /\ \E j \in Jobs : Stored(j) /\ IsTerminal(jobs[j]) /\ jobs' = [jobs EXCEPT ![j] = NoJob]
    /\ UNCHANGED <<bills, instance, pc, task, provider, faults>>

(* The process ends; everything it held in memory is gone. *)
Stop(i) ==
    /\ phase' = [phase EXCEPT ![i] = "down"]
    /\ todo' = [todo EXCEPT ![i] = {}]
    /\ queue' = [queue EXCEPT ![i] = <<>>]
    /\ retry' = [retry EXCEPT ![i] = {}]
    /\ pc' = [p \in Procs |-> IF task[p].home = i THEN "idle" ELSE pc[p]]
    /\ task' = [p \in Procs |-> IF task[p].home = i THEN NoTask ELSE task[p]]
    /\ UNCHANGED <<jobs, bills, provider>>

Crash(i) ==
    /\ phase[i] # "down" /\ crashes < MaxCrashes /\ crashes' = crashes + 1
    /\ Stop(i) /\ UNCHANGED faults

(* The record r after f, wherever a copy of it is. *)
Everywhere(f(_)) ==
    /\ jobs' = [j \in Jobs |-> f(jobs[j])]
    /\ task' = [p \in Procs |-> [task[p] EXCEPT !.rec = f(@)]]

(* Runtime.Start: the workers run while Recover goes through the jobs it  *)
(* listed; requests are served afterwards.  The new process has another   *)
(* lease owner name (host name and process ID), or, in a container, the   *)
(* same one again.                                                        *)
Start(i) ==
    LET former(r) == IF r # NoJob /\ r.owner = i THEN [r EXCEPT !.owner = Former] ELSE r
        same(r) == r
        list == [j \in {k \in Jobs : Stored(k)} |-> jobs'[j]]
    IN  /\ phase[i] = "down"
        /\ Everywhere(former) \/ Everywhere(same)
        /\ phase' = [phase EXCEPT ![i] = "recovering"]
        /\ todo' = [todo EXCEPT ![i] = {[id |-> j, rec |-> list[j]] : j \in DOMAIN list}]
        /\ UNCHANGED <<bills, queue, retry, pc, provider, crashes, faults>>

(* Unknown says of a listed record that its submission cannot be told. *)
RecoverNext(i, Unknown(_)) ==
    \E t \in todo[i] :
        LET manual == As(t.rec, "manual")
        IN  /\ phase[i] = "recovering"
            /\ todo' = [todo EXCEPT ![i] = @ \ {t}]
            /\ \/ AtRest(t.rec) /\ UNCHANGED <<jobs, queue>>
               \/ /\ ~AtRest(t.rec) /\ ~Unknown(t.rec)
                  /\ Enqueue(i, t.id) /\ UNCHANGED jobs
               \/ /\ ~AtRest(t.rec) /\ Unknown(t.rec)
                  /\ Stored(t.id) /\ Writable(jobs[t.id], manual)
                  /\ jobs' = [jobs EXCEPT ![t.id] = manual] /\ UNCHANGED queue
            /\ UNCHANGED <<bills, phase, retry, pc, task, provider, crashes, faults>>

(* An update that is refused or fails ends Start, and with it the process. *)
RecoverStops(i, Unknown(_)) ==
    /\ phase[i] = "recovering"
    /\ \E t \in todo[i] :
         /\ ~AtRest(t.rec) /\ Unknown(t.rec)
         /\ \/ Refused(t.id) /\ UNCHANGED faults
            \/ Fault
    /\ Stop(i) /\ UNCHANGED crashes

MaybeSubmitted(r) == r.st = "admitted"
RecoverJob(i) == RecoverNext(i, MaybeSubmitted)
RecoverFails(i) == RecoverStops(i, MaybeSubmitted)

Serve(i) ==
    /\ phase[i] = "recovering" /\ todo[i] = {}
    /\ phase' = [phase EXCEPT ![i] = "up"]
    /\ UNCHANGED <<jobs, bills, todo, queue, retry, pc, task, provider, crashes, faults>>

(* The TTL of an owner's leases runs out.  It is five minutes: the model  *)
(* assumes that the two consecutive store calls of RunJob that claim a    *)
(* queued job and store it as admitted fit into it.                       *)
LeasesExpire(o) ==
    LET expired(r) == IF r # NoJob /\ r.owner = o THEN [r EXCEPT !.owner = NoOwner] ELSE r
    IN  /\ o \in Instances => ~Is(o, "admit")
        /\ \E j \in Jobs : Stored(j) /\ jobs[j].owner = o
        /\ Everywhere(expired)
        /\ todo' = [i \in Instances |-> {[t EXCEPT !.rec = expired(@)] : t \in todo[i]}]
        /\ UNCHANGED <<bills, phase, queue, retry, pc, provider, crashes, faults>>

(* external: the provider's work ends. *)
RemoteEnds(j) ==
    /\ remote[j] = "running"
    /\ \E s \in {"done", "failed"} : remote' = [remote EXCEPT ![j] = s]
    /\ UNCHANGED <<jobs, bills, instance, pc, task, submissions, faults>>
----------------------------------------------------------------------------
Init ==
    /\ jobs = [j \in Jobs |-> NoJob]
    /\ LedgerInit
    /\ phase \in [Instances -> {"up", "down"}]
    /\ todo = [i \in Instances |-> {}]
    /\ queue = [i \in Instances |-> <<>>]
    /\ retry = [i \in Instances |-> {}]
    /\ pc = [p \in Procs |-> "idle"]
    /\ task = [p \in Procs |-> NoTask]
    /\ remote = [j \in Jobs |-> "none"]
    /\ submissions = [j \in Jobs |-> 0]
    /\ crashes = 0 /\ faults = 0

Step(p) ==
    \/ CreatePut(p) \/ CreateEnqueue(p) \/ CreateRefused(p) \/ EndBill(p) \/ PutEnd(p)
    \/ Admit(p) \/ Submit(p) \/ Save(p) \/ Drop(p)
    \/ Renew(p) \/ GetJob(p) \/ PutPolled(p) \/ Again(p)
    \/ CommitRead(p) \/ Settle(p) \/ PutCompleted(p)
    \/ CancelAtProvider(p) \/ CancelPut(p) \/ ForceRead(p) \/ ForcePut(p)

Request(p, j, i) == CreateStart(p, j, i) \/ Cancel(p, j, i) \/ ForceFail(p, j, i)

Runtime(i) == RunJob(i) \/ RetryFires(i) \/ Start(i) \/ RecoverJob(i) \/ RecoverFails(i) \/ Serve(i)

Next ==
    \/ \E p \in Procs : Step(p)
    \/ \E p \in Requests, j \in Jobs, i \in Instances : Request(p, j, i)
    \/ \E i \in Instances : Runtime(i) \/ Prune(i) \/ Crash(i)
    \/ \E o \in Instances \cup {Former} : LeasesExpire(o)
    \/ \E j \in Jobs : RemoteEnds(j)

Spec == Init /\ [][Next]_vars
(* What the workers are scheduled to do, and nothing of the clients. *)
Fairness ==
    /\ \A i \in Instances :
         /\ WF_vars(RunJob(i) \/ Step(i)) /\ WF_vars(RetryFires(i))
         /\ WF_vars(Start(i) \/ RecoverJob(i) \/ Serve(i))
         /\ SF_vars(GetJob(i) /\ pc'[i] \in {"fail", "gone", "upload"})
         /\ SF_vars(PutPolled(i) /\ pc'[i] = "commit")
    /\ \A p \in Requests : WF_vars(Step(p))
    /\ \A j \in Jobs : WF_vars(RemoteEnds(j))
    /\ \A o \in Instances \cup {Former} :
         WF_vars(LeasesExpire(o) /\ (o \in Instances => Is(o, "idle")))

FairSpec == Spec /\ Fairness
----------------------------------------------------------------------------
(* Stored records and ledger rows are ones the code can have written, and a process that is    *)
(* between two operations holds nothing.                                                       *)
TypeOK ==
    /\ \A j \in Jobs : Stored(j) => jobs[j] \in Records
    /\ \A p \in Procs : Is(p, "idle") <=> task[p] = NoTask
    /\ bills \in [Jobs -> Rows]

(* However crashes, lease expiries, recoveries on other instances, client *)
(* calls and failing store calls interleave, the provider accepts a job   *)
(* at most once (RunJob, "exactly one wins the job").                     *)
OneSubmission == \A j \in Jobs : submissions[j] <= 1

(* RunJob's cases rest on it, even after a write of an old copy of the    *)
(* record: a stored job that is queued was never accepted by the provider *)
(* (it is safe to submit), one in a state after the submission was, and   *)
(* its provider job ID is stored (it can be polled).  Of an admitted job  *)
(* the record tells nothing, and has no ID.                               *)
SubmissionIsRecorded ==
    \A j \in Jobs : Stored(j) =>
        /\ jobs[j].st = "queued" => submissions[j] = 0
        /\ jobs[j].st \in {"dry", "queued", "admitted"} => ~HasId(jobs[j])
        /\ jobs[j].st \in {"submitted", "processing", "uploading", "completed"} =>
             submissions[j] = 1 /\ HasId(jobs[j])

(* While no process crashes and no database call fails, a job that is     *)
(* over and that nobody works on holds no reservation.                    *)
NoReservationLeft ==
    crashes = 0 /\ faults = 0 =>
        \A j \in Jobs :
            /\ bills[j].state = "reserved"
            /\ \A p \in Procs : Id(p) # j
            => Stored(j) /\ (jobs[j].st = "manual" \/ ~AtRest(jobs[j]))

(* lockVideoJobOperation lets an operator force-fail a job "while still   *)
(* preventing completion from winning afterward": in one undisturbed      *)
(* process no completion settles the actual cost of a job that is forced. *)
ForcedIsNotCompleted ==
    \A i \in Instances : Instances = {i} /\ crashes = 0 /\ faults = 0 =>
        \A j \in Jobs : Stored(j) /\ jobs[j].forced => bills[j].state # "actual"

(* Requests with one idempotency key that arrive together are one job,    *)
(* and the loser keeps no reservation.                                    *)
OneJobPerKey ==
    \A j, k \in Jobs : Stored(j) /\ Stored(k) /\ Key[j] = Key[k] => j = k

(* An instance has a job at most once in its queue, its retry timers and  *)
(* its workers: the lease, which an instance may always renew, would not  *)
(* keep two workers of one instance apart.                                *)
Tokens(i, j) ==
    {<<"queue", k>> : k \in {n \in DOMAIN queue[i] : queue[i][n] = j}}
      \cup {<<"retry", k>> : k \in retry[i] \cap {j}}
      \cup {<<"worker", k>> : k \in {Id(i)} \cap {j}}
OneTokenPerInstance ==
    \A i \in Instances, j \in Jobs : \A s, t \in Tokens(i, j) : s = t

(* A job that some instance has in hand ends in a terminal state, failed  *)
(* or awaiting an operator, unless a database call failed on the way.     *)
InHand(j) == \E i \in Instances : Tokens(i, j) # {}
Over(j) == Stored(j) => AtRest(jobs[j])
JobComesToRest == \A j \in Jobs : InHand(j) ~> (Over(j) \/ faults > 0)

(* How a job ended, as its clients see it. *)
Outcome(r) ==
    IF r = NoJob THEN "none"
    ELSE IF r.forced THEN "forced"
    ELSE IF IsTerminal(r) THEN r.st ELSE "open"

(* The gateway keeps what VideoPromise promises: seen from outside, every step of every        *)
(* process is one of the promised ones, or none, whatever crashes, retries and late writes do. *)
Promise == INSTANCE VideoPromise WITH
    status <- [j \in Jobs |-> Outcome(jobs[j])],
    sent <- submissions,
    charge <- bills
KeepsPromise == Promise!Spec
=============================================================================
