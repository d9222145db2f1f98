------------------------ MODULE VideoJobsInvariant -------------------------
(***************************************************************************)
(* The inductive invariant of VideoJobs.  It says what a process may rely  *)
(* on between two calls: which record it holds at each label and what the  *)
(* ledger and the provider then know of the job (Fits), what the store says*)
(* while a job is being created, claimed and submitted (StoreFits), and    *)
(* that nobody else is at these labels with the same job (Apart).          *)
(***************************************************************************)
EXTENDS VideoJobs

Active == {"submitted", "processing", "composing", "uploading"}

Recorded(r) ==
    /\ r.st \in {"dry", "queued", "admitted"} => ~HasId(r)
    /\ r.st \in Active \cup {"completed"} => HasId(r)

(* The labels a client request may be at, the other ones are a worker's. *)
RequestLabels == {"create", "dry", "enqueue", "refused", "release", "bill",
                  "cancelRemote", "cancelPut", "forceRead", "forcePut", "forceRelease"}
(* The job at these labels was accepted by the provider. *)
Polled == {"poll", "ask", "keep", "later", "upload", "commit", "notDownloaded"}
Sent == Polled \cup {"save", "saveOdd", "odd", "lateManual", "gone", "settle", "unsettled", "complete"}
Labels == RequestLabels \cup Sent
          \cup {"idle", "manual", "fail", "admit", "submit", "drop", "again", "maybe"}

(* The record held at label l. *)
Holds(l, r) ==
    /\ l # "forceRead" => r \in Records /\ Recorded(r)
    /\ l = "forceRead" => r = NoJob
    /\ l \in {"create", "enqueue", "admit"} => r.st = "queued"
    /\ l = "create" => ~r.forced
    /\ l = "dry" => r.st = "dry" /\ ~r.forced
    /\ l \in {"refused", "fail", "forcePut"} => r.st = "failed"
    /\ l = "manual" => r.st = "manual"
    /\ l = "submit" => r.st = "admitted"
    /\ l \in {"save", "saveOdd", "odd"} => r.st = "submitted"
    /\ l \in {"cancelRemote", "cancelPut", "gone"} => r.st = "cancelled"
    /\ l \in Polled => r.st \in Active
    /\ l = "lateManual" => r.st \in Active \cup {"manual"}
    /\ l \in {"settle", "unsettled"} => r.st \in Active \cup {"admitted", "manual"}
    /\ l = "complete" => r.st = "completed"

(* What process p may rely on at label l with job j and record r. *)
Fits(p, l, j, r) ==
    /\ l \notin RequestLabels => p \in Instances
    /\ Holds(l, r)
    /\ l = "create" => bills[j].state = "reserved"
    /\ l = "dry" => bills[j] = NoRow
    /\ l # "dry" => bills[j].state # "absent"
    /\ l \in {"create", "admit", "submit"} => submissions[j] = 0
    /\ l \in Sent => submissions[j] = 1
    /\ l = "complete" => Settled(bills[j])

(* What it may rely on in the store. *)
StoreFits(p) ==
    /\ pc[p] \in {"create", "dry"} => ~Stored(Id(p))
    /\ pc[p] = "admit" /\ Stored(Id(p)) => jobs[Id(p)].st # "queued" \/ jobs[Id(p)].owner = p
    /\ pc[p] = "submit" /\ Stored(Id(p)) => jobs[Id(p)].st # "queued"

ProcOK(p) ==
    /\ pc[p] = "idle" => task[p] = NoTask
    /\ pc[p] # "idle" =>
         /\ Id(p) \in Jobs /\ task[p].home \in Instances /\ phase[task[p].home] # "down"
         /\ p \in Instances => task[p].home = p
         /\ Fits(p, pc[p], Id(p), Held(p))

(* Nobody else has the job of a process that creates it, and nobody else   *)
(* is about to submit the job of one that is.                              *)
Apart(p, q) ==
    /\ pc[p] \in {"create", "dry"} => Id(q) # Id(p)
    /\ pc[p] \in {"admit", "submit"} /\ pc[q] \in {"admit", "submit"} => Id(q) # Id(p)

(* A stored record fits the ledger and the provider. *)
RecordOK(j, r) ==
    /\ Recorded(r)
    /\ r.st # "dry" => bills[j].state # "absent"
    /\ r.st = "queued" => submissions[j] = 0
    /\ r.st \in Active \cup {"completed"} => submissions[j] = 1

JobOK(j) ==
    /\ bills[j].state = "absent" => submissions[j] = 0
    /\ Stored(j) => RecordOK(j, jobs[j])

Tasks == [id : Jobs \cup {NoJob}, rec : Records \cup {NoJob}, home : Instances \cup {NoOwner}]

InstancesTyped ==
    /\ phase \in [Instances -> {"down", "recovering", "up"}]
    /\ todo \in [Instances -> SUBSET [id : Jobs, rec : Records]]
    /\ queue \in [Instances -> Seq(Jobs)]
    /\ retry \in [Instances -> SUBSET Jobs]

Typed ==
    /\ jobs \in [Jobs -> Records \cup {NoJob}]
    /\ bills \in [Jobs -> Rows]
    /\ submissions \in [Jobs -> {0, 1}]
    /\ pc \in [Procs -> Labels]
    /\ task \in [Procs -> Tasks]

JobsInv == \A j \in Jobs : JobOK(j)
ProcsInv == \A p \in Procs : ProcOK(p) /\ StoreFits(p)
ApartInv == \A p, q \in Procs : p # q => Apart(p, q)

IInv == Typed /\ InstancesTyped /\ OneJobPerKey /\ JobsInv /\ ProcsInv /\ ApartInv

(* x is the record y but for the lease. *)
Reowned(x, y) ==
    /\ y = NoJob => x = NoJob
    /\ y \in Records => x \in Records /\ x.st = y.st /\ x.pid = y.pid /\ x.forced = y.forced
============================================================================
