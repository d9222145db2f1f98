-------------------------- MODULE VideoJobsProofs ---------------------------
(***************************************************************************)
(* Proofs about VideoJobs: the provider accepts a job at most once, the    *)
(* record says whether it did, one idempotency key is one job, and the     *)
(* gateway keeps VideoPromise, for any number of instances, requests, jobs,*)
(* crashes and failing calls.                                              *)
(*                                                                         *)
(* The inductive invariant is IInv of VideoJobsInvariant.                  *)
(*                                                                         *)
(* NextKeeps takes the actions one by one: between the calls of one        *)
(* operation; settling, submission, claim, lease and the beginnings of     *)
(* operations; creation and the steps of the instances themselves.         *)
(***************************************************************************)
EXTENDS VideoJobsInvariant, TLAPS

(* Zenon proves the steps that name no prover; those with arithmetic or *)
(* records name SMT.                                                    *)
USE ZenonT(30)

----------------------------------------------------------------------------
(* What the steps below speak of *)

(* What the record w may replace in the store while the ledger and the     *)
(* provider stay as they are.                                              *)
Replaces(j, w) == Stored(j) /\ w \in Records /\ RecordOK(j, w) /\ w.st # "queued"

(* A row never becomes absent again, and a settled one stays settled. *)
Onward(x, y) == y \in Rows /\ y.state # "absent" /\ (Settled(x) => Settled(y))

(* The row x, moved as the promise allows. *)
Billed(x, y) ==
    \/ x.state = "reserved" /\ y = [x EXCEPT !.state = "released"]
    \/ x.state \in {"reserved", "released"} /\ y = [x EXCEPT !.state = "estimate"]
    \/ /\ x.state \in {"reserved", "released", "estimate"}
       /\ \E a \in Actuals : y = [state |-> "actual", actual |-> a]

(* Where p may go with its job and the record r. *)
Target(p, l, r) ==
    /\ l \in Labels /\ l \notin {"create", "dry", "admit"}
    /\ l # "idle" => Fits(p, l, Id(p), r)

WriteLabels == {"refused", "manual", "fail", "save", "saveOdd", "keep", "gone", "later", "upload",
                "notDownloaded", "lateManual", "unsettled", "complete", "cancelPut", "forcePut"}

(* What a step shows of the promise. *)
Kept == [Promise!Next]_(Promise!vars)

----------------------------------------------------------------------------
(* Small facts *)

LEMMA NotRecord == ASSUME NEW r \in Records PROVE r # NoJob
  BY StoreAssumption

(* Records after the changes the code makes to its copies. *)
LEMMA AsRecord ==
    ASSUME NEW r \in Records, NEW s \in JobStates
    PROVE  /\ As(r, s) \in Records /\ As(r, s).st = s
           /\ As(r, s).pid = r.pid /\ As(r, s).forced = r.forced /\ As(r, s).owner = r.owner
  BY DEF As, Records

LEMMA LeasedRecord ==
    ASSUME NEW r \in Records, NEW i \in Instances
    PROVE  /\ Leased(r, i) \in Records /\ Leased(r, i).st = r.st /\ Leased(r, i).owner = i
           /\ Leased(r, i).pid = r.pid /\ Leased(r, i).forced = r.forced
  BY DEF Leased, Records

LEMMA ReownedRecords ==
    ASSUME NEW r \in Records \cup {NoJob}, NEW o, NEW n \in Instances \cup {NoOwner, Former}
    PROVE  LET x == IF r # NoJob /\ r.owner = o THEN [r EXCEPT !.owner = n] ELSE r
           IN  Reowned(x, r) /\ x \in Records \cup {NoJob}
  BY NotRecord DEF Reowned, Records

LEMMA IdleHasNoJob == ASSUME NEW q, task[q] = NoTask PROVE Id(q) = NoJob
  BY SMTT(30) DEF Id, NoTask

LEMMA NoRowIsAbsent == ASSUME NEW j, bills[j] = NoRow PROVE bills[j].state = "absent"
  BY SMTT(30) DEF NoRow

(* What a process relies on at its label. *)
LEMMA AtLabel ==
    ASSUME IInv, NEW p \in Procs, pc[p] # "idle"
    PROVE  /\ Id(p) \in Jobs /\ Fits(p, pc[p], Id(p), Held(p)) /\ Typed /\ JobOK(Id(p))
           /\ pc[p] # "forceRead" => Held(p) \in Records
           /\ Held(p) \in Records \cup {NoJob}
           /\ jobs[Id(p)] \in Records \cup {NoJob} /\ bills[Id(p)] \in Rows
           /\ submissions[Id(p)] \in {0, 1} /\ pc[p] \in Labels
  <1>1. ProcOK(p) /\ Typed
    BY DEF IInv, ProcsInv
  <1>2. Id(p) \in Jobs /\ Fits(p, pc[p], Id(p), Held(p))
    BY <1>1 DEF ProcOK
  <1>3. JobOK(Id(p))
    BY <1>2 DEF IInv, JobsInv
  <1>4. (pc[p] # "forceRead" => Held(p) \in Records) /\ Held(p) \in Records \cup {NoJob}
    BY <1>2 DEF Fits, Holds
  <1>5. QED
    BY <1>1, <1>2, <1>3, <1>4 DEF Typed

LEMMA InitInv ==
    ASSUME Init
    PROVE  IInv /\ Promise!Init
  <1> USE DEF Init, LedgerInit
  <1>1. Typed /\ InstancesTyped
    <2>1. NoTask \in Tasks /\ NoRow \in Rows /\ "idle" \in Labels /\ <<>> \in Seq(Jobs)
      BY SMTT(30) DEF NoTask, Tasks, NoRow, Rows, RowStates, Labels
    <2>2. QED
      BY <2>1 DEF Typed, InstancesTyped
  <1>2. OneJobPerKey /\ JobsInv
    BY DEF OneJobPerKey, JobsInv, JobOK, Stored
  <1>3. ProcsInv /\ ApartInv
    BY DEF ProcsInv, ApartInv, ProcOK, StoreFits, Apart
  <1>4. Promise!Init
    <2>1. Outcome(NoJob) = "none"
      BY DEF Outcome
    <2>2. QED
      BY <2>1 DEF Promise!Init, NoRow
  <1>5. QED
    BY <1>1, <1>2, <1>3, <1>4 DEF IInv

----------------------------------------------------------------------------
(* The steps.  The first ones are general: a process goes on with its job  *)
(* (Turn), writes its record (UpdateStep), settles (BillTurn) or only moves *)
(* (SilentTurn); the others take one action each.                           *)

(* Every step of every process keeps the invariant and the promise. *)
LEMMA NextKeeps == IInv /\ [Next]_vars => IInv' /\ Kept
  (* A process goes on with its job: it may have written the record, moved   *)
  (* the row of the ledger or scheduled the job again.                       *)
  <1>Turn. ASSUME IInv, NEW p \in Procs, pc[p] \notin {"idle", "create", "dry"},
               NEW l, NEW r \in Records \cup {NoJob}, Move(p, l, r), Target(p, l, r)',
               NEW w, jobs' = [jobs EXCEPT ![Id(p)] = w], w = jobs[Id(p)] \/ Replaces(Id(p), w),
               NEW b, bills' = [bills EXCEPT ![Id(p)] = b], Onward(bills[Id(p)], b),
               l = "submit" => pc[p] = "admit" /\ w \in Records /\ w.st # "queued",
               submissions' = submissions, phase' = phase, InstancesTyped'
        PROVE  IInv'
    <2> USE <1>Turn
    <2> DEFINE j == Id(p)
    <2>a. /\ j \in Jobs /\ task[p].home \in Instances /\ phase[task[p].home] # "down"
          /\ p \in Instances => task[p].home = p
          /\ jobs[j] \in Records \cup {NoJob} /\ l \in Labels
      <3>1. l \in Labels
        BY DEF Target
      <3>2. ProcOK(p) /\ pc[p] # "idle"
        BY DEF IInv, ProcsInv
      <3>3. QED
        BY <3>1, <3>2 DEF IInv, Typed, ProcOK
    <2>1. Typed'
      <3>1. [task[p] EXCEPT !.rec = r] \in Tasks /\ NoTask \in Tasks
        BY SMTT(30) DEF IInv, Typed, Tasks, NoTask
      <3>2. task' \in [Procs -> Tasks]
        BY <3>1 DEF IInv, Typed, Move
      <3>3. jobs' \in [Jobs -> Records \cup {NoJob}] /\ bills' \in [Jobs -> Rows]
        BY <2>a DEF IInv, Typed, Replaces, Onward
      <3>4. QED
        BY <2>a, <3>2, <3>3 DEF IInv, Typed, Move
    <2>2. OneJobPerKey'
      BY <2>a, SMTT(30) DEF IInv, Typed, OneJobPerKey, Stored, Replaces
    <2>3. JobsInv'
      <3> SUFFICES ASSUME NEW k \in Jobs PROVE JobOK(k)'
        BY DEF JobsInv
      <3>1. JobOK(k)
        BY DEF IInv, JobsInv
      <3>2. CASE k # j
        BY <2>a, <3>1, <3>2 DEF JobOK, RecordOK, Stored, IInv, Typed
      <3>3. CASE k = j
        BY <2>a, <3>1, <3>3 DEF JobOK, RecordOK, Stored, IInv, Typed, Replaces, Onward
      <3>4. QED
        BY <3>2, <3>3
    <2>4. ASSUME NEW q \in Procs, q # p
          PROVE  /\ pc'[q] = pc[q] /\ task'[q] = task[q] /\ Id(q)' = Id(q) /\ Held(q)' = Held(q)
                 /\ ProcOK(q) /\ StoreFits(q) /\ Apart(p, q) /\ Apart(q, p)
      BY <2>4 DEF IInv, Typed, Move, Id, Held, ProcsInv, ApartInv
    <2>5. /\ pc'[p] = l /\ task'[p] = (IF l = "idle" THEN NoTask ELSE [task[p] EXCEPT !.rec = r])
          /\ l # "idle" => Id(p)' = j /\ Held(p)' = r /\ task'[p].home = task[p].home
      BY SMTT(30) DEF IInv, Typed, Move, Tasks, Id, Held
    <2>6. ASSUME NEW q \in Procs, q # p
          PROVE  ProcOK(q)'
      <3>1. CASE pc[q] = "idle"
        BY <2>4, <2>6, <3>1 DEF ProcOK
      <3>2. CASE pc[q] # "idle"
        <4>1. Fits(q, pc[q], Id(q), Held(q)) /\ Id(q) \in Jobs
          BY <2>4, <2>6, <3>2 DEF ProcOK
        <4>2. pc[q] \in {"create", "dry"} => Id(q) # j
          BY <2>4, <2>6 DEF Apart
        <4>3. Fits(q, pc[q], Id(q), Held(q))'
          <5>1. CASE Id(q) = j
            BY <2>4, <2>6, <4>1, <4>2, <5>1, <2>a DEF Fits, Onward, IInv, Typed
          <5>2. CASE Id(q) # j
            BY <2>4, <2>6, <4>1, <4>2, <5>2, <2>a DEF Fits, IInv, Typed
          <5>3. QED
            BY <5>1, <5>2
        <4>4. QED
          BY <2>4, <2>6, <3>2, <4>1, <4>3 DEF ProcOK
      <3>3. QED
        BY <3>1, <3>2
    <2>7. ASSUME NEW q \in Procs, q # p
          PROVE  StoreFits(q)'
      <3>1. pc[q] \in {"create", "dry"} => Id(q) # j
        BY <2>4, <2>7 DEF Apart
      <3>2. pc[q] # "idle" => Id(q) \in Jobs
        BY <2>4, <2>7 DEF ProcOK
      <3>3. QED
        BY <2>4, <2>7, <3>1, <3>2, <2>a, SMTT(30) DEF StoreFits, Stored, Replaces, IInv, Typed
    <2>8. ProcOK(p)'
      BY <2>a, <2>5 DEF ProcOK, Target
    <2>9. StoreFits(p)'
      BY <2>a, <2>5 DEF StoreFits, Target, IInv, Typed
    <2>10. ASSUME NEW q \in Procs, q # p
           PROVE  Apart(p, q)' /\ Apart(q, p)'
      <3>1. l \notin {"create", "dry", "admit"} /\ (l = "submit" => pc[p] = "admit")
        BY DEF Target
      <3>2. l = "idle" => Id(p)' = NoJob
        BY <2>5, SMTT(30) DEF Id, NoTask
      <3>3. pc[q] # "idle" => Id(q) # NoJob
        BY <2>4, <2>10, StoreAssumption DEF ProcOK
      <3>4. QED
        BY <2>4, <2>5, <2>10, <3>1, <3>2, <3>3 DEF Apart
    <2>11. ProcsInv' /\ ApartInv'
      <3>1. ASSUME NEW q1 \in Procs, NEW q2 \in Procs, q1 # q2, q1 # p, q2 # p
            PROVE  Apart(q1, q2)'
        BY <2>4, <3>1, SMTT(30) DEF Apart, IInv, ApartInv
      <3>2. QED
        BY <2>6, <2>7, <2>8, <2>9, <2>10, <3>1 DEF ProcsInv, ApartInv
    <2>12. QED
      BY <2>1, <2>2, <2>3, <2>11 DEF IInv
  <1>NothingSeen. ASSUME jobs' = jobs, bills' = bills, submissions' = submissions
        PROVE  Kept
    BY <1>NothingSeen DEF Kept, Promise!vars
  (* A record is replaced by one with the same outcome, or a job that is not *)
  (* over ends as the promise allows.                                        *)
  <1>WriteIsKept. ASSUME Typed, NEW j \in Jobs, Stored(j), NEW w \in Records,
               jobs' = [jobs EXCEPT ![j] = w], bills' = bills, submissions' = submissions,
               \/ Outcome(w) = Outcome(jobs[j])
               \/ /\ ~IsTerminal(jobs[j]) /\ w.st # "dry"
                  /\ w.st = "completed" => submissions[j] = 1 /\ Settled(bills[j])
        PROVE  Kept
    <2> USE <1>WriteIsKept
    <2> DEFINE status == [k \in Jobs |-> Outcome(jobs[k])]
    <2>1. [k \in Jobs |-> Outcome(jobs[k])]' = [status EXCEPT ![j] = Outcome(w)]
      BY DEF Typed
    <2>3. CASE Outcome(w) = Outcome(jobs[j])
      <3>1. [k \in Jobs |-> Outcome(jobs[k])]' = status
        BY <2>1, <2>3
      <3>2. QED
        BY <3>1 DEF Kept, Promise!vars
    <2>4. CASE Outcome(w) # Outcome(jobs[j])
      <3>1. jobs[j] \in Records /\ jobs[j] # NoJob /\ w # NoJob
        BY NotRecord DEF Typed, Stored
      <3>2. Outcome(jobs[j]) = "open"
        BY <2>4, <3>1 DEF Outcome, IsTerminal, Records
      <3>3. Outcome(w) \in {"forced", "completed", "cancelled"}
        BY <2>4, <3>1, <3>2 DEF Outcome, IsTerminal, Records
      <3>4. Outcome(w) = "completed" => submissions[j] = 1 /\ bills[j].state \in {"estimate", "actual"}
        BY <2>4, <3>1 DEF Outcome, IsTerminal, Records, Settled
      <3>5. Promise!End(j)
        BY <2>1, <3>2, <3>3, <3>4 DEF Promise!End, Promise!Ends, Promise!Paid, Promise!Is
      <3>6. QED
        BY <3>5 DEF Kept, Promise!Next
    <2>5. QED
      BY <2>3, <2>4
  (* A row of the ledger stays, or moves as the promise allows. *)
  <1>BillIsKept. ASSUME Typed, NEW j \in Jobs, NEW b \in Rows,
               bills' = [bills EXCEPT ![j] = b], jobs' = jobs, submissions' = submissions,
               b = bills[j] \/ Billed(bills[j], b)
        PROVE  Kept
    <2> USE <1>BillIsKept
    <2>2. [k \in Jobs |-> Outcome(jobs[k])]' = [k \in Jobs |-> Outcome(jobs[k])]
      OBVIOUS
    <2>3. CASE b = bills[j]
      <3>1. bills' = bills
        BY <2>3 DEF Typed
      <3>2. QED
        BY <2>2, <3>1 DEF Kept, Promise!vars
    <2>4. CASE Billed(bills[j], b)
      <3>1. Promise!Bill(j)
        BY <2>2, <2>4 DEF Promise!Bill, Promise!Is, Billed
      <3>2. QED
        BY <3>1 DEF Kept, Promise!Next
    <2>5. QED
      BY <2>3, <2>4
  (* A process writes its record and goes on.  The record it writes must fit *)
  (* the job, and so must what it holds at the label it goes to.             *)
  <1>UpdateStep. ASSUME IInv, NEW p \in Procs, pc[p] \notin {"idle", "create", "dry"},
               NEW r \in Records, NEW ok, NEW err, Update(p, r, ok, err),
               UNCHANGED <<bills, instance, provider>>,
               RecordOK(Id(p), r), r.st \notin {"queued", "dry"},
               r.st = "completed" => Settled(bills[Id(p)]),
               \A l \in ok : Target(p, l, r) /\ (l = "submit" => pc[p] = "admit"),
               Target(p, err, Held(p)), err # "submit"
        PROVE  IInv' /\ Kept
    <2> USE <1>UpdateStep
    <2> DEFINE j == Id(p)
    <2>a. /\ j \in Jobs /\ jobs[j] \in Records \cup {NoJob} /\ Held(p) \in Records \cup {NoJob}
          /\ bills[j] \in Rows /\ bills[j].state # "absent"
      <3>1. ProcOK(p) /\ pc[p] # "idle"
        BY DEF IInv, ProcsInv
      <3>2. QED
        BY <3>1 DEF IInv, Typed, ProcOK, Fits, Held, Tasks
    <2>b. /\ bills' = [bills EXCEPT ![j] = bills[j]] /\ Onward(bills[j], bills[j])
          /\ submissions' = submissions /\ phase' = phase /\ bills' = bills
      BY <2>a DEF instance, provider, Onward, IInv, Typed
    <2>c. InstancesTyped'
      BY DEF IInv, InstancesTyped, instance
    <2>d. ASSUME NEW l, NEW x, Move(p, l, x), Target(p, l, x) PROVE Target(p, l, x)'
      <3>1. l # "idle" => Id(p)' = Id(p)
        BY <2>d DEF Move, Id, IInv, Typed, Tasks
      <3>2. QED
        BY <2>b, <2>d, <3>1 DEF Target, Fits
    <2>1. ASSUME NEW l, NEW x \in Records \cup {NoJob}, Move(p, l, x), Target(p, l, x),
                 l # "submit", jobs' = jobs
          PROVE  IInv' /\ Kept
      <3>1. jobs' = [jobs EXCEPT ![j] = jobs[j]]
        BY <2>1, <2>a DEF IInv, Typed
      <3>2. IInv'
        BY <2>1, <2>a, <2>b, <2>c, <2>d, <3>1, <1>Turn
      <3>3. QED
        BY <2>1, <2>b, <3>2, <1>NothingSeen
    <2>2. ASSUME NEW l, NEW x \in Records \cup {NoJob}, Move(p, l, x), Target(p, l, x),
                 l = "submit" => pc[p] = "admit",
                 Stored(j), Writable(jobs[j], r), jobs' = [jobs EXCEPT ![j] = r]
          PROVE  IInv' /\ Kept
      <3>1. Replaces(j, r)
        BY <2>2 DEF Replaces
      <3>2. IInv'
        BY <2>2, <2>a, <2>b, <2>c, <2>d, <3>1, <1>Turn
      <3>3. Outcome(r) = Outcome(jobs[j]) \/ ~IsTerminal(jobs[j])
        BY <2>2 DEF Writable
      <3>4. r.st = "completed" => submissions[j] = 1
        BY DEF RecordOK
      <3>5. Typed
        BY DEF IInv
      <3>6. Kept
        BY <2>2, <2>a, <2>b, <3>3, <3>4, <3>5, <1>WriteIsKept
      <3>7. QED
        BY <3>2, <3>6
    <2>3. CASE \E l \in ok : /\ Stored(j) /\ Writable(jobs[j], r)
                             /\ jobs' = [jobs EXCEPT ![j] = r] /\ Move(p, l, r)
      BY <2>2, <2>3
    <2>4. CASE /\ Stored(j) /\ Writable(jobs[j], r)
               /\ jobs' = [jobs EXCEPT ![j] = r] /\ Goto(p, err)
      BY <2>2, <2>4, <2>a DEF Goto
    <2>5. CASE jobs' = jobs /\ Goto(p, err)
      BY <2>1, <2>5, <2>a DEF Goto
    <2>6. QED
      BY <2>3, <2>4, <2>5 DEF Update
  (* The copy held at these labels may be written. *)
  <1>HeldMayBeWritten. ASSUME IInv, NEW p \in Procs, pc[p] \in WriteLabels
        PROVE  /\ Held(p) \in Records /\ RecordOK(Id(p), Held(p))
               /\ Held(p).st \notin {"queued", "dry"}
               /\ Held(p).st = "completed" => Settled(bills[Id(p)])
    <2> USE <1>HeldMayBeWritten
    <2>1. /\ pc[p] \notin {"idle", "forceRead", "dry"}
          /\ Fits(p, pc[p], Id(p), Held(p)) /\ Held(p) \in Records
      BY AtLabel DEF WriteLabels
    <2>2. QED
      BY <2>1 DEF WriteLabels, Fits, Holds, RecordOK, Polled, Sent, Active
  <1>CreateRefusedStep. ASSUME IInv, NEW p \in Procs, CreateRefused(p)
        PROVE  IInv' /\ Kept
    <2> USE <1>CreateRefusedStep
    <2>1. pc[p] = "refused" /\ Update(p, Held(p), {"release"}, "release")
      BY DEF CreateRefused, Is
    <2>2. Target(p, "release", Held(p))
      BY <2>1, AtLabel DEF Target, Fits, Holds, Labels, Sent, Polled, RequestLabels
    <2>3. QED
      BY <2>1, <2>2, <1>HeldMayBeWritten, <1>UpdateStep, SMTT(30) DEF CreateRefused, WriteLabels
  <1>PutEndStep. ASSUME IInv, NEW p \in Procs, PutEnd(p)
        PROVE  IInv' /\ Kept
    <2> USE <1>PutEndStep
    <2>1. Target(p, "idle", Held(p))
      BY DEF Target, Labels
    <2>2. CASE pc[p] = "manual" /\ Update(p, Held(p), {"idle"}, "idle")
      BY <2>1, <2>2, <1>HeldMayBeWritten, <1>UpdateStep, SMTT(30) DEF PutEnd, WriteLabels
    <2>3. CASE pc[p] = "fail" /\ Update(p, Held(p), {"bill"}, "idle")
      <3>1. Target(p, "bill", Held(p))
        BY <2>3, AtLabel DEF Target, Fits, Holds, Labels, Sent, Polled, RequestLabels
      <3>2. QED
        BY <2>1, <2>3, <3>1, <1>HeldMayBeWritten, <1>UpdateStep, SMTT(30) DEF PutEnd, WriteLabels
    <2>4. QED
      BY <2>2, <2>3 DEF PutEnd, Is
  <1>AdmitStep. ASSUME IInv, NEW p \in Procs, Admit(p)
        PROVE  IInv' /\ Kept
    <2> USE <1>AdmitStep
    <2> DEFINE r == As(Held(p), "admitted")
    <2>1. pc[p] = "admit" /\ Update(p, r, {"submit"}, "idle")
      BY DEF Admit, Is
    <2>2. Target(p, "idle", Held(p))
      BY DEF Target, Labels
    <2>3. r \in Records /\ r.st = "admitted" /\ r.pid = Held(p).pid
      BY <2>1, AtLabel, AsRecord, SMTT(30) DEF JobStates
    <2>4. Target(p, "submit", r) /\ RecordOK(Id(p), r)
      BY <2>1, <2>3, AtLabel DEF Target, Fits, Holds, Labels, Sent, Polled, RequestLabels, RecordOK, Active, Recorded, HasId
    <2>5. QED
      BY <2>1, <2>2, <2>3, <2>4, <1>UpdateStep, SMTT(30) DEF Admit
  <1>SaveStep. ASSUME IInv, NEW p \in Procs, Save(p)
        PROVE  IInv' /\ Kept
    <2> USE <1>SaveStep
    <2>1. CASE pc[p] = "save" /\ Update(p, Held(p), {"poll"}, "drop")
      <3>1. Target(p, "poll", Held(p)) /\ Target(p, "drop", Held(p))
        BY <2>1, AtLabel DEF Target, Fits, Holds, Labels, Sent, Polled, Active, RequestLabels
      <3>2. QED
        BY <2>1, <3>1, <1>HeldMayBeWritten, <1>UpdateStep, SMTT(30) DEF Save, WriteLabels
    <2>2. CASE pc[p] = "saveOdd" /\ Update(p, Held(p), {"odd"}, "drop")
      <3>1. Target(p, "odd", Held(p)) /\ Target(p, "drop", Held(p))
        BY <2>2, AtLabel DEF Target, Fits, Holds, Labels, Sent, Polled, Active, RequestLabels
      <3>2. QED
        BY <2>2, <3>1, <1>HeldMayBeWritten, <1>UpdateStep, SMTT(30) DEF Save, WriteLabels
    <2>3. CASE pc[p] = "odd" /\ Update(p, As(Held(p), "manual"), {"idle"}, "idle")
      <3> DEFINE r == As(Held(p), "manual")
      <3>1. r \in Records /\ r.st = "manual"
        BY <2>3, AtLabel, AsRecord DEF JobStates
      <3>2. RecordOK(Id(p), r)
        BY <2>3, <3>1, AtLabel DEF RecordOK, Recorded, Active, Fits
      <3>3. Target(p, "idle", r) /\ Target(p, "idle", Held(p))
        BY DEF Target, Labels
      <3>4. QED
        BY <2>3, <3>1, <3>2, <3>3, <1>UpdateStep, SMTT(30) DEF Save
    <2>4. QED
      BY <2>1, <2>2, <2>3 DEF Save, Is
  <1>PutPolledStep. ASSUME IInv, NEW p \in Procs, PutPolled(p)
        PROVE  IInv' /\ Kept
    <2> USE <1>PutPolledStep
    <2> DEFINE r == Held(p)
    <2>0. Target(p, "idle", r)
      BY DEF Target, Labels
    <2>1. CASE pc[p] = "keep" /\ Update(p, r, {"poll", "later"}, "idle")
      <3>1. Target(p, "poll", r) /\ Target(p, "later", r)
        BY <2>1, AtLabel DEF Target, Fits, Holds, Labels, Sent, Polled, RequestLabels
      <3>2. QED
        BY <2>0, <2>1, <3>1, <1>HeldMayBeWritten, <1>UpdateStep, SMTT(30) DEF PutPolled, WriteLabels
    <2>2. CASE pc[p] = "gone" /\ Update(p, r, {"release"}, "idle")
      <3>1. Target(p, "release", r)
        BY <2>2, AtLabel DEF Target, Fits, Holds, Labels, Sent, Polled, RequestLabels
      <3>2. QED
        BY <2>0, <2>2, <3>1, <1>HeldMayBeWritten, <1>UpdateStep, SMTT(30) DEF PutPolled, WriteLabels
    <2>3. CASE pc[p] = "later" /\ Update(p, r, {"again"}, "idle")
      <3>1. Target(p, "again", r)
        BY <2>3, AtLabel DEF Target, Fits, Holds, Labels, Sent, Polled, RequestLabels
      <3>2. QED
        BY <2>0, <2>3, <3>1, <1>HeldMayBeWritten, <1>UpdateStep, SMTT(30) DEF PutPolled, WriteLabels
    <2>4. CASE pc[p] = "upload" /\ Update(p, r, {"commit", "notDownloaded", "lateManual"}, "maybe")
      <3>1. /\ Target(p, "commit", r) /\ Target(p, "notDownloaded", r)
            /\ Target(p, "lateManual", r) /\ Target(p, "maybe", r)
        BY <2>4, AtLabel DEF Target, Fits, Holds, Labels, Sent, Polled, RequestLabels
      <3>2. QED
        BY <2>4, <3>1, <1>HeldMayBeWritten, <1>UpdateStep, SMTT(30) DEF PutPolled, WriteLabels
    <2>5. CASE pc[p] = "lateManual" /\ Update(p, As(r, "manual"), {"maybe"}, "maybe")
      <3>1. As(r, "manual") \in Records /\ As(r, "manual").st = "manual"
        BY <2>5, AtLabel, AsRecord DEF JobStates
      <3>2. RecordOK(Id(p), As(r, "manual"))
        BY <2>5, <3>1, AtLabel DEF RecordOK, Recorded, Active, Fits
      <3>3. Target(p, "maybe", As(r, "manual")) /\ Target(p, "maybe", r)
        BY <2>5, <3>1, <3>2, AtLabel DEF Target, Fits, Holds, Labels, Sent, Polled, RequestLabels, RecordOK
      <3>4. QED
        BY <2>5, <3>1, <3>2, <3>3, <1>UpdateStep, SMTT(30) DEF PutPolled
    <2>6. CASE pc[p] = "notDownloaded" /\ Update(p, r, {"maybe"}, "maybe")
      <3>1. Target(p, "maybe", r)
        BY <2>6, AtLabel DEF Target, Fits, Holds, Labels, Sent, Polled, RequestLabels
      <3>2. QED
        BY <2>6, <3>1, <1>HeldMayBeWritten, <1>UpdateStep, SMTT(30) DEF PutPolled, WriteLabels
    <2>7. QED
      BY <2>1, <2>2, <2>3, <2>4, <2>5, <2>6 DEF PutPolled, Is
  <1>PutCompletedStep. ASSUME IInv, NEW p \in Procs, PutCompleted(p)
        PROVE  IInv' /\ Kept
    <2> USE <1>PutCompletedStep
    <2> DEFINE r == Held(p)
    <2>1. pc[p] \in {"unsettled", "complete"}
      BY DEF PutCompleted, Is
    <2>2. Target(p, "maybe", r) /\ Target(p, "idle", r)
      BY <2>1, AtLabel DEF Target, Fits, Holds, Labels, Sent, Polled, RequestLabels
    <2>3. CASE pc[p] = "unsettled" /\ Update(p, r, {"maybe"}, "maybe")
      BY <2>2, <2>3, <1>HeldMayBeWritten, <1>UpdateStep, SMTT(30) DEF PutCompleted, WriteLabels
    <2>4. CASE pc[p] = "complete" /\ Update(p, r, {"idle"}, "maybe")
      BY <2>2, <2>4, <1>HeldMayBeWritten, <1>UpdateStep, SMTT(30) DEF PutCompleted, WriteLabels
    <2>5. QED
      BY <2>3, <2>4 DEF PutCompleted, Is
  <1>OperatorPutStep. ASSUME IInv, NEW p \in Procs, CancelPut(p) \/ ForcePut(p)
        PROVE  IInv' /\ Kept
    <2> USE <1>OperatorPutStep
    <2> DEFINE r == Held(p)
               next == IF HasId(r) THEN "bill" ELSE "release"
    <2>1. pc[p] \in {"cancelPut", "forcePut"}
      BY DEF CancelPut, ForcePut, Is
    <2>2. Target(p, "bill", r) /\ Target(p, "release", r) /\ Target(p, "forceRelease", r) /\ Target(p, "idle", r)
      BY <2>1, AtLabel DEF Target, Fits, Holds, Labels, Sent, Polled, RequestLabels
    <2>3. CASE CancelPut(p)
      <3>1. Update(p, r, {next}, "idle") /\ next \in {"bill", "release"}
        BY <2>3 DEF CancelPut
      <3> HIDE DEF next
      <3>2. QED
        BY <2>1, <2>2, <2>3, <3>1, <1>HeldMayBeWritten, <1>UpdateStep, SMTT(30) DEF CancelPut, WriteLabels
    <2>4. CASE ForcePut(p)
      BY <2>1, <2>2, <2>4, <1>HeldMayBeWritten, <1>UpdateStep, SMTT(30) DEF ForcePut, WriteLabels
    <2>5. QED
      BY <2>3, <2>4
  (* A process goes on, and only its row of the ledger may have moved. *)
  <1>BillTurn. ASSUME IInv, NEW p \in Procs, pc[p] \notin {"idle", "create", "dry"},
               NEW l, NEW r \in Records \cup {NoJob}, Move(p, l, r), l # "submit",
               NEW b, bills' = [bills EXCEPT ![Id(p)] = b], Onward(bills[Id(p)], b),
               b = bills[Id(p)] \/ Billed(bills[Id(p)], b),
               l \in Labels \ {"create", "dry", "admit"}, l # "idle" => Fits(p, l, Id(p), r)',
               jobs' = jobs, submissions' = submissions, phase' = phase, InstancesTyped'
        PROVE  IInv' /\ Kept
    <2> USE <1>BillTurn
    <2>1. Id(p) \in Jobs /\ Typed
      BY AtLabel
    <2>2. l # "idle" => Id(p)' = Id(p)
      BY DEF Move, Id, IInv, Typed, Tasks
    <2>3. Target(p, l, r)'
      BY <2>2 DEF Target
    <2>4. jobs' = [jobs EXCEPT ![Id(p)] = jobs[Id(p)]]
      BY <2>1 DEF Typed
    <2>5. IInv'
      BY <2>3, <2>4, <1>Turn
    <2>6. b \in Rows
      BY DEF Onward
    <2>7. Kept
      BY <2>1, <2>6, <1>BillIsKept
    <2>8. QED
      BY <2>5, <2>7
  (* A process goes on, and nobody else sees anything. *)
  <1>SilentTurn. ASSUME IInv, NEW p \in Procs, pc[p] \notin {"idle", "create", "dry"},
               NEW l, NEW r \in Records \cup {NoJob}, Move(p, l, r), Target(p, l, r), l # "submit",
               jobs' = jobs, bills' = bills, submissions' = submissions, phase' = phase, InstancesTyped'
        PROVE  IInv' /\ Kept
    <2> USE <1>SilentTurn
    <2>1. /\ Id(p) \in Jobs /\ Typed /\ bills[Id(p)] \in Rows /\ bills[Id(p)].state # "absent"
      BY AtLabel DEF Fits
    <2>2. bills' = [bills EXCEPT ![Id(p)] = bills[Id(p)]] /\ Onward(bills[Id(p)], bills[Id(p)])
      BY <2>1 DEF Typed, Onward
    <2>3. l \in Labels \ {"create", "dry", "admit"} /\ (l # "idle" => Fits(p, l, Id(p), r))
      BY DEF Target
    <2>4. l # "idle" => Id(p)' = Id(p)
      BY <2>1 DEF Move, Id, Typed, Tasks
    <2>5. Target(p, l, r)'
      BY <2>3, <2>4 DEF Target, Fits
    <2>6. jobs' = [jobs EXCEPT ![Id(p)] = jobs[Id(p)]]
      BY <2>1 DEF Typed
    <2>7. IInv'
      BY <2>2, <2>5, <2>6, <1>Turn
    <2>8. QED
      BY <2>7, <1>NothingSeen
  <1>Queued. ASSUME InstancesTyped, NEW i \in Instances, NEW j \in Jobs, Enqueue(i, j),
               UNCHANGED <<phase, todo>>, retry' \in [Instances -> SUBSET Jobs]
        PROVE  InstancesTyped'
    <2> USE <1>Queued
    <2>1. Append(queue[i], j) \in Seq(Jobs)
      BY SMTT(30) DEF InstancesTyped
    <2>2. queue' \in [Instances -> Seq(Jobs)]
      BY <2>1 DEF InstancesTyped, Enqueue
    <2>3. QED
      BY <2>2 DEF InstancesTyped
  <1>CreateEnqueueStep. ASSUME IInv, NEW p \in Procs, CreateEnqueue(p)
        PROVE  IInv' /\ Kept
    <2> USE <1>CreateEnqueueStep
    <2>1. /\ pc[p] = "enqueue" /\ jobs' = jobs /\ bills' = bills /\ submissions' = submissions
          /\ UNCHANGED <<phase, todo, retry>>
      BY DEF CreateEnqueue, Is, provider
    <2>2. Held(p) \in Records /\ Id(p) \in Jobs /\ task[p].home \in Instances /\ InstancesTyped
      BY <2>1, AtLabel DEF IInv, ProcsInv, ProcOK
    <2>3. CASE Enqueue(task[p].home, Id(p)) /\ Goto(p, "idle")
      <3>1. InstancesTyped'
        BY <2>1, <2>2, <2>3, <1>Queued DEF InstancesTyped
      <3>2. Target(p, "idle", Held(p))
        BY DEF Target, Labels
      <3>3. QED
        BY <2>1, <2>2, <2>3, <3>1, <3>2, <1>SilentTurn DEF Goto
    <2>4. CASE Move(p, "refused", As(Held(p), "failed")) /\ UNCHANGED queue
      <3>1. InstancesTyped'
        BY <2>1, <2>2, <2>4 DEF InstancesTyped
      <3>2. As(Held(p), "failed") \in Records /\ As(Held(p), "failed").st = "failed"
        BY <2>2, AsRecord DEF JobStates
      <3>3. Target(p, "refused", As(Held(p), "failed"))
        BY <2>1, <3>2, AtLabel DEF Target, Fits, Holds, Labels, Sent, Polled, Active, RequestLabels, Recorded
      <3>4. QED
        BY <2>1, <2>4, <3>1, <3>2, <3>3, <1>SilentTurn
    <2>5. QED
      BY <2>3, <2>4 DEF CreateEnqueue
  (* What the calls of the ledger make of a row. *)
  <1>RowsMove. ASSUME NEW x \in Rows, x.state # "absent"
        PROVE  /\ Onward(x, AfterRelease(x)) /\ (AfterRelease(x) = x \/ Billed(x, AfterRelease(x)))
               /\ Onward(x, AfterEstimate(x)) /\ (AfterEstimate(x) = x \/ Billed(x, AfterEstimate(x)))
               /\ Settled(AfterEstimate(x))
               /\ \A a \in Actuals :
                    /\ Onward(x, AfterActual(x, a)) /\ Settled(AfterActual(x, a))
                    /\ Conflicts(x, a) \/ AfterActual(x, a) = x \/ Billed(x, AfterActual(x, a))
    <2> USE <1>RowsMove
    <2>1. x.state \in {"reserved", "released", "estimate", "actual"}
      BY DEF Rows, RowStates
    <2>2. Onward(x, AfterRelease(x)) /\ (AfterRelease(x) = x \/ Billed(x, AfterRelease(x)))
      BY <2>1 DEF AfterRelease, Rows, RowStates, Settled, Onward, Billed
    <2>3. /\ Onward(x, AfterEstimate(x)) /\ (AfterEstimate(x) = x \/ Billed(x, AfterEstimate(x)))
          /\ Settled(AfterEstimate(x))
      BY <2>1 DEF AfterEstimate, Rows, RowStates, Settled, Onward, Billed
    <2>4. ASSUME NEW a \in Actuals
          PROVE  /\ Onward(x, AfterActual(x, a)) /\ Settled(AfterActual(x, a))
                 /\ Conflicts(x, a) \/ AfterActual(x, a) = x \/ Billed(x, AfterActual(x, a))
      <3>1. Onward(x, AfterActual(x, a)) /\ Settled(AfterActual(x, a))
        BY DEF AfterActual, Rows, RowStates, Settled, Onward
      <3>2. x.state = "actual" /\ x.actual = a => AfterActual(x, a) = x
        BY SMTT(30) DEF AfterActual, Rows
      <3>3. QED
        BY <2>1, <3>1, <3>2 DEF AfterActual, Conflicts, Billed
    <2>5. QED
      BY <2>2, <2>3, <2>4
  <1>EndBillStep. ASSUME IInv, NEW p \in Procs, EndBill(p)
        PROVE  IInv' /\ Kept
    <2> USE <1>EndBillStep
    <2> DEFINE j == Id(p)
               x == bills[Id(p)]
    <2>1. /\ pc[p] \in {"release", "forceRelease", "bill"} /\ Move(p, "idle", Held(p))
          /\ jobs' = jobs /\ submissions' = submissions /\ UNCHANGED instance
      BY DEF EndBill, Is, provider, Goto
    <2>2. Held(p) \in Records /\ j \in Jobs /\ x \in Rows /\ x.state # "absent" /\ Typed
      BY <2>1, AtLabel DEF Fits
    <2>3. InstancesTyped' /\ phase' = phase
      BY <2>1 DEF IInv, InstancesTyped, instance
    <2>4. "idle" \in Labels \ {"create", "dry", "admit"}
      BY DEF Labels
    <2>5. CASE Release(j)
      <3>1. bills' = [bills EXCEPT ![j] = AfterRelease(x)]
        BY <2>5 DEF Release
      <3>2. QED
        BY <2>1, <2>2, <2>3, <2>4, <3>1, <1>RowsMove, <1>BillTurn
    <2>6. CASE SettleEstimate(j)
      <3>1. bills' = [bills EXCEPT ![j] = AfterEstimate(x)]
        BY <2>6 DEF SettleEstimate
      <3>2. QED
        BY <2>1, <2>2, <2>3, <2>4, <3>1, <1>RowsMove, <1>BillTurn
    <2>7. CASE bills' = bills
      <3>1. Target(p, "idle", Held(p))
        BY DEF Target, Labels
      <3>2. QED
        BY <2>1, <2>2, <2>3, <2>7, <3>1, <1>SilentTurn
    <2>8. QED
      BY <2>5, <2>6, <2>7 DEF EndBill
  <1>DropStep. ASSUME IInv, NEW p \in Procs, Drop(p) \/ Again(p)
        PROVE  IInv' /\ Kept
    <2> USE <1>DropStep
    <2>1. /\ pc[p] \in {"drop", "again", "maybe"} /\ Move(p, "idle", Held(p))
          /\ jobs' = jobs /\ bills' = bills /\ submissions' = submissions
          /\ UNCHANGED <<phase, todo, queue>>
      BY DEF Drop, Again, Is, provider, instance, Goto
    <2>2. Held(p) \in Records \cup {NoJob} /\ Id(p) \in Jobs /\ InstancesTyped /\ p \in Instances
      BY <2>1, AtLabel DEF IInv, Fits, RequestLabels
    <2>3. retry' \in [Instances -> SUBSET Jobs]
      <3>1. retry' = retry \/ retry' = [retry EXCEPT ![p] = @ \cup {Id(p)}]
        BY DEF Drop, Again, instance, ScheduleRetry
      <3>2. retry[p] \cup {Id(p)} \in SUBSET Jobs
        BY <2>2 DEF InstancesTyped
      <3>3. QED
        BY <2>2, <3>1, <3>2 DEF InstancesTyped
    <2>4. InstancesTyped'
      BY <2>1, <2>2, <2>3 DEF InstancesTyped
    <2>5. Target(p, "idle", Held(p))
      BY DEF Target, Labels
    <2>6. QED
      BY <2>1, <2>2, <2>4, <2>5, <1>SilentTurn
  <1>GetJobStep. ASSUME IInv, NEW p \in Procs, GetJob(p)
        PROVE  IInv' /\ Kept
    <2> USE <1>GetJobStep
    <2> DEFINE r == Held(p)
    <2>1. pc[p] = "ask" /\ UNCHANGED <<jobs, bills, submissions, instance>>
      BY DEF GetJob, Is, provider
    <2>2. /\ r \in Records /\ Id(p) \in Jobs /\ p \in Instances /\ HasId(r) /\ r.st \in Active
          /\ bills[Id(p)].state # "absent" /\ submissions[Id(p)] = 1
      BY <2>1, AtLabel DEF Fits, Holds, Polled, Sent, Recorded, RequestLabels
    <2>3. InstancesTyped' /\ phase' = phase
      BY <2>1 DEF IInv, InstancesTyped, instance
    <2>4. ASSUME NEW s \in JobStates
          PROVE  As(r, s) \in Records /\ As(r, s).st = s /\ HasId(As(r, s))
      BY <2>2, <2>4, AsRecord DEF HasId
    <2>5. /\ Target(p, "keep", r)
          /\ Target(p, "manual", As(r, "manual")) /\ Target(p, "keep", As(r, "processing"))
          /\ Target(p, "fail", As(r, "failed")) /\ Target(p, "gone", As(r, "cancelled"))
          /\ Target(p, "lateManual", As(r, "manual")) /\ Target(p, "upload", As(r, "uploading"))
      <3>0. /\ "processing" \in JobStates /\ "manual" \in JobStates /\ "failed" \in JobStates
            /\ "cancelled" \in JobStates /\ "uploading" \in JobStates
        BY DEF JobStates
      <3> USE DEF Target, Fits, Holds, Labels, Sent, Polled, Active, RequestLabels, Recorded
      <3>1. Target(p, "keep", r)
        BY <2>2
      <3>2. Target(p, "manual", As(r, "manual")) /\ Target(p, "lateManual", As(r, "manual"))
        BY <2>2, <2>4, <3>0
      <3>3. Target(p, "keep", As(r, "processing")) /\ Target(p, "upload", As(r, "uploading"))
        BY <2>2, <2>4, <3>0
      <3>4. Target(p, "fail", As(r, "failed")) /\ Target(p, "gone", As(r, "cancelled"))
        BY <2>2, <2>4, <3>0
      <3>5. QED
        BY <3>1, <3>2, <3>3, <3>4
    <2>6. PICK l, x : /\ Move(p, l, x) /\ Target(p, l, x) /\ l # "submit"
                      /\ x \in Records \cup {NoJob}
      BY <2>2, <2>4, <2>5 DEF GetJob, Goto, Manual, Fail, JobStates
    <2>7. QED
      BY <2>1, <2>3, <2>6, <1>SilentTurn
  (* A record of a job that the provider accepted is not queued. *)
  <1>SubmittedIsNotQueued. ASSUME NEW j, NEW r, RecordOK(j, r), submissions[j] = 1
        PROVE  r.st # "queued"
    <2> USE <1>SubmittedIsNotQueued
    <2>1. r.st = "queued" => submissions[j] = 0
      BY DEF RecordOK
    <2>2. submissions[j] # 0
      BY SMTT(30)
    <2>3. QED
      BY <2>1, <2>2
  <1>CommitReadStep. ASSUME IInv, NEW p \in Procs, CommitRead(p)
        PROVE  IInv' /\ Kept
    <2> USE <1>CommitReadStep
    <2> DEFINE r == Held(p)
               j == Id(p)
    <2>1. pc[p] = "commit" /\ UNCHANGED <<jobs, bills, submissions, instance>>
      BY DEF CommitRead, Is, provider
    <2>2. /\ r \in Records /\ j \in Jobs /\ p \in Instances /\ Recorded(r)
          /\ bills[j].state # "absent" /\ submissions[j] = 1 /\ jobs[j] \in Records \cup {NoJob}
      BY <2>1, AtLabel DEF Fits, Holds, Polled, Sent, RequestLabels
    <2>3. InstancesTyped' /\ phase' = phase
      BY <2>1 DEF IInv, InstancesTyped, instance
    <2>4. Target(p, "idle", r) /\ Target(p, "maybe", r)
      BY <2>2 DEF Target, Fits, Holds, Labels, Sent, Polled, RequestLabels
    <2>5. ASSUME Stored(j), Open(jobs[j])
          PROVE  jobs[j] \in Records /\ Target(p, "settle", jobs[j])
      <3>1. jobs[j] \in Records /\ RecordOK(j, jobs[j])
        BY <2>1, <2>2, <2>5, AtLabel DEF JobOK, Stored
      <3>2. jobs[j].st \in JobStates
        BY <3>1 DEF Records
      <3>3. jobs[j].st \notin {"dry", "queued", "completed", "cancelled", "failed"}
        <4>1. jobs[j].st # "queued"
          BY <2>2, <3>1, <1>SubmittedIsNotQueued
        <4>2. jobs[j].st \notin {"dry", "completed", "cancelled", "failed"}
          BY <2>5 DEF Open, IsTerminal
        <4>3. QED
          BY <4>1, <4>2
      <3>4. jobs[j].st \in Active \cup {"admitted", "manual"}
        BY <3>2, <3>3 DEF JobStates, Active
      <3>5. Recorded(jobs[j])
        BY <3>1 DEF RecordOK
      <3>6. QED
        BY <2>2, <3>1, <3>4, <3>5 DEF Target, Fits, Holds, Labels, Sent, Polled, RequestLabels
    <2>6. PICK l, x : /\ Move(p, l, x) /\ Target(p, l, x) /\ l # "submit"
                      /\ x \in Records \cup {NoJob}
      BY <2>2, <2>4, <2>5 DEF CommitRead, Goto
    <2>7. QED
      BY <2>1, <2>3, <2>6, <1>SilentTurn
  <1>SameRecordOK. ASSUME NEW j, NEW r, NEW w, w.st = r.st, w.pid = r.pid, RecordOK(j, r)
        PROVE  RecordOK(j, w)
    BY <1>SameRecordOK DEF RecordOK, Recorded, HasId
  (* What q relies on in the store survives if its job's record does, or if  *)
  (* the record no longer matters to it.                                     *)
  <1>StoreStillFits. ASSUME NEW q, StoreFits(q), pc'[q] = pc[q], Id(q)' = Id(q), jobs'[Id(q)] = jobs[Id(q)]
        PROVE  StoreFits(q)'
    BY <1>StoreStillFits DEF StoreFits, Stored
  <1>StoreFitsOtherwise. ASSUME NEW q, NEW k, pc'[q] = pc[q], Id(q)' = k, pc[q] \notin {"create", "dry"},
               pc[q] \in {"admit", "submit"} => jobs'[k].st # "queued"
        PROVE  StoreFits(q)'
    BY <1>StoreFitsOtherwise DEF StoreFits
  <1>SettleStep. ASSUME IInv, NEW p \in Procs, Settle(p)
        PROVE  IInv' /\ Kept
    <2> USE <1>SettleStep
    <2> DEFINE r == Held(p)
               j == Id(p)
               x == bills[Id(p)]
               settle == SettleEstimate(j) \/ \E a \in Actuals : SettleActual(j, a)
    <2>1. pc[p] = "settle" /\ UNCHANGED <<jobs, submissions, instance>>
      BY DEF Settle, Is, provider
    <2>2. /\ r \in Records /\ j \in Jobs /\ p \in Instances /\ Recorded(r)
          /\ r.st \in Active \cup {"admitted", "manual"}
          /\ x \in Rows /\ x.state # "absent" /\ submissions[j] = 1 /\ Typed
      BY <2>1, AtLabel DEF Fits, Holds, Polled, Sent, RequestLabels
    <2>3. InstancesTyped' /\ phase' = phase
      BY <2>1 DEF IInv, InstancesTyped, instance
    <2>4. ASSUME NEW l, NEW y \in Records, Move(p, l, y), settle,
                 \/ l \in {"maybe", "unsettled"} /\ y = r
                 \/ l = "complete" /\ y.st = "completed" /\ Recorded(y)
          PROVE  IInv' /\ Kept
      <3>1. PICK b : /\ bills' = [bills EXCEPT ![j] = b] /\ Onward(x, b) /\ Settled(b)
                     /\ b = x \/ Billed(x, b)
        <4>1. CASE SettleEstimate(j)
          <5>1. bills' = [bills EXCEPT ![j] = AfterEstimate(x)]
            BY <4>1 DEF SettleEstimate
          <5>2. QED
            BY <2>2, <5>1, <1>RowsMove
        <4>2. CASE \E a \in Actuals : SettleActual(j, a)
          <5>1. PICK a \in Actuals : ~Conflicts(x, a) /\ bills' = [bills EXCEPT ![j] = AfterActual(x, a)]
            BY <4>2 DEF SettleActual
          <5>2. QED
            BY <2>2, <5>1, <1>RowsMove
        <4>3. QED
          BY <2>4, <4>1, <4>2
      <3>2. bills'[j] = b /\ submissions'[j] = 1
        BY <2>1, <2>2, <3>1 DEF Typed
      <3>3. l \in Labels \ {"create", "dry", "admit"} /\ l # "submit"
        BY <2>4 DEF Labels, Sent
      <3>4. Fits(p, l, j, y)'
        <4>1. Id(p)' = Id(p)
          BY <2>2, <2>4 DEF Move, Id, Typed, Tasks
        <4>2. Holds(l, y)
          BY <2>2, <2>4 DEF Holds, Polled
        <4>3. l # "dry" /\ l # "create" /\ l # "admit" /\ l # "submit" /\ b.state # "absent"
          BY <2>4, <3>1 DEF Onward
        <4>4. QED
          BY <2>2, <3>1, <3>2, <4>1, <4>2, <4>3 DEF Fits
      <3>5. QED
        BY <2>1, <2>3, <2>4, <3>1, <3>3, <3>4, <1>BillTurn
    <2>5. CASE bills' = bills /\ Goto(p, "unsettled")
      <3>1. Target(p, "unsettled", r)
        BY <2>2 DEF Target, Fits, Holds, Labels, Sent, Polled, RequestLabels
      <3>2. QED
        BY <2>1, <2>2, <2>3, <2>5, <3>1, <1>SilentTurn DEF Goto
    <2>6. CASE settle /\ Goto(p, "unsettled")
      BY <2>2, <2>4, <2>6 DEF Goto
    <2>7. CASE settle /\ Goto(p, "maybe")
      BY <2>2, <2>4, <2>7 DEF Goto
    <2>8. CASE settle /\ CanTransition(r.st, "completed") /\ Move(p, "complete", As(r, "completed"))
      <3>1. As(r, "completed") \in Records /\ As(r, "completed").st = "completed" /\ As(r, "completed").pid = r.pid
        BY <2>2, AsRecord DEF JobStates
      <3>2. Recorded(As(r, "completed"))
        BY <2>2, <2>8, <3>1 DEF Recorded, HasId, CanTransition, Active
      <3>3. QED
        BY <2>4, <2>8, <3>1, <3>2
    <2>9. QED
      BY <2>5, <2>6, <2>7, <2>8 DEF Settle
  <1>OperatorReadStep. ASSUME IInv, NEW p \in Procs, CancelAtProvider(p) \/ ForceRead(p)
        PROVE  IInv' /\ Kept
    <2> USE <1>OperatorReadStep
    <2> DEFINE r == Held(p)
               j == Id(p)
    <2>1. /\ pc[p] \in {"cancelRemote", "forceRead"}
          /\ UNCHANGED <<jobs, bills, submissions, instance>>
      BY DEF CancelAtProvider, ForceRead, ForceReadAs, Is, provider
    <2>2. /\ r \in Records \cup {NoJob} /\ j \in Jobs /\ bills[j].state # "absent"
          /\ jobs[j] \in Records \cup {NoJob}
      BY <2>1, AtLabel DEF Fits
    <2>3. InstancesTyped' /\ phase' = phase
      BY <2>1 DEF IInv, InstancesTyped, instance
    <2>4. Target(p, "idle", r)
      BY DEF Target, Labels
    <2>5. CASE CancelAtProvider(p)
      <3>1. pc[p] = "cancelRemote"
        BY <2>5 DEF CancelAtProvider, Is
      <3>2. Target(p, "cancelPut", r)
        BY <3>1, AtLabel DEF Target, Fits, Holds, Labels, Sent, Polled, RequestLabels
      <3>3. QED
        BY <2>1, <2>2, <2>3, <2>4, <2>5, <3>2, <1>SilentTurn DEF CancelAtProvider, Goto
    <2>6. CASE ForceRead(p)
      <3>1. ASSUME Stored(j)
            PROVE  Forced(jobs[j]) \in Records /\ Target(p, "forcePut", Forced(jobs[j]))
        <4>1. jobs[j] \in Records
          BY <2>2, <3>1 DEF Stored
        <4>2. Forced(jobs[j]) \in Records /\ Forced(jobs[j]).st = "failed"
          BY <4>1 DEF Forced, As, Records, JobStates
        <4>3. QED
          BY <2>2, <4>2 DEF Target, Fits, Holds, Labels, Sent, Polled, RequestLabels, Recorded, Active
      <3>2. Goto(p, "idle") \/ (Stored(j) /\ Move(p, "forcePut", Forced(jobs[j])))
        BY <2>6 DEF ForceRead, ForceReadAs
      <3>3. QED
        BY <2>1, <2>2, <2>3, <2>4, <3>1, <3>2, <1>SilentTurn DEF Goto
    <2>7. QED
      BY <2>5, <2>6
  (* The provider accepts a job: the only step that counts a submission. *)
  <1>AcceptStep. ASSUME IInv, NEW p \in Procs, pc[p] = "submit",
               NEW l, NEW r \in Records, Move(p, l, r),
               \/ l = "manual" /\ r.st = "manual"
               \/ l \in {"save", "saveOdd"} /\ r.st = "submitted" /\ HasId(r),
               submissions' = [submissions EXCEPT ![Id(p)] = @ + 1],
               UNCHANGED <<jobs, bills, instance>>
        PROVE  IInv' /\ Kept
    <2> USE <1>AcceptStep
    <2> DEFINE j == Id(p)
    <2>1. /\ j \in Jobs /\ Typed /\ JobOK(j) /\ p \in Instances
          /\ submissions[j] = 0 /\ bills[j].state # "absent" /\ StoreFits(p) /\ ProcOK(p)
      BY AtLabel DEF Fits, RequestLabels, IInv, ProcsInv
    <2>2. /\ submissions' = [submissions EXCEPT ![j] = 1]
          /\ jobs' = jobs /\ bills' = bills /\ phase' = phase
      BY <2>1, SMTT(30) DEF instance, Typed
    <2>3. Typed' /\ InstancesTyped' /\ OneJobPerKey'
      <3>1. [task[p] EXCEPT !.rec = r] \in Tasks /\ l \in Labels /\ l # "idle"
        BY <2>1, SMTT(30) DEF Typed, Tasks, Labels, Sent
      <3>2. task' \in [Procs -> Tasks] /\ pc' \in [Procs -> Labels]
        BY <2>1, <3>1 DEF Typed, Move
      <3>3. QED
        <4>1. Typed'
          BY <2>1, <2>2, <3>2 DEF Typed
        <4>2. InstancesTyped'
          BY DEF IInv, InstancesTyped, instance
        <4>3. OneJobPerKey'
          BY DEF IInv, OneJobPerKey, Stored
        <4>4. QED
          BY <4>1, <4>2, <4>3
    <2>4. JobsInv'
      <3> SUFFICES ASSUME NEW k \in Jobs PROVE JobOK(k)'
        BY DEF JobsInv
      <3>1. JobOK(k) /\ (Stored(j) => jobs[j].st # "queued")
        BY <2>1 DEF IInv, JobsInv, StoreFits
      <3>2. QED
        BY <2>1, <2>2, <3>1 DEF JobOK, RecordOK, Stored, Typed
    <2>5. /\ pc'[p] = l /\ Id(p)' = j /\ Held(p)' = r /\ task'[p].home = task[p].home
          /\ l \in {"manual", "save", "saveOdd"}
      BY <2>1 DEF Typed, Move, Tasks, Id, Held
    <2>6. ProcOK(p)' /\ StoreFits(p)'
      <3>1. Holds(l, r)
        BY <2>5 DEF Holds, Polled, Recorded, Active
      <3>2. Fits(p, l, j, r)'
        BY <2>1, <2>2, <2>5, <3>1, SMTT(30) DEF Fits, Typed
      <3>3. QED
        BY <2>1, <2>2, <2>5, <3>2 DEF ProcOK, StoreFits
    <2>7. ASSUME NEW q \in Procs, q # p
          PROVE  /\ pc'[q] = pc[q] /\ task'[q] = task[q] /\ Id(q)' = Id(q) /\ Held(q)' = Held(q)
                 /\ ProcOK(q) /\ StoreFits(q) /\ Apart(p, q) /\ Apart(q, p)
      BY <2>7 DEF IInv, Typed, Move, Id, Held, ProcsInv, ApartInv
    <2>8. ASSUME NEW q \in Procs, q # p
          PROVE  ProcOK(q)' /\ StoreFits(q)'
      <3>1. CASE pc[q] = "idle"
        BY <2>7, <2>8, <3>1 DEF ProcOK, StoreFits
      <3>2. CASE pc[q] # "idle"
        <4>1. Fits(q, pc[q], Id(q), Held(q)) /\ Id(q) \in Jobs
          BY <2>7, <2>8, <3>2 DEF ProcOK
        <4>2. pc[q] \in {"create", "dry", "admit", "submit"} => Id(q) # j
          BY <2>7, <2>8 DEF Apart
        <4>3. pc[q] \in Sent => Id(q) # j
          <5>1. pc[q] \in Sent => submissions[Id(q)] = 1
            BY <4>1 DEF Fits
          <5>2. QED
            BY <2>1, <5>1, SMTT(30)
        <4>4. Fits(q, pc[q], Id(q), Held(q))'
          BY <2>1, <2>2, <2>7, <2>8, <4>1, <4>2, <4>3, SMTT(30) DEF Fits, Typed
        <4>5. ProcOK(q)'
          BY <2>2, <2>7, <2>8, <3>2, <4>1, <4>4, SMTT(30) DEF ProcOK
        <4>6. StoreFits(q)'
          BY <2>2, <2>7, <2>8 DEF StoreFits, Stored
        <4>7. QED
          BY <4>5, <4>6
      <3>3. QED
        BY <3>1, <3>2
    <2>9. ApartInv'
      <3> SUFFICES ASSUME NEW q1 \in Procs, NEW q2 \in Procs, q1 # q2 PROVE Apart(q1, q2)'
        BY DEF ApartInv
      <3>1. Apart(q1, q2)
        BY DEF IInv, ApartInv
      <3>2. QED
        BY <2>5, <2>7, <3>1 DEF Apart
    <2>10. Kept
      <3>1. Promise!Send(j)
        BY <2>1, <2>2 DEF Promise!Send, Promise!Is, Typed
      <3>2. QED
        BY <2>1, <3>1 DEF Kept, Promise!Next
    <2>11. QED
      BY <2>3, <2>4, <2>6, <2>8, <2>9, <2>10 DEF IInv, ProcsInv
  <1>SubmitStep. ASSUME IInv, NEW p \in Procs, Submit(p)
        PROVE  IInv' /\ Kept
    <2> USE <1>SubmitStep
    <2> DEFINE r == Held(p)
               j == Id(p)
               accept == /\ submissions' = [submissions EXCEPT ![j] = @ + 1]
                         /\ remote' = [remote EXCEPT ![j] = "running"]
    <2>1. pc[p] = "submit" /\ UNCHANGED <<jobs, bills, instance>>
      BY DEF Submit, Is
    <2>2. /\ r \in Records /\ j \in Jobs /\ p \in Instances /\ bills[j].state # "absent"
      BY <2>1, AtLabel DEF Fits, RequestLabels
    <2>3. InstancesTyped' /\ phase' = phase
      BY <2>1 DEF IInv, InstancesTyped, instance
    <2>4. /\ As(r, "manual") \in Records /\ As(r, "manual").st = "manual"
          /\ As(r, "failed") \in Records /\ As(r, "failed").st = "failed"
      BY <2>2, AsRecord DEF JobStates
    <2>5. Target(p, "manual", As(r, "manual")) /\ Target(p, "fail", As(r, "failed"))
      BY <2>2, <2>4 DEF Target, Fits, Holds, Labels, Sent, Polled, RequestLabels, Recorded, Active
    <2>6. CASE Fail(p, r) /\ UNCHANGED provider
      BY <2>1, <2>3, <2>4, <2>5, <2>6, <1>SilentTurn DEF Fail, provider
    <2>7. CASE Manual(p, r) /\ UNCHANGED provider
      BY <2>1, <2>3, <2>4, <2>5, <2>7, <1>SilentTurn DEF Manual, provider
    <2>8. CASE Manual(p, r) /\ accept
      BY <2>1, <2>4, <2>8, <1>AcceptStep DEF Manual
    <2>9. CASE (Move(p, "save", Submitted(r, j)) \/ Move(p, "saveOdd", Submitted(r, j))) /\ accept
      <3>1. Submitted(r, j) \in Records /\ Submitted(r, j).st = "submitted" /\ HasId(Submitted(r, j))
        BY <2>2, StoreAssumption DEF Submitted, Records, JobStates, HasId
      <3>2. QED
        BY <2>1, <2>9, <3>1, <1>AcceptStep
    <2>10. QED
      BY <2>6, <2>7, <2>8, <2>9 DEF Submit
  <1>RenewStep. ASSUME IInv, NEW p \in Procs, Renew(p)
        PROVE  IInv' /\ Kept
    <2> USE <1>RenewStep
    <2> DEFINE r == Held(p)
               j == Id(p)
               w == Leased(jobs[j], p)
    <2>1. pc[p] = "poll" /\ UNCHANGED <<bills, submissions, instance>>
      BY DEF Renew, Is, provider
    <2>2. /\ r \in Records /\ j \in Jobs /\ p \in Instances /\ Typed /\ JobOK(j) /\ Fits(p, "poll", j, r)
          /\ bills[j] \in Rows /\ bills[j].state # "absent" /\ submissions[j] = 1
          /\ jobs[j] \in Records \cup {NoJob}
      BY <2>1, AtLabel DEF Fits, Sent, Polled, RequestLabels
    <2>3. InstancesTyped' /\ phase' = phase
      BY <2>1 DEF IInv, InstancesTyped, instance
    <2>4. Leased(r, p) \in Records /\ Target(p, "ask", Leased(r, p)) /\ Target(p, "idle", r)
      <3>1. /\ Leased(r, p) \in Records /\ Leased(r, p).st = r.st /\ Leased(r, p).pid = r.pid
        BY <2>2, LeasedRecord
      <3>2. QED
        BY <2>2, <3>1 DEF Target, Fits, Holds, Labels, Sent, Polled, RequestLabels, Recorded, HasId
    <2>5. CASE jobs' = jobs /\ Goto(p, "idle")
      BY <2>1, <2>2, <2>3, <2>4, <2>5, <1>SilentTurn DEF Goto
    <2>6. ASSUME NEW l \in {"ask", "idle"}, NEW x \in Records, Move(p, l, x), Target(p, l, x),
                 Stored(j), jobs' = [jobs EXCEPT ![j] = w]
          PROVE  IInv' /\ Kept
      <3>1. jobs[j] \in Records /\ w \in Records /\ w.st = jobs[j].st /\ w.pid = jobs[j].pid /\ w.forced = jobs[j].forced
        BY <2>2, <2>6, LeasedRecord DEF Stored
      <3> HIDE DEF w
      <3>2. Replaces(j, w)
        <4>1. RecordOK(j, jobs[j])
          BY <2>2, <2>6 DEF JobOK
        <4>2. RecordOK(j, w)
          BY <3>1, <4>1, <1>SameRecordOK
        <4>3. w.st # "queued"
          BY <2>2, <3>1, <4>1, SMTT(30) DEF RecordOK
        <4>4. QED
          BY <2>6, <3>1, <4>2, <4>3 DEF Replaces
      <3>3. Outcome(w) = Outcome(jobs[j])
        BY <3>1, NotRecord DEF Outcome, IsTerminal
      <3>4. bills' = [bills EXCEPT ![j] = bills[j]] /\ Onward(bills[j], bills[j])
        BY <2>1, <2>2 DEF Typed, Onward
      <3>5. Target(p, l, x)'
        <4>1. l # "idle" => Id(p)' = Id(p)
          BY <2>2, <2>6 DEF Move, Id, Typed, Tasks
        <4>2. QED
          BY <2>1, <2>6, <4>1 DEF Target, Fits
      <3>6. IInv'
        BY <2>1, <2>3, <2>6, <3>2, <3>4, <3>5, <1>Turn
      <3>7. Kept
        BY <2>1, <2>2, <2>6, <3>1, <3>3, <1>WriteIsKept
      <3>8. QED
        BY <3>6, <3>7
    <2>7. CASE Stored(j) /\ jobs' = [jobs EXCEPT ![j] = w] /\ Move(p, "ask", Leased(r, p))
      BY <2>4, <2>6, <2>7
    <2>8. CASE Stored(j) /\ jobs' = [jobs EXCEPT ![j] = w] /\ Goto(p, "idle")
      BY <2>2, <2>4, <2>6, <2>8 DEF Goto
    <2>9. QED
      BY <2>5, <2>7, <2>8 DEF Renew
  (* An instance claims a job nobody else holds the lease of. *)
  <1>ClaimKeeps. ASSUME IInv, NEW j \in Jobs, NEW i \in Instances, Stored(j), Claimable(jobs[j], i),
               jobs' = [jobs EXCEPT ![j] = Leased(@, i)], bills' = bills, submissions' = submissions
        PROVE  /\ jobs' \in [Jobs -> Records \cup {NoJob}] /\ OneJobPerKey' /\ JobsInv' /\ Kept
               /\ \A k \in Jobs : Stored(k)' <=> Stored(k)
               /\ \A k \in Jobs : Stored(k) => jobs'[k].st = jobs[k].st
               /\ \A k \in Jobs : k # j => jobs'[k] = jobs[k]
               /\ jobs'[j] = Leased(jobs[j], i) /\ jobs'[j].owner = i
               /\ \A q \in Procs : pc[q] = "admit" /\ Id(q) = j => jobs[j].st # "queued" \/ q = i
               /\ \A q \in Procs : pc[q] = "submit" /\ Id(q) = j => jobs[j].st # "queued"
    <2> USE <1>ClaimKeeps
    <2> DEFINE w == Leased(jobs[j], i)
    <2>1. Typed /\ jobs[j] \in Records /\ JobOK(j)
      BY DEF IInv, Typed, Stored, JobsInv
    <2>2. /\ w \in Records /\ w.st = jobs[j].st /\ w.pid = jobs[j].pid
          /\ w.forced = jobs[j].forced /\ w.owner = i
      BY <2>1, LeasedRecord
    <2> HIDE DEF w
    <2>3. jobs' = [jobs EXCEPT ![j] = w] /\ jobs \in [Jobs -> Records \cup {NoJob}]
      BY <2>1 DEF w, Typed
    <2>4. /\ jobs' \in [Jobs -> Records \cup {NoJob}] /\ jobs'[j] = w
          /\ \A k \in Jobs : k # j => jobs'[k] = jobs[k]
      BY <2>2, <2>3
    <2>5. \A k \in Jobs : /\ Stored(k)' <=> Stored(k)
                          /\ Stored(k) => jobs'[k].st = jobs[k].st
      BY <2>2, <2>4, NotRecord DEF Stored
    <2>6. OneJobPerKey'
      BY <2>5 DEF IInv, OneJobPerKey
    <2>7. JobsInv'
      <3> SUFFICES ASSUME NEW k \in Jobs PROVE JobOK(k)'
        BY DEF JobsInv
      <3>1. JobOK(k)
        BY DEF IInv, JobsInv
      <3>2. CASE k # j
        BY <2>4, <3>1, <3>2 DEF JobOK, RecordOK, Stored
      <3>3. CASE k = j
        <4>1. RecordOK(j, jobs[j])
          BY <2>1 DEF JobOK
        <4>2. RecordOK(j, w)
          BY <2>2, <4>1 DEF RecordOK, Recorded, HasId
        <4>3. QED
          BY <2>4, <3>1, <3>3, <4>2 DEF JobOK, RecordOK
      <3>4. QED
        BY <3>2, <3>3
    <2>8. Outcome(w) = Outcome(jobs[j])
      BY <2>1, <2>2, NotRecord DEF Outcome, IsTerminal
    <2>9. Kept
      BY <2>1, <2>2, <2>3, <2>8, <1>WriteIsKept
    <2>10. ASSUME NEW q \in Procs, Id(q) = j
           PROVE  /\ pc[q] = "admit" => jobs[j].st # "queued" \/ q = i
                  /\ pc[q] = "submit" => jobs[j].st # "queued"
      <3>1. StoreFits(q) /\ (pc[q] = "admit" => q \in Instances)
        BY DEF IInv, ProcsInv, ProcOK, Fits, RequestLabels
      <3>2. QED
        BY <2>10, <3>1, StoreAssumption DEF StoreFits, Claimable
    <2>11. QED
      BY <2>2, <2>4, <2>5, <2>6, <2>7, <2>9, <2>10 DEF w
  (* The claimed job is not worked on. *)
  <1>ClaimStep. ASSUME IInv, NEW j \in Jobs, NEW i \in Instances, Stored(j), Claimable(jobs[j], i),
               jobs' = [jobs EXCEPT ![j] = Leased(@, i)],
               UNCHANGED <<bills, submissions, phase, pc, task>>, InstancesTyped'
        PROVE  IInv' /\ Kept
    <2> USE <1>ClaimStep
    <2>a. /\ \A k \in Jobs : k # j => jobs'[k] = jobs[k]
          /\ jobs'[j].st = jobs[j].st /\ jobs'[j].owner = i
          /\ \A q \in Procs : pc[q] = "admit" /\ Id(q) = j => jobs[j].st # "queued" \/ q = i
          /\ \A q \in Procs : pc[q] = "submit" /\ Id(q) = j => jobs[j].st # "queued"
      BY <1>ClaimKeeps
    <2>1. Typed'
      BY <1>ClaimKeeps DEF IInv, Typed
    <2>2. ASSUME NEW q \in Procs
          PROVE  ProcOK(q)' /\ StoreFits(q)'
      <3>1. ProcOK(q) /\ StoreFits(q)
        BY DEF IInv, ProcsInv
      <3>2. ProcOK(q)'
        BY <3>1 DEF ProcOK, Fits, Id, Held
      <3>3. CASE pc[q] = "idle"
        BY <3>2, <3>3 DEF StoreFits
      <3>4. CASE pc[q] # "idle"
        <4>1. Id(q) \in Jobs /\ Id(q)' = Id(q)
          BY <3>1, <3>4 DEF ProcOK, Id
        <4>2. CASE Id(q) = j
          <5>1. pc[q] \notin {"create", "dry"}
            BY <3>1, <4>2 DEF StoreFits
          <5>2. CASE pc[q] = "admit"
            <6>1. jobs[j].st # "queued" \/ q = i
              BY <2>a, <4>2, <5>2
            <6>2. jobs'[j].st # "queued" \/ jobs'[j].owner = q
              BY <2>a, <6>1
            <6>3. QED
              BY <3>2, <4>1, <4>2, <5>2, <6>2 DEF StoreFits
          <5>3. CASE pc[q] # "admit"
            <6>1. pc[q] = "submit" => jobs'[j].st # "queued"
              BY <2>a, <4>2
            <6>2. QED
              BY <3>2, <4>1, <4>2, <5>1, <5>3, <6>1, <1>StoreFitsOtherwise
          <5>4. QED
            BY <5>2, <5>3
        <4>3. CASE Id(q) # j
          <5>1. jobs'[Id(q)] = jobs[Id(q)]
            BY <2>a, <4>1, <4>3
          <5>2. QED
            BY <3>1, <3>2, <4>1, <5>1, <1>StoreStillFits
        <4>4. QED
          BY <4>2, <4>3
      <3>5. QED
        BY <3>2, <3>3, <3>4
    <2>3. ApartInv'
      BY DEF IInv, ApartInv, Apart, Id
    <2>4. QED
      BY <2>1, <2>2, <2>3, <1>ClaimKeeps DEF IInv, ProcsInv
  (* A process takes up job j, as it is or just claimed. *)
  <1>BeginStep. ASSUME IInv, NEW p \in Procs, pc[p] = "idle", NEW j \in Jobs, NEW i \in Instances,
               phase[i] # "down", p \in Instances => i = p,
               NEW l \in Labels \ {"idle", "create", "dry", "submit"}, NEW r \in Records \cup {NoJob},
               pc' = [pc EXCEPT ![p] = l],
               task' = [task EXCEPT ![p] = [id |-> j, rec |-> r, home |-> i]],
               Fits(p, l, j, r), Stored(j),
               \/ jobs' = jobs /\ l # "admit"
               \/ /\ p \in Instances /\ Claimable(jobs[j], p) /\ jobs' = [jobs EXCEPT ![j] = Leased(@, p)]
                  /\ l = "admit" => jobs[j].st = "queued",
               UNCHANGED <<bills, submissions, phase>>, InstancesTyped'
        PROVE  IInv' /\ Kept
    <2> USE <1>BeginStep
    <2>1. /\ jobs' \in [Jobs -> Records \cup {NoJob}] /\ OneJobPerKey' /\ JobsInv' /\ Kept
          /\ \A k \in Jobs : Stored(k)' <=> Stored(k)
          /\ \A k \in Jobs : Stored(k) => jobs'[k].st = jobs[k].st
          /\ \A k \in Jobs : k # j => jobs'[k] = jobs[k]
          /\ l = "admit" => jobs'[j].owner = p
      <3>1. CASE jobs' = jobs /\ l # "admit"
        BY <3>1, <1>NothingSeen DEF IInv, Typed, OneJobPerKey, JobsInv, JobOK, RecordOK, Stored
      <3>2. CASE p \in Instances /\ Claimable(jobs[j], p) /\ jobs' = [jobs EXCEPT ![j] = Leased(@, p)]
        BY <3>2, <1>ClaimKeeps
      <3>3. QED
        BY <3>1, <3>2
    <2>2. /\ pc'[p] = l /\ Id(p)' = j /\ Held(p)' = r /\ task'[p].home = i
          /\ task' \in [Procs -> Tasks] /\ pc' \in [Procs -> Labels]
      BY DEF IInv, Typed, Tasks, Id, Held
    <2>3. Typed'
      BY <2>1, <2>2 DEF IInv, Typed
    <2>4. ASSUME NEW q \in Procs, q # p
          PROVE  /\ pc'[q] = pc[q] /\ task'[q] = task[q] /\ Id(q)' = Id(q) /\ Held(q)' = Held(q)
                 /\ ProcOK(q) /\ StoreFits(q)
      BY <2>4 DEF IInv, Typed, Id, Held, ProcsInv
    <2>5. ProcOK(p)' /\ StoreFits(p)'
      BY <2>1, <2>2 DEF ProcOK, StoreFits, Fits
    <2>6. ASSUME NEW q \in Procs, q # p, pc[q] # "idle"
          PROVE  /\ Id(q) \in Jobs /\ ProcOK(q)' /\ StoreFits(q)'
                 /\ l = "admit" /\ pc[q] \in {"admit", "submit"} => Id(q) # j
                 /\ pc[q] \in {"create", "dry"} => Id(q) # j
      <3>1. Id(q) \in Jobs /\ Fits(q, pc[q], Id(q), Held(q))
        BY <2>4, <2>6 DEF ProcOK
      <3>2. ProcOK(q)'
        <4>1. Fits(q, pc[q], Id(q), Held(q))'
          BY <2>4, <2>6, <3>1 DEF Fits
        <4>2. QED
          BY <2>4, <2>6, <4>1, SMTT(30) DEF ProcOK
      <3>3. pc[q] \in {"create", "dry"} => Id(q) # j
        BY <2>4, <2>6 DEF StoreFits
      <3>4. CASE jobs' = jobs /\ l # "admit"
        BY <2>4, <2>6, <3>1, <3>2, <3>3, <3>4 DEF StoreFits, Stored
      <3>5. CASE /\ p \in Instances /\ Claimable(jobs[j], p) /\ jobs' = [jobs EXCEPT ![j] = Leased(@, p)]
                 /\ l = "admit" => jobs[j].st = "queued"
        <4>1. Id(q) = j /\ pc[q] \in {"admit", "submit"} => jobs[j].st # "queued"
          <5>1. /\ \A x \in Procs : pc[x] = "admit" /\ Id(x) = j => jobs[j].st # "queued" \/ x = p
                /\ \A x \in Procs : pc[x] = "submit" /\ Id(x) = j => jobs[j].st # "queued"
            BY <3>5, <1>ClaimKeeps
          <5>2. QED
            BY <2>6, <5>1
        <4>2. StoreFits(q)'
          <5>1. CASE Id(q) = j
            <6>1. jobs'[j].st = jobs[j].st /\ pc'[q] = pc[q] /\ Id(q)' = j
              BY <2>1, <2>4, <2>6, <5>1
            <6>2. pc[q] \notin {"create", "dry"}
              BY <3>3, <5>1
            <6>3. pc[q] \in {"admit", "submit"} => jobs'[j].st # "queued"
              BY <4>1, <5>1, <6>1
            <6>4. QED
              BY <6>1, <6>2, <6>3, <1>StoreFitsOtherwise
          <5>2. CASE Id(q) # j
            <6>1. jobs'[Id(q)] = jobs[Id(q)]
              BY <2>1, <3>1, <5>2
            <6>2. QED
              BY <2>4, <2>6, <6>1, <1>StoreStillFits
          <5>3. QED
            BY <5>1, <5>2
        <4>3. QED
          BY <3>1, <3>2, <3>3, <3>5, <4>1, <4>2
      <3>6. QED
        BY <3>4, <3>5
    <2>7. ASSUME NEW q \in Procs, q # p, pc[q] = "idle"
          PROVE  ProcOK(q)' /\ StoreFits(q)' /\ Id(q) = NoJob
      <3>1. pc'[q] = "idle" /\ task[q] = NoTask /\ task'[q] = NoTask
        BY <2>4, <2>7 DEF ProcOK
      <3>2. ProcOK(q)' /\ StoreFits(q)'
        BY <3>1 DEF ProcOK, StoreFits
      <3>3. Id(q) = NoJob
        BY <3>1, IdleHasNoJob
      <3>4. QED
        BY <3>2, <3>3
    <2>8. ApartInv'
      <3> SUFFICES ASSUME NEW q1 \in Procs, NEW q2 \in Procs, q1 # q2 PROVE Apart(q1, q2)'
        BY DEF ApartInv
      <3>1. Apart(q1, q2)
        BY DEF IInv, ApartInv
      <3>2. CASE q1 # p /\ q2 # p
        BY <2>4, <3>1, <3>2 DEF Apart
      <3>3. CASE q1 = p
        BY <2>2, <2>4, <2>6, <3>3, SMTT(30) DEF Apart
      <3>4. CASE q2 = p
        BY <2>2, <2>4, <2>6, <3>4, SMTT(30) DEF Apart
      <3>5. QED
        BY <3>2, <3>3, <3>4
    <2>9. ProcsInv'
      BY <2>5, <2>6, <2>7 DEF ProcsInv
    <2>10. QED
      BY <2>1, <2>3, <2>8, <2>9 DEF IInv
  <1>TakeStep. ASSUME IInv, NEW p \in Requests, NEW j \in Jobs, NEW i \in Instances,
               Cancel(p, j, i) \/ ForceFail(p, j, i)
        PROVE  IInv' /\ Kept
    <2> USE <1>TakeStep
    <2>1. /\ p \in Procs /\ p \notin Instances
          /\ UNCHANGED <<jobs, bills, submissions, phase, todo, queue, retry>>
          /\ pc[p] = "idle" /\ phase[i] = "up" /\ Stored(j) /\ Open(jobs[j])
      BY VideoAssumption DEF Procs, Cancel, CancelAs, ForceFail, Take, Is, provider, instance
    <2>2. InstancesTyped' /\ jobs[j] \in Records /\ Stored(j)
      BY <2>1 DEF IInv, InstancesTyped, Typed, Stored
    <2>3. bills[j].state # "absent"
      BY <2>1 DEF IInv, JobsInv, JobOK, RecordOK, Open, IsTerminal
    <2>4. CASE Cancel(p, j, i)
      <3> DEFINE r == As(jobs[j], "cancelled")
                 l == IF HasId(jobs[j]) THEN "cancelRemote" ELSE "cancelPut"
      <3>1. /\ pc' = [pc EXCEPT ![p] = l]
            /\ task' = [task EXCEPT ![p] = [id |-> j, rec |-> r, home |-> i]]
        BY <2>4 DEF Cancel, CancelAs, Take
      <3>2. r \in Records /\ r.st = "cancelled"
        BY <2>2, AsRecord DEF JobStates
      <3>3. l \in {"cancelRemote", "cancelPut"}
        OBVIOUS
      <3> HIDE DEF r, l
      <3>4. Fits(p, l, j, r) /\ l \in Labels
        BY <2>3, <3>2, <3>3 DEF Fits, Holds, Labels, Sent, Polled, Active, RequestLabels, Recorded
      <3>5. QED
        BY <2>1, <2>2, <3>1, <3>2, <3>3, <3>4, <1>BeginStep
    <2>5. CASE ForceFail(p, j, i)
      <3>1. /\ pc' = [pc EXCEPT ![p] = "forceRead"]
            /\ task' = [task EXCEPT ![p] = [id |-> j, rec |-> NoJob, home |-> i]]
        BY <2>5 DEF ForceFail, Take
      <3>2. Fits(p, "forceRead", j, NoJob) /\ "forceRead" \in Labels
        BY <2>3 DEF Fits, Holds, Labels, Sent, Polled, RequestLabels
      <3>3. QED
        BY <2>1, <2>2, <3>1, <3>2, <1>BeginStep
    <2>6. QED
      BY <2>4, <2>5
  (* Nothing but the queues, the timers and the phases moved. *)
  <1>ElsewhereStep. ASSUME IInv, UNCHANGED <<jobs, bills, submissions, pc, task>>, InstancesTyped',
               \A i \in Instances : phase[i] # "down" => phase'[i] # "down"
        PROVE  IInv' /\ Kept
    <2> USE <1>ElsewhereStep
    <2>1. Typed' /\ OneJobPerKey' /\ JobsInv'
      BY DEF IInv, Typed, OneJobPerKey, JobsInv, JobOK, RecordOK, Stored
    <2>2. ProcsInv'
      <3> SUFFICES ASSUME NEW p \in Procs PROVE ProcOK(p)' /\ StoreFits(p)'
        BY DEF ProcsInv
      <3>1. ProcOK(p) /\ StoreFits(p)
        BY DEF IInv, ProcsInv
      <3>2. QED
        BY <3>1, SMTT(30) DEF ProcOK, Fits, StoreFits, Stored, Id, Held
    <2>3. ApartInv'
      BY DEF IInv, ApartInv, Apart, Id
    <2>4. QED
      BY <2>1, <2>2, <2>3, <1>NothingSeen DEF IInv
  <1>RunJobStep. ASSUME IInv, NEW i \in Instances, RunJob(i)
        PROVE  IInv' /\ Kept
    <2> USE <1>RunJobStep
    <2> DEFINE j == Head(queue[i])
               r == Leased(jobs[j], i)
    <2>1. /\ phase[i] # "down" /\ pc[i] = "idle" /\ queue[i] # <<>>
          /\ queue' = [queue EXCEPT ![i] = Tail(@)]
          /\ UNCHANGED <<bills, phase, todo, submissions>>
      BY DEF RunJob, ClaimNext, Is, provider
    <2>2. queue[i] \in Seq(Jobs) /\ InstancesTyped
      BY DEF IInv, InstancesTyped
    <2>3. j \in Jobs /\ Tail(queue[i]) \in Seq(Jobs)
      BY <2>1, <2>2, SMTT(30)
    <2> HIDE DEF j
    <2>4. ASSUME retry' = retry \/ retry' = [retry EXCEPT ![i] = @ \cup {j}]
          PROVE  InstancesTyped'
      <3>1. retry[i] \cup {j} \in SUBSET Jobs
        BY <2>2, <2>3 DEF InstancesTyped
      <3>2. retry' \in [Instances -> SUBSET Jobs]
        BY <2>2, <2>4, <3>1 DEF InstancesTyped
      <3>3. queue' \in [Instances -> Seq(Jobs)]
        BY <2>1, <2>2, <2>3 DEF InstancesTyped
      <3>4. QED
        BY <2>1, <2>2, <3>2, <3>3 DEF InstancesTyped
    <2>5. CASE UNCHANGED <<jobs, pc, task>> /\ (retry' = retry \/ ScheduleRetry(i, j))
      <3>1. InstancesTyped'
        BY <2>4, <2>5 DEF ScheduleRetry
      <3>2. QED
        BY <2>1, <2>5, <3>1, <1>ElsewhereStep
    <2>6. CASE /\ Stored(j) /\ Claimable(jobs[j], i) /\ jobs' = [jobs EXCEPT ![j] = Leased(@, i)]
               /\ UNCHANGED <<pc, task, retry>>
      <3>1. InstancesTyped'
        BY <2>4, <2>6
      <3>2. QED
        BY <2>1, <2>3, <2>6, <3>1, <1>ClaimStep
    <2>7. CASE /\ Stored(j) /\ Claimable(jobs[j], i) /\ jobs' = [jobs EXCEPT ![j] = Leased(@, i)]
               /\ Resume(i, r) /\ ~AtRest(r) /\ retry' = retry
      <3>1. InstancesTyped' /\ i \in Procs
        BY <2>4, <2>7 DEF Procs
      <3>2. jobs[j] \in Records /\ RecordOK(j, jobs[j]) /\ submissions[j] \in {0, 1}
        BY <2>3, <2>7 DEF IInv, Typed, JobsInv, JobOK, Stored
      <3>3. r \in Records /\ r.st = jobs[j].st /\ r.pid = jobs[j].pid /\ r.forced = jobs[j].forced
        BY <3>2, LeasedRecord
      <3> HIDE DEF r
      <3>4. /\ Recorded(r) /\ bills[j].state # "absent" /\ r.st \in {"queued", "admitted"} \cup Active
            /\ r.st = "queued" => submissions[j] = 0
            /\ r.st \in Active => submissions[j] = 1
        <4>1. r.st \notin {"dry", "completed", "cancelled", "failed", "manual"}
          BY <2>7 DEF AtRest, IsTerminal
        <4>2. r.st \in {"queued", "admitted"} \cup Active
          BY <3>3, <4>1 DEF Records, JobStates, Active
        <4>3. QED
          BY <3>2, <3>3, <4>1, <4>2 DEF RecordOK, Recorded, HasId
      <3>5. /\ As(r, "manual") \in Records /\ As(r, "manual").st = "manual"
            /\ As(r, "failed") \in Records /\ As(r, "failed").st = "failed"
        BY <3>3, AsRecord DEF JobStates
      <3>6. ASSUME NEW l \in {"admit", "manual", "poll", "fail"}, NEW x \in Records, Fits(i, l, j, x),
                   l = "admit" => r.st = "queued",
                   pc' = [pc EXCEPT ![i] = l], task' = [task EXCEPT ![i] = [id |-> j, rec |-> x, home |-> i]]
            PROVE  IInv' /\ Kept
        <4>1. l \in Labels \ {"idle", "create", "dry", "submit"}
          BY DEF Labels, Sent, Polled
        <4>2. QED
          BY <2>1, <2>3, <2>7, <3>1, <3>3, <3>6, <4>1, <1>BeginStep
      <3> USE DEF Fits, Holds, Sent, Polled, Active, RequestLabels, Recorded
      <3>7. r.st = "queued" => Fits(i, "admit", j, r)
        BY <3>3, <3>4
      <3>8. Fits(i, "manual", j, As(r, "manual")) /\ Fits(i, "fail", j, As(r, "failed"))
        BY <3>4, <3>5
      <3>9. r.st \in Active => Fits(i, "poll", j, r)
        BY <3>3, <3>4
      <3>10. r.st \in Active => r.st # "queued" /\ r.st # "admitted"
        OBVIOUS
      <3> HIDE DEF Fits, Holds, Sent, Polled, Active, RequestLabels, Recorded
      <3>11. CASE r.st = "queued"
        BY <2>7, <3>3, <3>6, <3>7, <3>11, SMTT(30) DEF Resume, j
      <3>12. CASE r.st = "admitted"
        BY <2>7, <3>5, <3>6, <3>8, <3>12, SMTT(30) DEF Resume, j
      <3>13. CASE r.st \in Active
        <4>1. \E next \in {<<"poll", r>>, <<"fail", As(r, "failed")>>} :
                 /\ pc' = [pc EXCEPT ![i] = next[1]]
                 /\ task' = [task EXCEPT ![i] = [id |-> j, rec |-> next[2], home |-> i]]
          BY <2>7, <3>10, <3>13 DEF Resume, j
        <4>2. PICK next \in {<<"poll", r>>, <<"fail", As(r, "failed")>>} :
                 /\ pc' = [pc EXCEPT ![i] = next[1]]
                 /\ task' = [task EXCEPT ![i] = [id |-> j, rec |-> next[2], home |-> i]]
          BY <4>1
        <4>3. CASE next = <<"poll", r>>
          BY <3>3, <3>6, <3>9, <3>13, <4>2, <4>3
        <4>4. CASE next = <<"fail", As(r, "failed")>>
          BY <3>5, <3>6, <3>8, <4>2, <4>4
        <4>5. QED
          BY <4>3, <4>4
      <3>14. QED
        BY <3>4, <3>11, <3>12, <3>13
    <2>8. QED
      <3>1. \/ UNCHANGED <<jobs, pc, task>> /\ (retry' = retry \/ ScheduleRetry(i, j))
            \/ /\ Stored(j) /\ Claimable(jobs[j], i) /\ jobs' = [jobs EXCEPT ![j] = Leased(@, i)]
               /\ retry' = retry /\ (UNCHANGED <<pc, task>> \/ Resume(i, r))
        BY DEF RunJob, ClaimNext, j
      <3>2. Resume(i, r) => ~AtRest(r) \/ UNCHANGED <<pc, task>>
        BY DEF Resume
      <3>3. QED
        BY <2>5, <2>6, <2>7, <3>1, <3>2
  <1>CreateStartStep. ASSUME IInv, NEW p \in Requests, NEW j \in Jobs, NEW i \in Instances, CreateStart(p, j, i)
        PROVE  IInv' /\ Kept
    <2> USE <1>CreateStartStep
    <2>1. PICK dry \in BOOLEAN :
             /\ IF dry THEN UNCHANGED bills ELSE Reserve(j)
             /\ pc' = [pc EXCEPT ![p] = IF dry THEN "dry" ELSE "create"]
             /\ task' = [task EXCEPT ![p] =
                           [id |-> j, rec |-> Fresh(IF dry THEN "dry" ELSE "queued"), home |-> i]]
      BY DEF CreateStart
    <2> DEFINE l == IF dry THEN "dry" ELSE "create"
               r == Fresh(IF dry THEN "dry" ELSE "queued")
               b == IF dry THEN NoRow ELSE [NoRow EXCEPT !.state = "reserved"]
    <2>2. /\ p \in Procs /\ p \notin Instances /\ pc[p] = "idle" /\ phase[i] = "up"
          /\ ~Stored(j) /\ bills[j] = NoRow /\ \A q \in Procs : Id(q) # j
          /\ UNCHANGED <<jobs, submissions, phase, todo, queue, retry>>
      BY VideoAssumption DEF CreateStart, Is, Unused, Procs, provider, instance
    <2>3. Typed /\ submissions[j] = 0
      <3>1. Typed /\ JobOK(j)
        BY DEF IInv, JobsInv
      <3>2. bills[j].state = "absent"
        BY <2>2, NoRowIsAbsent
      <3>3. QED
        BY <3>1, <3>2 DEF JobOK
    <2>4. bills' = [bills EXCEPT ![j] = b] /\ bills'[j] = b
      BY <2>1, <2>2, <2>3 DEF Reserve, AfterReserve, Typed
    <2>5. b \in Rows /\ (dry => b = NoRow) /\ (~dry => b.state = "reserved")
      BY DEF NoRow, Rows, RowStates
    <2>6. /\ r \in Records /\ ~HasId(r) /\ ~r.forced
          /\ dry => l = "dry" /\ r.st = "dry"
          /\ ~dry => l = "create" /\ r.st = "queued"
      BY DEF Fresh, Records, JobStates, HasId
    <2> HIDE DEF l, r, b
    <2>7. pc' = [pc EXCEPT ![p] = l] /\ task' = [task EXCEPT ![p] = [id |-> j, rec |-> r, home |-> i]]
      BY <2>1 DEF l, r
    <2>8. /\ pc'[p] = l /\ Id(p)' = j /\ Held(p)' = r /\ task'[p].home = i
          /\ task' \in [Procs -> Tasks] /\ pc' \in [Procs -> Labels]
      BY <2>2, <2>3, <2>6, <2>7 DEF Typed, Tasks, Id, Held, Labels, RequestLabels
    <2>9. Typed' /\ InstancesTyped' /\ OneJobPerKey'
      <3>1. bills' \in [Jobs -> Rows]
        BY <2>3, <2>4, <2>5 DEF Typed
      <3>2. Typed'
        BY <2>2, <2>3, <2>8, <3>1 DEF Typed
      <3>3. InstancesTyped'
        BY <2>2 DEF IInv, InstancesTyped
      <3>4. OneJobPerKey'
        BY <2>2 DEF IInv, OneJobPerKey, Stored
      <3>5. QED
        BY <3>2, <3>3, <3>4
    <2>10. JobsInv'
      <3> SUFFICES ASSUME NEW k \in Jobs PROVE JobOK(k)'
        BY DEF JobsInv
      <3>1. JobOK(k)
        BY DEF IInv, JobsInv
      <3>2. CASE k = j
        BY <2>2, <2>3, <3>2 DEF JobOK, Stored
      <3>3. CASE k # j
        BY <2>2, <2>3, <2>4, <3>1, <3>3 DEF JobOK, RecordOK, Stored, Typed
      <3>4. QED
        BY <3>2, <3>3
    <2>11. ProcOK(p)' /\ StoreFits(p)'
      <3>1. Holds(l, r) /\ l \in {"create", "dry"}
        BY <2>6 DEF Holds, Recorded, Polled, Active
      <3>2. Fits(p, l, j, r)'
        BY <2>2, <2>3, <2>4, <2>5, <2>6, <3>1 DEF Fits, RequestLabels, Sent, Polled
      <3>3. QED
        BY <2>2, <2>8, <3>1, <3>2 DEF ProcOK, StoreFits, Stored
    <2>12. ASSUME NEW q \in Procs, q # p
           PROVE  /\ pc'[q] = pc[q] /\ task'[q] = task[q] /\ Id(q)' = Id(q) /\ Held(q)' = Held(q)
                  /\ ProcOK(q) /\ StoreFits(q) /\ Id(q) # j
      BY <2>2, <2>3, <2>7, <2>12 DEF IInv, Typed, Id, Held, ProcsInv
    <2>13. ASSUME NEW q \in Procs, q # p
           PROVE  ProcOK(q)' /\ StoreFits(q)'
      <3>1. CASE pc[q] = "idle"
        BY <2>12, <2>13, <3>1 DEF ProcOK, StoreFits
      <3>2. CASE pc[q] # "idle"
        <4>1. Fits(q, pc[q], Id(q), Held(q)) /\ Id(q) \in Jobs
          BY <2>12, <2>13, <3>2 DEF ProcOK
        <4>2. bills'[Id(q)] = bills[Id(q)]
          BY <2>3, <2>4, <2>12, <2>13, <4>1 DEF Typed
        <4>3. Fits(q, pc[q], Id(q), Held(q))'
          BY <2>2, <2>12, <2>13, <4>1, <4>2 DEF Fits
        <4>4. QED
          BY <2>2, <2>12, <2>13, <3>2, <4>1, <4>3, SMTT(30) DEF ProcOK, StoreFits, Stored
      <3>3. QED
        BY <3>1, <3>2
    <2>14. ApartInv'
      <3> SUFFICES ASSUME NEW q1 \in Procs, NEW q2 \in Procs, q1 # q2 PROVE Apart(q1, q2)'
        BY DEF ApartInv
      <3>1. Apart(q1, q2)
        BY DEF IInv, ApartInv
      <3>2. l \notin {"admit", "submit"}
        BY <2>6
      <3>3. QED
        BY <2>8, <2>12, <3>1, <3>2 DEF Apart
    <2>15. Kept
      <3>1. CASE dry
        BY <2>1, <2>2, <3>1, <1>NothingSeen
      <3>2. CASE ~dry
        <4>1. bills' = [bills EXCEPT ![j] = [bills[j] EXCEPT !.state = "reserved"]]
          BY <2>2, <2>4, <3>2 DEF b
        <4>2. [k \in Jobs |-> Outcome(jobs[k])]' = [k \in Jobs |-> Outcome(jobs[k])]
          BY <2>2
        <4>3. Outcome(jobs[j]) = "none" /\ bills[j].state = "absent"
          BY <2>2, NoRowIsAbsent DEF Outcome, Stored
        <4>4. Promise!Hold(j)
          BY <2>2, <4>1, <4>2, <4>3 DEF Promise!Hold, Promise!Is
        <4>5. QED
          BY <4>4 DEF Kept, Promise!Next
      <3>3. QED
        BY <3>1, <3>2
    <2>16. QED
      BY <2>9, <2>10, <2>11, <2>13, <2>14, <2>15 DEF IInv, ProcsInv
  (* The record is in the store: the promise sees an accepted job or a dry run. *)
  <1>CreatePutStep. ASSUME IInv, NEW p \in Procs, CreatePut(p)
        PROVE  IInv' /\ Kept
    <2> USE <1>CreatePutStep
    <2> DEFINE j == Id(p)
               r == Held(p)
               put == SameKey(j) = {} /\ jobs' = [jobs EXCEPT ![j] = r]
    <2>1. /\ pc[p] \in {"create", "dry"} /\ UNCHANGED <<bills, submissions, instance>>
      BY DEF CreatePut, Is, provider
    <2>2. /\ j \in Jobs /\ Fits(p, pc[p], j, r) /\ r \in Records /\ Typed /\ JobOK(j) /\ ~Stored(j)
          /\ ProcOK(p)
      BY <2>1, AtLabel DEF IInv, ProcsInv, StoreFits
    <2>3. PICK l \in {"idle", "enqueue", "release"} :
             /\ Goto(p, l) /\ (put \/ jobs' = jobs) /\ (pc[p] = "dry" => l = "idle")
      <3>1. CASE pc[p] = "dry"
        BY <3>1 DEF CreatePut, Is
      <3>2. CASE pc[p] = "create"
        BY <3>2 DEF CreatePut, Is
      <3>3. QED
        BY <2>1, <3>1, <3>2
    <2>4. /\ InstancesTyped' /\ phase' = phase
      BY <2>1 DEF IInv, InstancesTyped, instance
    <2>5. /\ pc'[p] = l /\ task'[p] = (IF l = "idle" THEN NoTask ELSE [task[p] EXCEPT !.rec = r])
          /\ l # "idle" => Id(p)' = j /\ Held(p)' = r /\ task'[p].home = task[p].home
          /\ l = "idle" => Id(p)' = NoJob
      BY <2>2, <2>3 DEF Typed, Goto, Move, Tasks, Id, Held, NoTask
    <2>6. Typed'
      <3>1. [task[p] EXCEPT !.rec = r] \in Tasks /\ NoTask \in Tasks /\ l \in Labels
        BY <2>2, SMTT(30) DEF Typed, Tasks, NoTask, Labels, RequestLabels
      <3>2. task' \in [Procs -> Tasks] /\ pc' \in [Procs -> Labels]
        BY <2>2, <2>3, <3>1 DEF Typed, Goto, Move
      <3>3. jobs' \in [Jobs -> Records \cup {NoJob}]
        BY <2>2, <2>3 DEF Typed
      <3>4. QED
        BY <2>1, <2>2, <3>2, <3>3 DEF Typed
    <2>7. OneJobPerKey'
      <3>1. CASE jobs' = jobs
        BY <3>1 DEF IInv, OneJobPerKey, Stored
      <3>2. CASE put
        <4>1. \A k \in Jobs : k # j => jobs'[k] = jobs[k]
          BY <2>2, <3>2 DEF Typed
        <4>2. \A k \in Jobs : Stored(k) => Key[k] # Key[j]
          BY <3>2 DEF SameKey
        <4>3. QED
          BY <2>2, <4>1, <4>2 DEF IInv, OneJobPerKey, Stored
      <3>3. QED
        BY <2>3, <3>1, <3>2
    <2>8. JobsInv'
      <3> SUFFICES ASSUME NEW k \in Jobs PROVE JobOK(k)'
        BY DEF JobsInv
      <3>1. JobOK(k)
        BY DEF IInv, JobsInv
      <3>2. CASE jobs'[k] = jobs[k]
        BY <2>1, <3>1, <3>2 DEF JobOK, RecordOK, Stored
      <3>3. CASE k = j /\ put
        <4>1. RecordOK(j, r)
          BY <2>1, <2>2 DEF RecordOK, Fits, Holds, Active
        <4>2. jobs'[j] = r
          BY <2>2, <3>3 DEF Typed
        <4>3. QED
          BY <2>1, <2>2, <3>3, <4>1, <4>2 DEF JobOK, RecordOK
      <3>4. QED
        BY <2>2, <2>3, <3>2, <3>3 DEF Typed
    <2>9. ProcOK(p)' /\ StoreFits(p)'
      <3>1. CASE l = "idle"
        BY <2>5, <3>1 DEF ProcOK, StoreFits
      <3>2. CASE l # "idle"
        <4>1. pc[p] = "create" /\ l \in {"enqueue", "release"}
          BY <2>1, <2>3, <3>2
        <4>2. Fits(p, l, j, r)
          BY <2>2, <4>1 DEF Fits, Holds, RequestLabels, Sent, Polled
        <4>3. Fits(p, l, j, r)'
          BY <2>1, <2>5, <3>2, <4>2 DEF Fits
        <4>4. QED
          BY <2>2, <2>4, <2>5, <3>2, <4>1, <4>3 DEF ProcOK, StoreFits
      <3>3. QED
        BY <3>1, <3>2
    <2>10. ASSUME NEW q \in Procs, q # p
           PROVE  /\ pc'[q] = pc[q] /\ task'[q] = task[q] /\ Id(q)' = Id(q) /\ Held(q)' = Held(q)
                  /\ ProcOK(q) /\ StoreFits(q) /\ Apart(q, p) /\ Id(q) # j
      <3>1. pc'[q] = pc[q] /\ task'[q] = task[q]
        BY <2>2, <2>3, <2>10 DEF Typed, Goto, Move
      <3>2. Apart(q, p) /\ Apart(p, q) /\ ProcOK(q) /\ StoreFits(q)
        BY <2>10 DEF IInv, ApartInv, ProcsInv
      <3>3. QED
        BY <2>1, <3>1, <3>2 DEF Apart, Id, Held
    <2>11. ASSUME NEW q \in Procs, q # p
           PROVE  ProcOK(q)' /\ StoreFits(q)'
      <3>1. CASE pc[q] = "idle"
        BY <2>10, <2>11, <3>1 DEF ProcOK, StoreFits
      <3>2. CASE pc[q] # "idle"
        <4>1. Fits(q, pc[q], Id(q), Held(q)) /\ Id(q) \in Jobs
          BY <2>10, <2>11, <3>2 DEF ProcOK
        <4>2. jobs'[Id(q)] = jobs[Id(q)]
          BY <2>2, <2>3, <2>10, <2>11, <4>1 DEF Typed
        <4>3. Fits(q, pc[q], Id(q), Held(q))'
          BY <2>1, <2>10, <2>11, <4>1 DEF Fits
        <4>4. QED
          BY <2>4, <2>10, <2>11, <3>2, <4>1, <4>2, <4>3, SMTT(30) DEF ProcOK, StoreFits, Stored
      <3>3. QED
        BY <3>1, <3>2
    <2>12. ApartInv'
      <3> SUFFICES ASSUME NEW q1 \in Procs, NEW q2 \in Procs, q1 # q2 PROVE Apart(q1, q2)'
        BY DEF ApartInv
      <3>1. Apart(q1, q2)
        BY DEF IInv, ApartInv
      <3>2. \A q \in Procs : q # p /\ pc[q] # "idle" => Id(q) # NoJob
        BY <2>10, StoreAssumption DEF ProcOK
      <3>3. QED
        BY <2>3, <2>5, <2>10, <3>1, <3>2 DEF Apart
    <2>13. Kept
      <3>1. CASE jobs' = jobs
        BY <2>1, <3>1, <1>NothingSeen
      <3>2. CASE put
        <4> DEFINE status == [k \in Jobs |-> Outcome(jobs[k])]
        <4>1. [k \in Jobs |-> Outcome(jobs[k])]' = [status EXCEPT ![j] = Outcome(r)]
          BY <2>2, <3>2 DEF Typed
        <4>2. bills' = bills
          BY <2>1
        <4>3. Outcome(jobs[j]) = "none" /\ r # NoJob
          BY <2>2, NotRecord DEF Outcome, Stored
        <4>4. CASE pc[p] = "create"
          <5>1. r.st = "queued" /\ ~r.forced /\ bills[j].state = "reserved"
            BY <2>2, <4>4 DEF Fits, Holds
          <5>2. Outcome(r) = "open"
            BY <4>3, <5>1 DEF Outcome, IsTerminal
          <5>3. Promise!Accept(j)
            BY <2>1, <2>2, <4>1, <4>2, <4>3, <5>1, <5>2 DEF Promise!Accept, Promise!Is
          <5>4. QED
            BY <2>2, <5>3 DEF Kept, Promise!Next
        <4>5. CASE pc[p] = "dry"
          <5>1. r.st = "dry" /\ ~r.forced /\ bills[j].state = "absent"
            BY <2>2, <4>5, SMTT(30) DEF Fits, Holds, NoRow
          <5>2. Outcome(r) = "dry"
            BY <4>3, <5>1 DEF Outcome, IsTerminal
          <5>3. Promise!DryRun(j)
            BY <2>1, <2>2, <4>1, <4>2, <4>3, <5>1, <5>2 DEF Promise!DryRun, Promise!Is
          <5>4. QED
            BY <2>2, <5>3 DEF Kept, Promise!Next
        <4>6. QED
          BY <2>1, <4>4, <4>5
      <3>3. QED
        BY <2>3, <3>1, <3>2
    <2>14. QED
      BY <2>4, <2>6, <2>7, <2>8, <2>9, <2>11, <2>12, <2>13 DEF IInv, ProcsInv
  (* A job's record changes and no process moves. *)
  <1>StoreStep. ASSUME IInv, NEW j \in Jobs, Stored(j), NEW w, jobs' = [jobs EXCEPT ![j] = w],
               w = NoJob \/ Replaces(j, w),
               UNCHANGED <<bills, submissions, phase, pc, task>>, InstancesTyped'
        PROVE  IInv'
    <2> USE <1>StoreStep
    <2>1. Typed /\ w \in Records \cup {NoJob}
      BY DEF IInv, Replaces
    <2>2. /\ jobs' \in [Jobs -> Records \cup {NoJob}] /\ jobs'[j] = w
          /\ \A k \in Jobs : k # j => jobs'[k] = jobs[k]
      BY <2>1 DEF Typed
    <2>3. Typed'
      BY <2>1, <2>2 DEF Typed
    <2>4. OneJobPerKey'
      BY <2>2, SMTT(30) DEF IInv, OneJobPerKey, Stored
    <2>5. JobsInv'
      <3> SUFFICES ASSUME NEW k \in Jobs PROVE JobOK(k)'
        BY DEF JobsInv
      <3>1. JobOK(k)
        BY DEF IInv, JobsInv
      <3>2. CASE k # j
        BY <2>2, <3>1, <3>2 DEF JobOK, RecordOK, Stored
      <3>3. CASE k = j
        BY <2>2, <3>1, <3>3 DEF JobOK, RecordOK, Stored, Replaces
      <3>4. QED
        BY <3>2, <3>3
    <2>6. ProcsInv'
      <3> SUFFICES ASSUME NEW q \in Procs PROVE ProcOK(q)' /\ StoreFits(q)'
        BY DEF ProcsInv
      <3>1. ProcOK(q) /\ StoreFits(q)
        BY DEF IInv, ProcsInv
      <3>2. ProcOK(q)'
        BY <3>1 DEF ProcOK, Fits, Id, Held
      <3>3. pc[q] # "idle" => Id(q) \in Jobs
        BY <3>1 DEF ProcOK
      <3>4. StoreFits(q)'
        <4>1. CASE pc[q] = "idle"
          BY <4>1 DEF StoreFits
        <4>2. CASE pc[q] # "idle" /\ Id(q) = j
          BY <2>2, <3>1, <4>2 DEF StoreFits, Stored, Replaces, Id
        <4>3. CASE pc[q] # "idle" /\ Id(q) # j
          BY <2>2, <3>1, <3>3, <4>3 DEF StoreFits, Stored, Id
        <4>4. QED
          BY <4>1, <4>2, <4>3
      <3>5. QED
        BY <3>2, <3>4
    <2>7. ApartInv'
      BY DEF IInv, ApartInv, Apart, Id
    <2>8. QED
      BY <2>3, <2>4, <2>5, <2>6, <2>7 DEF IInv
  <1>PruneStep. ASSUME IInv, NEW i \in Instances, Prune(i)
        PROVE  IInv' /\ Kept
    <2> USE <1>PruneStep
    <2>1. PICK j \in Jobs : Stored(j) /\ IsTerminal(jobs[j]) /\ jobs' = [jobs EXCEPT ![j] = NoJob]
      BY DEF Prune
    <2>2. UNCHANGED <<bills, submissions, phase, pc, task>> /\ InstancesTyped' /\ Typed
      BY DEF Prune, provider, instance, IInv, InstancesTyped
    <2>3. IInv'
      BY <2>1, <2>2, <1>StoreStep
    <2> DEFINE status == [k \in Jobs |-> Outcome(jobs[k])]
    <2>4. [k \in Jobs |-> Outcome(jobs[k])]' = [status EXCEPT ![j] = "none"]
      <3>1. Outcome(NoJob) = "none"
        BY DEF Outcome
      <3>2. QED
        BY <2>1, <2>2, <3>1 DEF Typed
    <2>6. Outcome(jobs[j]) \in {"completed", "cancelled", "forced", "dry"}
      BY <2>1 DEF Outcome, IsTerminal, Stored
    <2>7. Promise!Forget(j)
      BY <2>2, <2>4, <2>6 DEF Promise!Forget, Promise!Ends
    <2>8. QED
      BY <2>3, <2>7 DEF Kept, Promise!Next
  <1>RecoverJobStep. ASSUME IInv, NEW i \in Instances, RecoverJob(i)
        PROVE  IInv' /\ Kept
    <2> USE <1>RecoverJobStep
    <2>1. PICK t \in todo[i] :
             /\ todo' = [todo EXCEPT ![i] = @ \ {t}]
             /\ \/ UNCHANGED <<jobs, queue>>
                \/ Enqueue(i, t.id) /\ UNCHANGED jobs
                \/ /\ ~AtRest(t.rec) /\ Stored(t.id) /\ Writable(jobs[t.id], As(t.rec, "manual"))
                   /\ jobs' = [jobs EXCEPT ![t.id] = As(t.rec, "manual")] /\ UNCHANGED queue
             /\ UNCHANGED <<bills, phase, retry, pc, task, submissions>>
      BY DEF RecoverJob, RecoverNext, provider
    <2>2. t.id \in Jobs /\ t.rec \in Records
      BY SMTT(30) DEF IInv, InstancesTyped
    <2>3. todo' \in [Instances -> SUBSET [id : Jobs, rec : Records]]
      BY <2>1 DEF IInv, InstancesTyped
    <2>4. InstancesTyped'
      <3>1. queue' \in [Instances -> Seq(Jobs)]
        <4>1. CASE UNCHANGED queue
          BY <4>1 DEF IInv, InstancesTyped
        <4>2. CASE Enqueue(i, t.id)
          <5>1. Append(queue[i], t.id) \in Seq(Jobs)
            BY <2>2, SMTT(30) DEF IInv, InstancesTyped
          <5>2. QED
            BY <4>2, <5>1 DEF Enqueue, IInv, InstancesTyped
        <4>3. QED
          BY <2>1, <4>1, <4>2
      <3>2. QED
        BY <2>1, <2>3, <3>1 DEF IInv, InstancesTyped
    <2>5. CASE jobs' = jobs
      BY <2>1, <2>4, <2>5, <1>ElsewhereStep
    <2>6. CASE /\ ~AtRest(t.rec) /\ Stored(t.id) /\ Writable(jobs[t.id], As(t.rec, "manual"))
               /\ jobs' = [jobs EXCEPT ![t.id] = As(t.rec, "manual")]
      <3> DEFINE j == t.id
                 w == As(t.rec, "manual")
      <3>1. w \in Records /\ w.st = "manual"
        BY <2>2, AsRecord DEF JobStates
      <3>2. JobOK(j) /\ Typed
        BY <2>2 DEF IInv, JobsInv
      <3> HIDE DEF w
      <3>3. jobs[j].st # "dry"
        BY <2>6, <3>1 DEF Writable, IsTerminal, w
      <3>4. Replaces(j, w)
        BY <2>6, <3>1, <3>2, <3>3 DEF Replaces, JobOK, RecordOK, Recorded, Active
      <3>5. IInv'
        BY <2>1, <2>2, <2>4, <2>6, <3>4, <1>StoreStep DEF w
      <3>6. Outcome(w) = Outcome(jobs[j]) \/ ~IsTerminal(jobs[j])
        BY <2>6 DEF Writable, w
      <3>7. Kept
        BY <2>1, <2>2, <2>6, <3>1, <3>2, <3>6, <1>WriteIsKept DEF w
      <3>8. QED
        BY <3>5, <3>7
    <2>7. QED
      BY <2>1, <2>5, <2>6
  (* What an instance held in memory is gone. *)
  <1>StopStep. ASSUME IInv, NEW i \in Instances, Stop(i)
        PROVE  IInv' /\ Kept
    <2> USE <1>StopStep
    <2>1. UNCHANGED <<jobs, bills, submissions>> /\ Typed
      BY DEF Stop, provider, IInv
    <2>2. InstancesTyped'
      <3>1. <<>> \in Seq(Jobs)
        BY SMTT(30)
      <3>2. QED
        BY <3>1 DEF Stop, IInv, InstancesTyped
    <2>3. Typed' /\ OneJobPerKey' /\ JobsInv'
      <3>1. pc' \in [Procs -> Labels] /\ task' \in [Procs -> Tasks]
        BY <2>1 DEF Stop, Typed, Tasks, NoTask, Labels
      <3>2. Typed'
        BY <2>1, <3>1 DEF Typed
      <3>3. QED
        BY <2>1, <3>2 DEF IInv, OneJobPerKey, JobsInv, JobOK, RecordOK, Stored
    <2>4. ASSUME NEW p \in Procs
          PROVE  /\ task[p].home = i => pc'[p] = "idle" /\ task'[p] = NoTask /\ Id(p)' = NoJob
                 /\ task[p].home # i =>
                       /\ pc'[p] = pc[p] /\ task'[p] = task[p] /\ Id(p)' = Id(p) /\ Held(p)' = Held(p)
      BY DEF Stop, Id, Held, NoTask
    <2>5. ProcsInv'
      <3> SUFFICES ASSUME NEW p \in Procs PROVE ProcOK(p)' /\ StoreFits(p)'
        BY DEF ProcsInv
      <3>1. ProcOK(p) /\ StoreFits(p)
        BY DEF IInv, ProcsInv
      <3>2. CASE task[p].home = i
        BY <2>4, <3>2 DEF ProcOK, StoreFits
      <3>3. CASE task[p].home # i
        <4>1. \A k \in Instances : k # i => phase'[k] = phase[k]
          BY DEF Stop, IInv, InstancesTyped
        <4>2. Fits(p, pc[p], Id(p), Held(p)) => Fits(p, pc[p], Id(p), Held(p))'
          BY <2>1, <2>4, <3>3 DEF Fits
        <4>3. QED
          BY <2>1, <2>4, <3>1, <3>3, <4>1, <4>2, SMTT(30) DEF ProcOK, StoreFits, Stored
      <3>4. QED
        BY <3>2, <3>3
    <2>6. ApartInv'
      <3> SUFFICES ASSUME NEW q1 \in Procs, NEW q2 \in Procs, q1 # q2 PROVE Apart(q1, q2)'
        BY DEF ApartInv
      <3>1. Apart(q1, q2) /\ ProcOK(q1)
        BY DEF IInv, ApartInv, ProcsInv
      <3>2. pc[q1] # "idle" => Id(q1) # NoJob
        BY <3>1, StoreAssumption DEF ProcOK
      <3>3. QED
        BY <2>4, <3>1, <3>2 DEF Apart
    <2>7. QED
      BY <2>1, <2>2, <2>3, <2>5, <2>6, <1>NothingSeen DEF IInv
  <1>ReownedHolds. ASSUME NEW l, NEW x, NEW y, Holds(l, y), Reowned(x, y)
        PROVE  Holds(l, x)
    <2> USE <1>ReownedHolds
    <2>1. CASE l = "forceRead"
      <3>1. x = NoJob /\ y = NoJob
        BY <2>1 DEF Holds, Reowned
      <3>2. QED
        BY <3>1
    <2>2. CASE l # "forceRead"
      <3>1. x \in Records /\ x.st = y.st /\ x.pid = y.pid /\ x.forced = y.forced
        BY <2>2 DEF Holds, Reowned
      <3>2. Recorded(x)
        BY <2>2, <3>1 DEF Holds, Recorded, HasId
      <3>3. QED
        BY <2>2, <3>1, <3>2 DEF Holds
    <2>3. QED
      BY <2>1, <2>2
  (* Leases end wherever a copy of the record is, except that of an instance *)
  (* between its claim and its admission of a job.                           *)
  <1>ReownStep. ASSUME IInv, NEW f, NEW g,
               jobs' = [j \in Jobs |-> f[j]], \A j \in Jobs : Reowned(f[j], jobs[j]),
               task' = [p \in Procs |-> [task[p] EXCEPT !.rec = g[p]]],
               \A p \in Procs : Reowned(g[p], task[p].rec),
               \A p \in Procs : pc[p] = "admit" /\ jobs[Id(p)].owner = p => f[Id(p)].owner = p,
               UNCHANGED <<bills, submissions, pc>>, InstancesTyped',
               \A i \in Instances : phase[i] # "down" => phase'[i] # "down"
        PROVE  IInv' /\ Kept
    <2> USE <1>ReownStep
    <2>1. Typed
      BY DEF IInv
    <2>2. /\ jobs' \in [Jobs -> Records \cup {NoJob}]
          /\ \A j \in Jobs : jobs'[j] = f[j] /\ Reowned(jobs'[j], jobs[j])
          /\ \A j \in Jobs : Stored(j)' <=> Stored(j)
          /\ \A j \in Jobs : Stored(j) => jobs[j] \in Records
      <3>1. \A j \in Jobs : jobs[j] \in Records \cup {NoJob}
        BY <2>1 DEF Typed
      <3>2. \A j \in Jobs : jobs'[j] = f[j] /\ Reowned(jobs'[j], jobs[j])
        OBVIOUS
      <3>3. \A j \in Jobs : f[j] \in Records \cup {NoJob}
        BY <3>1 DEF Reowned
      <3>4. jobs' \in [Jobs -> Records \cup {NoJob}]
        BY <3>3
      <3>5. \A j \in Jobs : Stored(j) => jobs[j] \in Records
        BY <3>1 DEF Stored
      <3>6. \A j \in Jobs : Stored(j)' <=> Stored(j)
        BY <3>1, <3>2, NotRecord DEF Stored, Reowned
      <3>7. QED
        BY <3>2, <3>4, <3>5, <3>6
    <2>3. ASSUME NEW p \in Procs
          PROVE  /\ pc'[p] = pc[p] /\ Id(p)' = Id(p) /\ task'[p].home = task[p].home /\ task'[p] \in Tasks
                 /\ Reowned(Held(p)', Held(p)) /\ (task[p] = NoTask => task'[p] = NoTask)
      <3>1. task[p] \in Tasks
        BY <2>1 DEF Typed
      <3>2. task'[p] = [task[p] EXCEPT !.rec = g[p]] /\ Reowned(g[p], task[p].rec)
        OBVIOUS
      <3>3. g[p] \in Records \cup {NoJob}
        BY <3>1, <3>2 DEF Tasks, Reowned
      <3>4. /\ task'[p].id = task[p].id /\ task'[p].home = task[p].home /\ task'[p].rec = g[p]
            /\ task'[p] \in Tasks
        BY <3>1, <3>2, <3>3 DEF Tasks
      <3>5. task[p] = NoTask => task'[p] = NoTask
        BY <3>1, <3>2, SMTT(30) DEF NoTask, Reowned, Tasks
      <3>6. QED
        BY <3>2, <3>4, <3>5 DEF Id, Held
    <2>4. Typed'
      <3>1. task' \in [Procs -> Tasks]
        BY <2>3
      <3>2. QED
        BY <2>1, <2>2, <3>1 DEF Typed
    <2>5. OneJobPerKey'
      BY <2>2 DEF IInv, OneJobPerKey
    <2>6. JobsInv'
      <3> SUFFICES ASSUME NEW j \in Jobs PROVE JobOK(j)'
        BY DEF JobsInv
      <3>1. JobOK(j)
        BY DEF IInv, JobsInv
      <3>2. CASE ~Stored(j)
        BY <2>2, <3>1, <3>2 DEF JobOK
      <3>3. CASE Stored(j)
        <4>1. RecordOK(j, jobs[j]) /\ jobs[j] \in Records /\ Reowned(jobs'[j], jobs[j])
          BY <2>2, <3>1, <3>3 DEF JobOK
        <4>2. RecordOK(j, jobs[j])'
          BY <4>1 DEF RecordOK, Recorded, HasId, Reowned
        <4>3. QED
          BY <3>1, <4>2 DEF JobOK
      <3>4. QED
        BY <3>2, <3>3
    <2>7. ProcsInv'
      <3> SUFFICES ASSUME NEW p \in Procs PROVE ProcOK(p)' /\ StoreFits(p)'
        BY DEF ProcsInv
      <3>1. ProcOK(p) /\ StoreFits(p)
        BY DEF IInv, ProcsInv
      <3>2. CASE pc[p] = "idle"
        BY <2>3, <3>1, <3>2 DEF ProcOK, StoreFits
      <3>3. CASE pc[p] # "idle"
        <4>1. Id(p) \in Jobs /\ Fits(p, pc[p], Id(p), Held(p))
          BY <3>1, <3>3 DEF ProcOK
        <4>2. Holds(pc[p], Held(p)')
          BY <2>3, <4>1, <1>ReownedHolds DEF Fits
        <4>3. Fits(p, pc[p], Id(p), Held(p))'
          BY <2>3, <4>1, <4>2 DEF Fits
        <4>4. ProcOK(p)'
          BY <2>3, <3>1, <3>3, <4>1, <4>3, SMTT(30) DEF ProcOK
        <4>5. StoreFits(p)'
          BY <2>2, <2>3, <3>1, <4>1, SMTT(30) DEF StoreFits, Reowned
        <4>6. QED
          BY <4>4, <4>5
      <3>4. QED
        BY <3>2, <3>3
    <2>8. ApartInv'
      BY <2>3, SMTT(30) DEF IInv, ApartInv, Apart
    <2>9. Kept
      <3>1. ASSUME NEW j \in Jobs PROVE Outcome(jobs'[j]) = Outcome(jobs[j])
        <4>1. jobs[j] \in Records \cup {NoJob} /\ Reowned(jobs'[j], jobs[j])
          BY <2>1, <2>2 DEF Typed
        <4>2. QED
          BY <4>1, NotRecord DEF Reowned, Outcome, IsTerminal
      <3>2. [j \in Jobs |-> Outcome(jobs[j])]' = [j \in Jobs |-> Outcome(jobs[j])]
        BY <3>1
      <3>3. QED
        BY <3>2 DEF Kept, Promise!vars
    <2>10. QED
      BY <2>4, <2>5, <2>6, <2>7, <2>8, <2>9 DEF IInv
  <1>StartStep. ASSUME IInv, NEW i \in Instances, Start(i)
        PROVE  IInv' /\ Kept
    <2> USE <1>StartStep
    <2> DEFINE former(r) == IF r # NoJob /\ r.owner = i THEN [r EXCEPT !.owner = Former] ELSE r
               same(r) == r
    <2>1. /\ phase[i] = "down" /\ phase' = [phase EXCEPT ![i] = "recovering"]
          /\ UNCHANGED <<bills, queue, retry, pc, submissions>>
          /\ \/ /\ jobs' = [j \in Jobs |-> former(jobs[j])]
                /\ task' = [p \in Procs |-> [task[p] EXCEPT !.rec = former(@)]]
             \/ /\ jobs' = [j \in Jobs |-> jobs[j]]
                /\ task' = [p \in Procs |-> [task[p] EXCEPT !.rec = @]]
      BY DEF Start, Everywhere, provider
    <2>2. Typed /\ InstancesTyped
      BY DEF IInv
    <2>3. ASSUME NEW r \in Records \cup {NoJob}
          PROVE  Reowned(former(r), r) /\ Reowned(r, r) /\ former(r) \in Records \cup {NoJob}
      BY ReownedRecords DEF Reowned
    <2>4. \A j \in Jobs : Stored(j) => jobs'[j] \in Records
      <3> SUFFICES ASSUME NEW j \in Jobs, Stored(j) PROVE jobs'[j] \in Records
        OBVIOUS
      <3>1. jobs[j] \in Records
        BY <2>2 DEF Typed, Stored
      <3>2. former(jobs[j]) \in Records
        BY <2>3, <3>1 DEF Reowned
      <3> HIDE DEF former
      <3>3. jobs'[j] = former(jobs[j]) \/ jobs'[j] = jobs[j]
        BY <2>1
      <3>4. QED
        BY <3>1, <3>2, <3>3
    <2>5. InstancesTyped'
      <3> DEFINE list == [j \in {k \in Jobs : Stored(k)} |-> jobs'[j]]
                 new == {[id |-> j, rec |-> list[j]] : j \in DOMAIN list}
      <3>1. new \in SUBSET [id : Jobs, rec : Records]
        BY <2>4, SMTT(30)
      <3>2. todo' = [todo EXCEPT ![i] = new]
        BY DEF Start
      <3> HIDE DEF new
      <3>3. QED
        BY <2>1, <2>2, <3>1, <3>2 DEF InstancesTyped
    <2>6. \A k \in Instances : phase[k] # "down" => phase'[k] # "down"
      BY <2>1, <2>2 DEF InstancesTyped
    <2>7. ASSUME NEW p \in Procs, pc[p] = "admit" PROVE p \in Instances /\ p # i /\ Id(p) \in Jobs
      <3>1. ProcOK(p) /\ Fits(p, "admit", Id(p), Held(p)) /\ Id(p) \in Jobs
        BY <2>7, AtLabel DEF IInv, ProcsInv
      <3>2. QED
        BY <2>1, <2>7, <3>1 DEF ProcOK, Fits, RequestLabels
    <2>8. CASE /\ jobs' = [j \in Jobs |-> former(jobs[j])]
               /\ task' = [p \in Procs |-> [task[p] EXCEPT !.rec = former(@)]]
      <3> DEFINE f == [j \in Jobs |-> former(jobs[j])]
                 g == [p \in Procs |-> former(task[p].rec)]
      <3>1. \A p \in Procs : pc[p] = "admit" /\ jobs[Id(p)].owner = p => f[Id(p)].owner = p
        BY <2>7
      <3>2. \A j \in Jobs : Reowned(f[j], jobs[j])
        BY <2>2, <2>3 DEF Typed
      <3>3. \A p \in Procs : Reowned(g[p], task[p].rec)
        BY <2>2, <2>3 DEF Typed, Tasks
      <3>4. /\ jobs' = [j \in Jobs |-> f[j]]
            /\ task' = [p \in Procs |-> [task[p] EXCEPT !.rec = g[p]]]
        BY <2>8
      <3> HIDE DEF f, g
      <3>5. QED
        BY <2>1, <2>5, <2>6, <3>1, <3>2, <3>3, <3>4, <1>ReownStep
    <2>9. CASE /\ jobs' = [j \in Jobs |-> jobs[j]]
               /\ task' = [p \in Procs |-> [task[p] EXCEPT !.rec = @]]
      <3>1. UNCHANGED <<jobs, task>>
        BY <2>2, <2>9 DEF Typed, Tasks
      <3>2. QED
        BY <2>1, <2>5, <2>6, <3>1, <1>ElsewhereStep
    <2>10. QED
      BY <2>1, <2>8, <2>9
  <1>LeasesExpireStep. ASSUME IInv, NEW o \in Instances \cup {Former}, LeasesExpire(o)
        PROVE  IInv' /\ Kept
    <2> USE <1>LeasesExpireStep
    <2> DEFINE expired(r) == IF r # NoJob /\ r.owner = o THEN [r EXCEPT !.owner = NoOwner] ELSE r
               f == [j \in Jobs |-> expired(jobs[j])]
               g == [p \in Procs |-> expired(task[p].rec)]
    <2>1. /\ o \in Instances => pc[o] # "admit"
          /\ jobs' = [j \in Jobs |-> expired(jobs[j])]
          /\ task' = [p \in Procs |-> [task[p] EXCEPT !.rec = expired(@)]]
          /\ todo' = [i \in Instances |-> {[t EXCEPT !.rec = expired(@)] : t \in todo[i]}]
          /\ UNCHANGED <<bills, phase, queue, retry, pc, submissions>>
      BY DEF LeasesExpire, Everywhere, Is, provider
    <2>2. Typed /\ InstancesTyped
      BY DEF IInv
    <2>3. ASSUME NEW r \in Records \cup {NoJob}
          PROVE  Reowned(expired(r), r) /\ expired(r) \in Records \cup {NoJob}
      BY ReownedRecords
    <2>4. \A r \in Records : expired(r) \in Records
      BY <2>3 DEF Reowned
    <2>5. \A p \in Procs : pc[p] = "admit" => p \in Instances /\ p # o /\ Id(p) \in Jobs
      <3> SUFFICES ASSUME NEW p \in Procs, pc[p] = "admit" PROVE p \in Instances /\ p # o /\ Id(p) \in Jobs
        OBVIOUS
      <3>1. Fits(p, "admit", Id(p), Held(p)) /\ Id(p) \in Jobs
        BY AtLabel
      <3>2. p \in Instances
        BY <3>1 DEF Fits, RequestLabels
      <3>3. QED
        BY <2>1, <3>1, <3>2
    <2>6. \A p \in Procs : pc[p] = "admit" /\ jobs[Id(p)].owner = p => f[Id(p)].owner = p
      BY <2>5
    <2> HIDE DEF expired
    <2>7. InstancesTyped'
      <3>1. ASSUME NEW i \in Instances
            PROVE  {[t EXCEPT !.rec = expired(@)] : t \in todo[i]} \in SUBSET [id : Jobs, rec : Records]
        <4>1. \A t \in todo[i] : t \in [id : Jobs, rec : Records]
          BY <2>2 DEF InstancesTyped
        <4>2. QED
          BY <2>4, <4>1
      <3>2. todo' \in [Instances -> SUBSET [id : Jobs, rec : Records]]
        BY <2>1, <3>1
      <3>3. QED
        BY <2>1, <2>2, <3>2 DEF InstancesTyped
    <2>8. \A j \in Jobs : Reowned(f[j], jobs[j])
      BY <2>2, <2>3 DEF Typed
    <2>9. \A p \in Procs : Reowned(g[p], task[p].rec)
      BY <2>2, <2>3 DEF Typed, Tasks
    <2>10. /\ jobs' = [j \in Jobs |-> f[j]]
           /\ task' = [p \in Procs |-> [task[p] EXCEPT !.rec = g[p]]]
      BY <2>1
    <2> HIDE DEF f, g
    <2>11. QED
      BY <2>1, <2>6, <2>7, <2>8, <2>9, <2>10, <1>ReownStep
  (* A timer fires, or requests are served from now on. *)
  <1>QuietStep. ASSUME IInv, NEW i \in Instances, RetryFires(i) \/ Serve(i)
        PROVE  IInv' /\ Kept
    <2> USE <1>QuietStep
    <2>1. UNCHANGED <<jobs, bills, submissions, pc, task, todo>> /\ InstancesTyped
      BY DEF RetryFires, Serve, provider, IInv
    <2>2. CASE RetryFires(i)
      <3>1. PICK k \in retry[i] : Enqueue(i, k) /\ retry' = [retry EXCEPT ![i] = @ \ {k}]
        BY <2>2 DEF RetryFires
      <3>2. k \in Jobs /\ retry' \in [Instances -> SUBSET Jobs]
        BY <2>1, <3>1 DEF InstancesTyped
      <3>3. phase' = phase /\ InstancesTyped'
        BY <2>1, <2>2, <3>1, <3>2, <1>Queued DEF RetryFires
      <3>4. QED
        BY <2>1, <3>3, <1>ElsewhereStep
    <2>3. CASE Serve(i)
      <3>1. phase' = [phase EXCEPT ![i] = "up"] /\ UNCHANGED <<queue, retry>>
        BY <2>3 DEF Serve
      <3>2. InstancesTyped' /\ \A k \in Instances : phase[k] # "down" => phase'[k] # "down"
        BY <2>1, <3>1 DEF InstancesTyped
      <3>3. QED
        BY <2>1, <3>2, <1>ElsewhereStep
    <2>4. QED
      BY <2>2, <2>3
  <1>StutterInv. ASSUME IInv, UNCHANGED vars
        PROVE  IInv' /\ Kept
    <2> USE <1>StutterInv
    <2>1. /\ UNCHANGED <<jobs, bills, submissions, pc, task>> /\ UNCHANGED <<phase, todo, queue, retry>>
      BY DEF vars
    <2>2. InstancesTyped' /\ phase' = phase
      BY <2>1 DEF IInv, InstancesTyped
    <2>3. QED
      BY <2>1, <2>2, <1>ElsewhereStep
  <1> SUFFICES ASSUME IInv, [Next]_vars PROVE IInv' /\ Kept
    OBVIOUS
  <1>1. ASSUME NEW p \in Procs, Step(p) PROVE IInv' /\ Kept
    BY <1>1, <1>CreatePutStep, <1>CreateEnqueueStep, <1>CreateRefusedStep, <1>EndBillStep, <1>PutEndStep, <1>AdmitStep,
       <1>SubmitStep, <1>SaveStep, <1>DropStep, <1>RenewStep, <1>GetJobStep, <1>PutPolledStep, <1>CommitReadStep, <1>SettleStep,
       <1>PutCompletedStep, <1>OperatorReadStep, <1>OperatorPutStep DEF Step
  <1>2. ASSUME NEW p \in Requests, NEW j \in Jobs, NEW i \in Instances, Request(p, j, i)
        PROVE  IInv' /\ Kept
    BY <1>2, <1>CreateStartStep, <1>TakeStep DEF Request
  <1>3. ASSUME NEW i \in Instances, Runtime(i) \/ Prune(i) \/ Crash(i) PROVE IInv' /\ Kept
    <2>1. CASE RetryFires(i) \/ Serve(i)
      BY <2>1, <1>QuietStep
    <2>2. CASE RecoverFails(i) \/ Crash(i)
      BY <2>2, <1>StopStep DEF RecoverFails, RecoverStops, Crash
    <2>3. QED
      BY <1>3, <2>1, <2>2, <1>RunJobStep, <1>StartStep, <1>RecoverJobStep, <1>PruneStep DEF Runtime
  <1>4. ASSUME NEW o \in Instances \cup {Former}, LeasesExpire(o) PROVE IInv' /\ Kept
    BY <1>4, <1>LeasesExpireStep
  <1>5. ASSUME NEW j \in Jobs, RemoteEnds(j) PROVE IInv' /\ Kept
    <2>1. UNCHANGED <<jobs, bills, submissions, pc, task>> /\ UNCHANGED instance
      BY <1>5 DEF RemoteEnds
    <2>2. InstancesTyped' /\ phase' = phase
      BY <2>1 DEF IInv, InstancesTyped, instance
    <2>3. QED
      BY <2>1, <2>2, <1>ElsewhereStep
  <1>6. QED
    BY <1>1, <1>2, <1>3, <1>4, <1>5, <1>StutterInv DEF Next

(* The inductive invariant of the job machinery. *)
THEOREM JobsKeepInvariant == Spec => []IInv
  <1>1. Init => IInv
    BY InitInv
  <1>2. IInv /\ [Next]_vars => IInv'
    BY NextKeeps
  <1>3. QED
    BY <1>1, <1>2, PTL DEF Spec

(* However crashes, lease expiries, recoveries, client calls and failing   *)
(* store calls interleave, the provider accepts a job at most once: for    *)
(* any number of instances, requests, jobs, crashes and faults.            *)
THEOREM JobsSubmittedOnce == Spec => []OneSubmission
  <1>1. IInv => OneSubmission
    BY SMTT(30) DEF IInv, Typed, OneSubmission
  <1>2. QED
    BY <1>1, JobsKeepInvariant, PTL

(* Records, ledger rows and processes are well-formed, and a stored state  *)
(* agrees with what the provider did: a queued job was never accepted, one *)
(* past the submission was accepted once and its record has the provider   *)
(* job ID.  RunJob's cases after a restart or a lease expiry rest on it.   *)
THEOREM RecordsShowSubmission == Spec => [](TypeOK /\ SubmissionIsRecorded)
  <1>1. IInv => TypeOK
    <2> SUFFICES ASSUME IInv PROVE TypeOK
      OBVIOUS
    <2>1. \A j \in Jobs : Stored(j) => jobs[j] \in Records
      BY DEF IInv, Typed, Stored
    <2>2. \A p \in Procs : Is(p, "idle") <=> task[p] = NoTask
      BY StoreAssumption, SMTT(30) DEF IInv, ProcsInv, ProcOK, Is, Id, NoTask
    <2>3. QED
      BY <2>1, <2>2 DEF TypeOK, IInv, Typed
  <1>2. IInv => SubmissionIsRecorded
    BY DEF IInv, JobsInv, JobOK, RecordOK, Recorded, Active, SubmissionIsRecorded
  <1>3. QED
    BY <1>1, <1>2, JobsKeepInvariant, PTL

(* Requests that carry one idempotency key, however they race in Create,   *)
(* are one stored job.                                                     *)
THEOREM KeysAreJobs == Spec => []OneJobPerKey
  <1>1. IInv => OneJobPerKey
    BY DEF IInv
  <1>2. QED
    BY <1>1, JobsKeepInvariant, PTL

(* Create, RunJob, pollAndFinalize, Recover, Cancel and ForceFail together *)
(* implement VideoPromise: seen through the stored outcome, the provider's *)
(* count and the ledger, every step is a promised one or a stutter.        *)
THEOREM VideoJobsKeepPromise == Spec => KeepsPromise
  <1>1. Init => Promise!Init
    BY InitInv
  <1>2. IInv /\ [Next]_vars => [Promise!Next]_(Promise!vars)
    BY NextKeeps DEF Kept
  <1>3. QED
    BY <1>1, <1>2, JobsKeepInvariant, PTL DEF Spec, KeepsPromise, Promise!Spec
=============================================================================
