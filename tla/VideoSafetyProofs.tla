------------------------- MODULE VideoSafetyProofs --------------------------
(***************************************************************************)
(* A job that is over and that nobody works on holds no reservation        *)
(* (NoReservationLeft), no completion settles the actual cost of a job     *)
(* that an operator has force-failed (ForcedIsNotCompleted), and an        *)
(* instance has a job at most once in hand (OneTokenPerInstance).          *)
(*                                                                         *)
(* NoReservationLeft: a reserved job is stored and may still end, or       *)
(* somebody is at a label from which the reservation is ended.  A record   *)
(* that is written is the operator's only where the operator writes it.    *)
(*                                                                         *)
(* ForcedIsNotCompleted: the lock of a job orders the commit and ForceFail *)
(* (LockInv).  A row is settled with the actual cost only in the hands of  *)
(* the worker that is about to store the completion, or when the job is    *)
(* over and not forced (PaidFor); so ForceFail, which has read an open job *)
(* under the lock, finds another row (ForceInv).  That the completion      *)
(* follows the settlement needs that the commit reads an uploading job     *)
(* (ReadInv), which Recover, the other writer of open jobs, could spoil: in*)
(* a process that never crashed it has nothing to do (EmptyStart).         *)
(*                                                                         *)
(* OneTokenPerInstance: besides the queue, the retry timers and the worker,*)
(* a job may be on its way into the queue: a request that creates it is    *)
(* about to enqueue it, or Recover has listed it.  The invariant is that   *)
(* an instance has a job in at most one of all these places.  A job that   *)
(* is being created is in no place yet, which rests on its row in the      *)
(* ledger: no place ever has a job without one.                            *)
(***************************************************************************)
EXTENDS VideoJobsProofs

(* Zenon proves the steps that name no prover; those with arithmetic or *)
(* records name SMT.                                                    *)
USE ZenonT(30)


(* From these labels p goes on to the ledger. *)
Ending == {"create", "refused", "release", "forceRelease", "bill"}
(* Where p holds no record, or the operator's. *)
Marked == {"idle", "forceRead", "forcePut", "forceRelease"}

Alive(j) == Stored(j) /\ Open(jobs[j])
Covered(j) == Alive(j) \/ \E p \in Procs : Id(p) = j /\ pc[p] \in Ending
Unmarked(p) == pc[p] \notin Marked => ~Held(p).forced

ReservedInv == crashes = 0 /\ faults = 0 => \A j \in Jobs : bills[j].state = "reserved" => Covered(j)
BooksInv == ReservedInv /\ (\A p \in Procs : Unmarked(p)) /\ crashes \in Nat /\ faults \in Nat

-----------------------------------------------------------------------------
(* One process moves with its job. *)

LEMMA MovedWith ==
    ASSUME Typed, NEW p \in Procs, NEW l, NEW r, Move(p, l, r)
    PROVE  /\ pc'[p] = l /\ (l # "idle" => Id(p)' = Id(p) /\ Held(p)' = r)
           /\ \A q \in Procs : q # p => pc'[q] = pc[q] /\ Id(q)' = Id(q) /\ Held(q)' = Held(q)
  <1>1. pc \in [Procs -> Labels] /\ task \in [Procs -> Tasks]
    BY DEF Typed
  <1>2. /\ pc'[p] = l /\ task'[p] = (IF l = "idle" THEN NoTask ELSE [task[p] EXCEPT !.rec = r])
        /\ \A q \in Procs : q # p => pc'[q] = pc[q] /\ task'[q] = task[q]
    BY <1>1 DEF Move
  <1>3. [task[p] EXCEPT !.rec = r].id = task[p].id /\ [task[p] EXCEPT !.rec = r].rec = r
    BY <1>1 DEF Tasks
  <1>4. QED
    BY <1>2, <1>3 DEF Id, Held

LEMMA NotMarked ==
    ASSUME Typed, BooksInv, NEW p \in Procs, NEW l, NEW r, Move(p, l, r), l \notin Marked => ~r.forced
    PROVE  \A q \in Procs : Unmarked(q)'
  <1>1. ASSUME NEW q \in Procs PROVE Unmarked(q)'
    <2>1. Unmarked(q)
      BY DEF BooksInv
    <2>2. CASE q = p
      BY <2>2, MovedWith, SMTT(30) DEF Unmarked, Marked
    <2>3. CASE q # p
      BY <2>1, <2>3, MovedWith DEF Unmarked
    <2>4. QED
      BY <2>2, <2>3
  <1>2. QED
    BY <1>1

(* The store stays, and p does not leave a reservation behind. *)
LEMMA MoveBooks ==
    ASSUME IInv, BooksInv, NEW p \in Procs, NEW l, NEW r, Move(p, l, r), l \notin Marked => ~r.forced,
           UNCHANGED <<jobs, crashes>>, faults' = faults \/ faults' = faults + 1,
           \A j \in Jobs : bills'[j].state = "reserved" => bills[j].state = "reserved",
           pc[p] \in Ending =>
              l \in Ending \/ bills'[Id(p)].state # "reserved" \/ faults' = faults + 1
    PROVE  BooksInv'
  <1>1. Typed /\ crashes \in Nat /\ faults \in Nat
    BY DEF IInv, BooksInv
  <1>2. faults' \in Nat /\ (faults' = 0 => faults = 0 /\ faults' # faults + 1)
    BY <1>1, SMTT(30)
  <1>3. \A q \in Procs : Unmarked(q)'
    BY <1>1, NotMarked
  <1>4. ASSUME crashes' = 0, faults' = 0, NEW j \in Jobs, bills'[j].state = "reserved" PROVE Covered(j)'
    <2>1. Covered(j)
      BY <1>2, <1>4 DEF BooksInv, ReservedInv
    <2>2. CASE Alive(j)
      BY <2>2 DEF Covered, Alive, Stored
    <2>3. CASE \E q \in Procs : Id(q) = j /\ pc[q] \in Ending
      <3>1. PICK q \in Procs : Id(q) = j /\ pc[q] \in Ending
        BY <2>3
      <3>2. CASE q = p
        <4>1. l \in Ending
          BY <1>2, <1>4, <3>1, <3>2
        <4>2. Id(p)' = j /\ pc'[p] \in Ending
          BY <1>1, <3>1, <3>2, <4>1, MovedWith DEF Ending
        <4>3. QED
          BY <4>2 DEF Covered
      <3>3. CASE q # p
        <4>1. Id(q)' = j /\ pc'[q] \in Ending
          BY <1>1, <3>1, <3>3, MovedWith
        <4>2. QED
          BY <4>1 DEF Covered
      <3>4. QED
        BY <3>2, <3>3
    <2>4. QED
      BY <2>1, <2>2, <2>3 DEF Covered
  <1>5. QED
    BY <1>1, <1>2, <1>3, <1>4 DEF BooksInv, ReservedInv

(* p writes the record r of its job: one that may still end, or p goes on  *)
(* to the ledger.                                                          *)
LEMMA PutBooks ==
    ASSUME IInv, BooksInv, NEW p \in Procs, NEW l, NEW r \in Records, Move(p, l, r), l \notin Marked => ~r.forced,
           Id(p) \in Jobs, jobs' = [jobs EXCEPT ![Id(p)] = r], UNCHANGED <<bills, crashes, faults>>,
           Open(r) \/ l \in Ending \/ bills[Id(p)].state # "reserved"
    PROVE  BooksInv'
  <1> DEFINE i == Id(p)
  <1>1. Typed /\ r # NoJob
    BY NotRecord DEF IInv
  <1>2. jobs'[i] = r /\ \A j \in Jobs : j # i => jobs'[j] = jobs[j]
    BY <1>1 DEF Typed
  <1>3. \A q \in Procs : Unmarked(q)'
    BY <1>1, NotMarked
  <1>4. ASSUME crashes = 0, faults = 0, NEW j \in Jobs, bills[j].state = "reserved" PROVE Covered(j)'
    <2>1. Covered(j)
      BY <1>4 DEF BooksInv, ReservedInv
    <2>2. CASE j = i /\ Open(r)
      BY <1>1, <1>2, <2>2 DEF Covered, Alive, Stored
    <2>3. CASE j = i /\ l \in Ending
      <3>1. Id(p)' = j /\ pc'[p] \in Ending
        BY <1>1, <2>3, MovedWith DEF Ending
      <3>2. QED
        BY <3>1 DEF Covered
    <2>4. CASE j # i /\ Alive(j)
      BY <1>2, <2>4 DEF Covered, Alive, Stored
    <2>5. CASE j # i /\ \E q \in Procs : Id(q) = j /\ pc[q] \in Ending
      <3>1. PICK q \in Procs : Id(q) = j /\ pc[q] \in Ending
        BY <2>5
      <3>2. Id(q)' = j /\ pc'[q] \in Ending
        BY <1>1, <2>5, <3>1, MovedWith
      <3>3. QED
        BY <3>2 DEF Covered
    <2>6. QED
      BY <1>4, <2>1, <2>2, <2>3, <2>4, <2>5 DEF Covered
  <1>5. QED
    BY <1>3, <1>4 DEF BooksInv, ReservedInv

(* A call fails: nothing is claimed from then on. *)
LEMMA FaultBooks ==
    ASSUME Typed, BooksInv, NEW p \in Procs, NEW l, NEW r, Move(p, l, r), l \notin Marked => ~r.forced,
           UNCHANGED crashes, Fault
    PROVE  BooksInv'
  <1>1. faults' \in Nat /\ faults' # 0
    BY SMTT(30) DEF Fault, BooksInv
  <1>2. \A q \in Procs : Unmarked(q)'
    BY NotMarked
  <1>3. QED
    BY <1>1, <1>2 DEF BooksInv, ReservedInv

LEMMA UpdateBooks ==
    ASSUME IInv, BooksInv, NEW p \in Procs, Id(p) \in Jobs, NEW r \in Records, NEW ok, NEW err,
           Update(p, r, ok, err), UNCHANGED <<bills, instance>>,
           \/ Open(r)
           \/ \A l \in ok : l \in Ending
           \/ bills[Id(p)].state # "reserved",
           \A l \in ok : l \notin Marked => ~r.forced,
           err \notin Marked => ~Held(p).forced, pc[p] \in Ending => err \in Ending
    PROVE  BooksInv'
  <1>1. Typed /\ UNCHANGED <<bills, crashes>>
    BY DEF IInv, instance
  <1>2. ASSUME NEW l \in ok, Move(p, l, r), jobs' = [jobs EXCEPT ![Id(p)] = r], UNCHANGED faults
        PROVE  BooksInv'
    BY <1>1, <1>2, PutBooks
  <1>3. CASE Move(p, err, Held(p)) /\ UNCHANGED <<jobs, faults>>
    BY <1>1, <1>3, MoveBooks
  <1>4. CASE Move(p, err, Held(p)) /\ Fault
    BY <1>1, <1>4, FaultBooks
  <1>5. QED
    BY <1>2, <1>3, <1>4 DEF Update, Goto, GivesUp

(* What p holds at the labels of the writing calls. *)
LEMMA HeldIsUnmarked ==
    ASSUME IInv, BooksInv, NEW p \in Procs, pc[p] \notin Marked
    PROVE  /\ Id(p) \in Jobs /\ Held(p) \in Records /\ ~Held(p).forced
           /\ Holds(pc[p], Held(p)) /\ Fits(p, pc[p], Id(p), Held(p))
           /\ \A s \in JobStates : As(Held(p), s) \in Records /\ As(Held(p), s).st = s /\ ~As(Held(p), s).forced
  <1>1. /\ pc[p] # "idle" /\ pc[p] # "forceRead"
    BY DEF Marked
  <1>2. Id(p) \in Jobs /\ Held(p) \in Records /\ Fits(p, pc[p], Id(p), Held(p))
    BY <1>1, AtLabel
  <1>3. ~Held(p).forced
    BY DEF BooksInv, Unmarked
  <1>4. QED
    BY <1>2, <1>3, AsRecord DEF Fits

LEMMA OpenRecord ==
    ASSUME NEW r, ~r.forced, r.st \notin {"dry", "completed", "cancelled", "failed"}
    PROVE  Open(r)
  BY DEF Open, IsTerminal

(* Every stored job that may still end stays, and so does everybody who    *)
(* ends a reservation.                                                     *)
LEMMA SameBooks ==
    ASSUME BooksInv, UNCHANGED <<bills, crashes, faults>>, \A j \in Jobs : Alive(j) => Alive(j)',
           \A p \in Procs : pc[p] \in Ending => pc'[p] \in Ending /\ Id(p)' = Id(p),
           \A p \in Procs : Unmarked(p)'
    PROVE  BooksInv'
  <1>1. \A j \in Jobs : Covered(j) => Covered(j)'
    BY DEF Covered
  <1>2. QED
    BY <1>1 DEF BooksInv, ReservedInv

(* A claim changes the lease only. *)
LEMMA ClaimedAlive ==
    ASSUME Typed, NEW j \in Jobs, NEW i \in Instances, Stored(j), jobs' = [jobs EXCEPT ![j] = Leased(@, i)]
    PROVE  \A k \in Jobs : Alive(k) => Alive(k)'
  <1>1. jobs[j] \in Records
    BY DEF Typed, Stored
  <1>2. jobs'[j] = Leased(jobs[j], i) /\ \A k \in Jobs : k # j => jobs'[k] = jobs[k]
    BY DEF Typed
  <1>3. /\ Leased(jobs[j], i) # NoJob /\ Leased(jobs[j], i).st = jobs[j].st
        /\ Leased(jobs[j], i).forced = jobs[j].forced
    BY <1>1, LeasedRecord, NotRecord
  <1>4. QED
    BY <1>2, <1>3 DEF Alive, Open, IsTerminal, Stored

LEMMA BeginBooks ==
    ASSUME Typed, BooksInv, NEW p \in Procs, pc[p] = "idle", NEW l, NEW j, NEW i, NEW r,
           l \in Marked \/ ~r.forced, UNCHANGED <<bills, crashes, faults>>,
           pc' = [pc EXCEPT ![p] = l], task' = [task EXCEPT ![p] = [id |-> j, rec |-> r, home |-> i]],
           \A k \in Jobs : Alive(k) => Alive(k)'
    PROVE  BooksInv'
  <1>1. /\ pc'[p] = l /\ Held(p)' = r
        /\ \A q \in Procs : q # p => pc'[q] = pc[q] /\ Id(q)' = Id(q) /\ Held(q)' = Held(q)
    BY DEF Typed, Id, Held
  <1>2. \A q \in Procs : Unmarked(q)'
    BY <1>1 DEF BooksInv, Unmarked
  <1>3. \A q \in Procs : pc[q] \in Ending => pc'[q] \in Ending /\ Id(q)' = Id(q)
    BY <1>1 DEF Ending
  <1>4. QED
    BY <1>2, <1>3, SameBooks

(* The leases of an owner end. *)
LEMMA ReownedAll ==
    ASSUME Typed, NEW o, NEW n \in Instances \cup {NoOwner, Former},
           \/ /\ jobs' = [j \in Jobs |-> IF jobs[j] # NoJob /\ jobs[j].owner = o
                                         THEN [jobs[j] EXCEPT !.owner = n] ELSE jobs[j]]
              /\ task' = [p \in Procs |-> [task[p] EXCEPT !.rec = IF @ # NoJob /\ @.owner = o
                                                                  THEN [@ EXCEPT !.owner = n] ELSE @]]
           \/ /\ jobs' = [j \in Jobs |-> jobs[j]]
              /\ task' = [p \in Procs |-> [task[p] EXCEPT !.rec = @]]
    PROVE  /\ \A j \in Jobs : Reowned(jobs'[j], jobs[j])
           /\ \A p \in Procs : Id(p)' = Id(p) /\ Reowned(Held(p)', Held(p)) /\ Held(p) \in Records \cup {NoJob}
  <1> DEFINE f(r) == IF r # NoJob /\ r.owner = o THEN [r EXCEPT !.owner = n] ELSE r
  <1>1. ASSUME NEW r \in Records \cup {NoJob} PROVE Reowned(f(r), r)
    BY ReownedRecords
  <1>2. \/ /\ jobs' = [j \in Jobs |-> f(jobs[j])]
           /\ task' = [p \in Procs |-> [task[p] EXCEPT !.rec = f(@)]]
        \/ /\ jobs' = [j \in Jobs |-> jobs[j]]
           /\ task' = [p \in Procs |-> [task[p] EXCEPT !.rec = @]]
    OBVIOUS
  <1> HIDE DEF f
  <1>3. \A j \in Jobs : Reowned(jobs'[j], jobs[j])
    BY <1>1, <1>2, SMTT(30) DEF Typed, Reowned
  <1>4. ASSUME NEW p \in Procs, NEW r
        PROVE  [task[p] EXCEPT !.rec = r].id = task[p].id /\ [task[p] EXCEPT !.rec = r].rec = r
    BY SMTT(30) DEF Typed, Tasks
  <1>5. \A p \in Procs : Id(p)' = Id(p) /\ (Held(p)' = f(Held(p)) \/ Held(p)' = Held(p))
    <2> SUFFICES ASSUME NEW p \in Procs
                 PROVE  Id(p)' = Id(p) /\ (Held(p)' = f(Held(p)) \/ Held(p)' = Held(p))
      OBVIOUS
    <2>1. \/ task'[p] = [task[p] EXCEPT !.rec = f(task[p].rec)]
          \/ task'[p] = [task[p] EXCEPT !.rec = task[p].rec]
      BY <1>2
    <2>2. QED
      <3>1. PICK r : task'[p] = [task[p] EXCEPT !.rec = r] /\ (r = f(task[p].rec) \/ r = task[p].rec)
        BY <2>1
      <3>2. task'[p].id = task[p].id /\ task'[p].rec = r
        BY <1>4, <3>1, SMTT(30)
      <3>3. QED
        BY <3>1, <3>2 DEF Id, Held
  <1>6. \A p \in Procs : Held(p) \in Records \cup {NoJob}
    BY DEF Typed, Tasks, Held
  <1>7. QED
    BY <1>1, <1>3, <1>5, <1>6, SMTT(30) DEF Reowned

LEMMA ReownBooks ==
    ASSUME Typed, BooksInv, UNCHANGED <<bills, pc, crashes, faults>>,
           \A j \in Jobs : Reowned(jobs'[j], jobs[j]),
           \A p \in Procs : Id(p)' = Id(p) /\ Reowned(Held(p)', Held(p)) /\ Held(p) \in Records \cup {NoJob}
    PROVE  BooksInv'
  <1>1. \A j \in Jobs : Alive(j) => Alive(j)'
    BY NotRecord DEF Reowned, Typed, Alive, Open, IsTerminal, Stored
  <1>2. \A p \in Procs : Unmarked(p)'
    BY SMTT(30) DEF BooksInv, Reowned, Unmarked
  <1>3. QED
    BY <1>1, <1>2, SameBooks

(* Nobody's record changes, and no job that may still end goes away. *)
LEMMA QuietBooks ==
    ASSUME BooksInv, UNCHANGED <<bills, pc, task, crashes, faults>>, \A j \in Jobs : Alive(j) => Alive(j)'
    PROVE  BooksInv'
  <1>1. \A p \in Procs : Unmarked(p)' /\ Id(p)' = Id(p)
    BY DEF BooksInv, Unmarked, Held, Id
  <1>2. QED
    BY <1>1, SameBooks

LEMMA NextBooks ==
    IInv /\ BooksInv /\ [Next]_vars /\ [\A i \in Instances : ~RecoverFails(i)]_vars => BooksInv'
  <1>EndingPuts. ASSUME IInv, BooksInv, NEW p \in Procs,
               CreateRefused(p) \/ PutEnd(p) \/ Admit(p) \/ Save(p) \/ CancelPut(p)
        PROVE  BooksInv'
    <2> USE <1>EndingPuts
    <2> DEFINE r == Held(p)
    <2>1. /\ UNCHANGED <<bills, instance>>
          /\ pc[p] \in {"refused", "manual", "fail", "admit", "save", "saveOdd", "odd", "cancelPut"}
      BY DEF CreateRefused, PutEnd, Admit, Save, CancelPut, Is
    <2>2. /\ pc[p] \notin Marked /\ (pc[p] \in Ending => pc[p] = "refused") /\ "idle" \in Marked
          /\ "release" \in Ending /\ "bill" \in Ending
      BY <2>1 DEF Marked, Ending
    <2>3. /\ Id(p) \in Jobs /\ r \in Records /\ ~r.forced /\ Holds(pc[p], r)
          /\ \A s \in JobStates : As(r, s) \in Records /\ As(r, s).st = s /\ ~As(r, s).forced
      BY <2>2, HeldIsUnmarked
    <2> HIDE DEF r
    <2>4. CASE CreateRefused(p)
      <3>1. pc[p] = "refused" /\ Update(p, r, {"release"}, "release")
        BY <2>4 DEF CreateRefused, Is, r
      <3>2. QED
        BY <2>1, <2>2, <2>3, <3>1, UpdateBooks DEF r
    <2>5. CASE pc[p] = "manual" /\ Update(p, r, {"idle"}, "idle")
      <3>1. Open(r)
        BY <2>3, <2>5, OpenRecord DEF Holds
      <3>2. QED
        BY <2>1, <2>2, <2>3, <2>5, <3>1, UpdateBooks
    <2>6. CASE pc[p] = "fail" /\ Update(p, r, {"bill"}, "idle")
      BY <2>1, <2>2, <2>3, <2>6, UpdateBooks
    <2>7. CASE pc[p] = "admit" /\ Update(p, As(r, "admitted"), {"submit"}, "idle")
      <3>1. As(r, "admitted") \in Records /\ ~As(r, "admitted").forced /\ Open(As(r, "admitted"))
        BY <2>3, OpenRecord DEF JobStates
      <3>2. QED
        BY <2>1, <2>2, <2>3, <2>7, <3>1, UpdateBooks
    <2>8. CASE \/ pc[p] = "save" /\ Update(p, r, {"poll"}, "drop")
               \/ pc[p] = "saveOdd" /\ Update(p, r, {"odd"}, "drop")
      <3>1. Open(r)
        BY <2>3, <2>8, OpenRecord DEF Holds
      <3>2. ~Held(p).forced
        BY <2>3 DEF r
      <3>3. QED
        BY <2>1, <2>2, <2>3, <2>8, <3>1, <3>2, UpdateBooks
    <2>9. CASE pc[p] = "odd" /\ Update(p, As(r, "manual"), {"idle"}, "idle")
      <3>1. As(r, "manual") \in Records /\ ~As(r, "manual").forced /\ Open(As(r, "manual"))
        BY <2>3, OpenRecord DEF JobStates
      <3>2. QED
        BY <2>1, <2>2, <2>3, <2>9, <3>1, UpdateBooks
    <2>10. CASE pc[p] = "cancelPut" /\ Update(p, r, {IF HasId(r) THEN "bill" ELSE "release"}, "idle")
      BY <2>1, <2>2, <2>3, <2>10, UpdateBooks
    <2>11. QED
      BY <2>4, <2>5, <2>6, <2>7, <2>8, <2>9, <2>10 DEF PutEnd, Admit, Save, CancelPut, Is, r
  <1>PollPuts. ASSUME IInv, BooksInv, NEW p \in Procs, PutPolled(p) \/ PutCompleted(p)
        PROVE  BooksInv'
    <2> USE <1>PollPuts
    <2> DEFINE r == Held(p)
    <2>1. /\ UNCHANGED <<bills, instance>>
          /\ pc[p] \in {"keep", "gone", "later", "upload", "lateManual", "notDownloaded", "unsettled", "complete"}
      BY DEF PutPolled, PutCompleted, Is
    <2>2. pc[p] \notin Marked /\ pc[p] \notin Ending /\ "idle" \in Marked /\ "release" \in Ending
      BY <2>1 DEF Marked, Ending
    <2>3. /\ Id(p) \in Jobs /\ r \in Records /\ ~r.forced /\ Holds(pc[p], r) /\ ~Held(p).forced
          /\ As(r, "manual") \in Records /\ As(r, "manual").st = "manual" /\ ~As(r, "manual").forced
          /\ pc[p] = "complete" => bills[Id(p)].state # "reserved"
      BY <2>2, HeldIsUnmarked DEF JobStates, Fits, Settled
    <2> HIDE DEF r
    <2>4. CASE \E ok, err : pc[p] \notin {"gone", "complete", "lateManual"} /\ Update(p, r, ok, err)
      <3>1. r.st \in Active \cup {"admitted", "manual"}
        BY <2>1, <2>3, <2>4 DEF Holds, Polled
      <3>2. Open(r)
        BY <2>3, <3>1, OpenRecord DEF Active
      <3>3. QED
        BY <2>1, <2>2, <2>3, <2>4, <3>2, UpdateBooks
    <2>5. CASE pc[p] = "gone" /\ Update(p, r, {"release"}, "idle")
      BY <2>1, <2>2, <2>3, <2>5, UpdateBooks
    <2>6. CASE pc[p] = "lateManual" /\ Update(p, As(r, "manual"), {"maybe"}, "maybe")
      <3>1. Open(As(r, "manual"))
        BY <2>3, OpenRecord
      <3>2. QED
        BY <2>1, <2>2, <2>3, <2>6, <3>1, UpdateBooks
    <2>7. CASE pc[p] = "complete" /\ Update(p, r, {"idle"}, "maybe")
      BY <2>1, <2>2, <2>3, <2>7, UpdateBooks
    <2>8. QED
      BY <2>4, <2>5, <2>6, <2>7 DEF PutPolled, PutCompleted, Is, r
  <1>ForcePutBooks. ASSUME IInv, BooksInv, NEW p \in Procs, ForcePut(p)
        PROVE  BooksInv'
    <2> USE <1>ForcePutBooks
    <2>1. /\ UNCHANGED <<bills, instance>> /\ pc[p] = "forcePut"
          /\ Update(p, Held(p), {"forceRelease"}, "idle")
      BY DEF ForcePut, Is
    <2>2. Id(p) \in Jobs /\ Held(p) \in Records
      BY <2>1, AtLabel
    <2>3. "forceRelease" \in Ending /\ "forceRelease" \in Marked /\ "idle" \in Marked /\ "forcePut" \notin Ending
      BY DEF Ending, Marked
    <2>4. QED
      BY <2>1, <2>2, <2>3, UpdateBooks, SMTT(30)
  <1>RenewBooks. ASSUME IInv, BooksInv, NEW p \in Procs, Renew(p)
        PROVE  BooksInv'
    <2> USE <1>RenewBooks
    <2>1. pc[p] = "poll" /\ UNCHANGED <<bills, crashes>> /\ Typed
      BY DEF Renew, Is, instance, IInv
    <2>2. pc[p] \notin Marked /\ pc[p] \notin Ending /\ "idle" \in Marked
      BY <2>1 DEF Marked, Ending
    <2>3. /\ Id(p) \in Jobs /\ Held(p) \in Records /\ ~Held(p).forced /\ p \in Instances
      BY <2>1, <2>2, HeldIsUnmarked DEF Fits, RequestLabels
    <2>4. CASE Move(p, "idle", Held(p)) /\ UNCHANGED <<jobs, faults>>
      BY <2>1, <2>2, <2>4, MoveBooks
    <2>5. CASE Move(p, "idle", Held(p)) /\ Fault
      BY <2>1, <2>2, <2>5, FaultBooks
    <2>6. CASE /\ Stored(Id(p)) /\ jobs' = [jobs EXCEPT ![Id(p)] = Leased(@, p)]
               /\ Move(p, "ask", Leased(Held(p), p)) /\ UNCHANGED faults
      <3>1. ~Leased(Held(p), p).forced
        BY <2>3, LeasedRecord, SMTT(30)
      <3>2. \A q \in Procs : Unmarked(q)'
        BY <2>1, <2>6, <3>1, NotMarked
      <3>3. \A q \in Procs : pc[q] \in Ending => pc'[q] \in Ending /\ Id(q)' = Id(q)
        BY <2>1, <2>2, <2>6, MovedWith
      <3>4. \A k \in Jobs : Alive(k) => Alive(k)'
        BY <2>1, <2>3, <2>6, ClaimedAlive
      <3>5. QED
        BY <2>1, <2>6, <3>2, <3>3, <3>4, SameBooks
    <2>7. QED
      BY <2>4, <2>5, <2>6 DEF Renew, Goto
  (* The other steps between two calls: none is at a label that ends a       *)
  (* reservation.                                                            *)
  <1>GotoBooks. ASSUME IInv, BooksInv, NEW p \in Procs,
               \/ CreateEnqueue(p) \/ Submit(p) \/ Drop(p) \/ GetJob(p) \/ Again(p) \/ CommitRead(p)
               \/ CancelAtProvider(p) \/ ForceRead(p)
        PROVE  BooksInv'
    <2> USE <1>GotoBooks
    <2> DEFINE r == Held(p)
               j == Id(p)
    <2>1. /\ UNCHANGED <<jobs, bills, crashes>> /\ Typed
          /\ pc[p] \in {"enqueue", "submit", "drop", "ask", "again", "maybe", "commit", "cancelRemote", "forceRead"}
      BY DEF CreateEnqueue, Submit, Drop, GetJob, Again, CommitRead, CancelAtProvider, ForceRead, ForceReadAs,
             Is, instance, IInv
    <2>2. pc[p] \notin Ending /\ pc[p] # "idle" /\ (pc[p] # "forceRead" => pc[p] \notin Marked)
      BY <2>1 DEF Ending, Marked
    <2>3. j \in Jobs /\ (pc[p] # "forceRead" => r \in Records /\ ~r.forced
             /\ \A s \in JobStates : ~As(r, s).forced)
      BY <2>2, AtLabel, HeldIsUnmarked
    <2>4. faults' = faults \/ faults' = faults + 1
      BY DEF CreateEnqueue, Submit, Drop, GetJob, Again, CommitRead, CancelAtProvider, ForceRead, ForceReadAs,
             Fault, GivesUp
    <2> HIDE DEF r, j
    <2>5. \E l, x : Move(p, l, x) /\ (l \notin Marked => ~x.forced)
      <3>0. {"failed", "manual", "processing", "cancelled", "uploading"} \subseteq JobStates
        BY DEF JobStates
      <3>1. CASE CreateEnqueue(p) \/ Again(p) \/ Drop(p) \/ CancelAtProvider(p)
        <4>1. \/ Move(p, "idle", r) \/ Move(p, "refused", As(r, "failed")) \/ Move(p, "cancelPut", r)
          BY <3>1 DEF CreateEnqueue, Again, Drop, CancelAtProvider, Goto, r
        <4>2. pc[p] # "forceRead"
          BY <3>1 DEF CreateEnqueue, Again, Drop, CancelAtProvider, Is
        <4>3. QED
          BY <2>3, <3>0, <4>1, <4>2 DEF Marked
      <3>2. CASE Submit(p)
        <4>1. pc[p] = "submit" /\ (\/ Move(p, "fail", As(r, "failed")) \/ Move(p, "manual", As(r, "manual"))
                                   \/ \E l : Move(p, l, Submitted(r, j)))
          BY <3>2 DEF Submit, Fail, Manual, Is, r, j
        <4>2. r \in Records /\ ~r.forced
          BY <2>3, <4>1
        <4>3. ~Submitted(r, j).forced
          BY <4>2 DEF Submitted, Records
        <4>4. QED
          BY <2>3, <3>0, <4>1, <4>3
      <3>3. CASE GetJob(p)
        <4>1. pc[p] = "ask" /\ \E l : Move(p, l, r) \/ \E s \in {"failed", "manual", "processing", "cancelled", "uploading"} :
                                         Move(p, l, As(r, s))
          BY <3>3 DEF GetJob, Goto, Manual, Fail, Is, r
        <4>2. QED
          BY <2>3, <3>0, <4>1
      <3>4. CASE CommitRead(p)
        <4>1. /\ pc[p] = "commit"
              /\ (\E l : Move(p, l, r)) \/ (Open(jobs[j]) /\ Move(p, "settle", jobs[j]))
          BY <3>4 DEF CommitRead, Goto, Is, r, j
        <4>2. QED
          BY <2>3, <4>1 DEF Open, IsTerminal
      <3>5. CASE ForceRead(p)
        <4>1. \E x : Move(p, "idle", x) \/ Move(p, "forcePut", x)
          BY <3>5 DEF ForceRead, ForceReadAs, Goto
        <4>2. QED
          BY <4>1 DEF Marked
      <3>6. QED
        BY <3>1, <3>2, <3>3, <3>4, <3>5
    <2>6. QED
      BY <2>1, <2>2, <2>4, <2>5, MoveBooks
  <1>BillBooks. ASSUME IInv, BooksInv, NEW p \in Procs, EndBill(p) \/ Settle(p)
        PROVE  BooksInv'
    <2> USE <1>BillBooks
    <2> DEFINE j == Id(p)
               r == Held(p)
               settle == SettleEstimate(j) \/ \E a \in Actuals : SettleActual(j, a)
    <2>1. UNCHANGED <<jobs, crashes>> /\ Typed /\ pc[p] # "idle" /\ pc[p] # "forceRead"
      BY DEF EndBill, Settle, Is, instance, IInv
    <2>2. j \in Jobs /\ r \in Records /\ bills \in [Jobs -> Rows]
      BY <2>1, AtLabel DEF Typed
    <2>3. ASSUME Release(j) \/ settle
          PROVE  /\ bills'[j].state # "reserved"
                 /\ \A k \in Jobs : bills'[k].state = "reserved" => bills[k].state = "reserved"
      <3>1. ASSUME NEW x \in Rows
            PROVE  /\ AfterRelease(x).state # "reserved" /\ AfterEstimate(x).state # "reserved"
                   /\ \A a : AfterActual(x, a).state # "reserved"
        BY DEF AfterRelease, AfterEstimate, AfterActual, Rows, Settled
      <3>2. bills'[j].state # "reserved" /\ \A k \in Jobs : k # j => bills'[k] = bills[k]
        BY <2>2, <2>3, <3>1, SMTT(30) DEF Release, SettleEstimate, SettleActual
      <3>3. QED
        BY <3>2
    <2> HIDE DEF settle
    <2>4. CASE EndBill(p)
      <3>1. Move(p, "idle", r) /\ "idle" \in Marked
        BY <2>4 DEF EndBill, Goto, Marked
      <3>2. CASE (Release(j) \/ settle) /\ UNCHANGED faults
        BY <2>1, <2>3, <3>1, <3>2, MoveBooks
      <3>3. CASE Fault
        BY <2>1, <3>1, <3>3, FaultBooks
      <3>4. QED
        BY <2>4, <3>2, <3>3 DEF EndBill, settle
    <2>5. CASE Settle(p)
      <3>1. pc[p] = "settle"
        BY <2>5 DEF Settle, Is
      <3>2. pc[p] \notin Marked /\ pc[p] \notin Ending
        BY <3>1 DEF Marked, Ending
      <3>3. ~r.forced /\ ~As(r, "completed").forced
        BY <3>2, HeldIsUnmarked DEF JobStates
      <3>4. PICK l : Move(p, l, r) \/ Move(p, l, As(r, "completed"))
        BY <2>5 DEF Settle, Goto
      <3>5. CASE (UNCHANGED bills \/ settle) /\ UNCHANGED faults
        <4>1. \A k \in Jobs : bills'[k].state = "reserved" => bills[k].state = "reserved"
          BY <2>3, <3>5
        <4>2. QED
          BY <2>1, <3>2, <3>3, <3>4, <3>5, <4>1, MoveBooks
      <3>6. CASE Fault
        BY <2>1, <3>3, <3>4, <3>6, FaultBooks
      <3>7. QED
        BY <2>5, <3>5, <3>6 DEF Settle, settle
    <2>6. QED
      BY <2>4, <2>5
  <1>CreatePutBooks. ASSUME IInv, BooksInv, NEW p \in Procs, CreatePut(p)
        PROVE  BooksInv'
    <2> USE <1>CreatePutBooks
    <2> DEFINE no == IF Is(p, "dry") THEN "idle" ELSE "release"
               yes == IF Is(p, "dry") THEN "idle" ELSE "enqueue"
    <2>1. pc[p] \in {"create", "dry"} /\ UNCHANGED <<bills, crashes>> /\ Typed
      BY DEF CreatePut, Is, instance, IInv
    <2>2. pc[p] \notin Marked
      BY <2>1 DEF Marked
    <2>3. /\ Id(p) \in Jobs /\ Held(p) \in Records /\ ~Held(p).forced
          /\ pc[p] = "create" => Held(p).st = "queued"
          /\ pc[p] = "dry" => bills[Id(p)].state # "reserved"
      <3>1. /\ Id(p) \in Jobs /\ Held(p) \in Records /\ ~Held(p).forced
            /\ Holds(pc[p], Held(p)) /\ Fits(p, pc[p], Id(p), Held(p))
        BY <2>2, HeldIsUnmarked
      <3>2. pc[p] = "create" => Held(p).st = "queued"
        BY <3>1 DEF Holds
      <3>3. pc[p] = "dry" => bills[Id(p)] = NoRow
        BY <3>1 DEF Fits
      <3>4. QED
        BY <3>1, <3>2, <3>3, SMTT(30) DEF NoRow
    <2>4. Open(Held(p)) \/ bills[Id(p)].state # "reserved"
      BY <2>1, <2>3, OpenRecord
    <2>5. pc[p] \in Ending => no \in Ending
      BY DEF Ending, Is
    <2> HIDE DEF no, yes
    <2>6. CASE Move(p, yes, Held(p)) /\ jobs' = [jobs EXCEPT ![Id(p)] = Held(p)] /\ UNCHANGED faults
      BY <2>1, <2>3, <2>4, <2>6, PutBooks
    <2>7. CASE Move(p, no, Held(p)) /\ UNCHANGED <<jobs, faults>>
      BY <2>1, <2>3, <2>5, <2>7, MoveBooks
    <2>8. CASE Move(p, no, Held(p)) /\ Fault
      BY <2>1, <2>3, <2>8, FaultBooks
    <2>9. QED
      BY <2>6, <2>7, <2>8 DEF CreatePut, Goto, GivesUp, no, yes
  (* A request or a worker begins with a job. *)
  <1>CreateStartBooks. ASSUME IInv, BooksInv, NEW p \in Requests, NEW j \in Jobs, NEW i \in Instances, CreateStart(p, j, i)
        PROVE  BooksInv'
    <2> USE <1>CreateStartBooks
    <2>1. PICK dry \in BOOLEAN :
             /\ IF dry THEN UNCHANGED bills ELSE Reserve(j)
             /\ pc' = [pc EXCEPT ![p] = IF dry THEN "dry" ELSE "create"]
             /\ task' = [task EXCEPT ![p] =
                            [id |-> j, rec |-> Fresh(IF dry THEN "dry" ELSE "queued"), home |-> i]]
      BY DEF CreateStart
    <2>2. UNCHANGED <<jobs, crashes, faults>> /\ pc[p] = "idle" /\ p \in Procs /\ Typed
      BY DEF CreateStart, instance, Is, IInv, Procs
    <2>3. /\ pc'[p] = (IF dry THEN "dry" ELSE "create") /\ Id(p)' = j /\ ~Held(p)'.forced
          /\ \A q \in Procs : q # p => pc'[q] = pc[q] /\ Id(q)' = Id(q) /\ Held(q)' = Held(q)
      BY <2>1, <2>2 DEF Typed, Id, Held, Fresh
    <2>4. \A q \in Procs : Unmarked(q)'
      BY <2>3 DEF BooksInv, Unmarked
    <2>5. ASSUME NEW k \in Jobs, Covered(k) PROVE Covered(k)'
      <3>1. CASE Alive(k)
        BY <2>2, <3>1 DEF Alive, Stored, Covered
      <3>2. CASE \E q \in Procs : Id(q) = k /\ pc[q] \in Ending
        <4>1. PICK q \in Procs : Id(q) = k /\ pc[q] \in Ending
          BY <3>2
        <4>2. Id(q)' = k /\ pc'[q] \in Ending
          BY <2>2, <2>3, <4>1 DEF Ending
        <4>3. QED
          BY <4>2 DEF Covered
      <3>3. QED
        BY <2>5, <3>1, <3>2 DEF Covered
    <2>6. ASSUME NEW k \in Jobs, bills'[k].state = "reserved", bills[k].state # "reserved" PROVE Covered(k)'
      <3>1. ~dry /\ k = j
        BY <2>1, <2>2, <2>6 DEF Reserve, Typed
      <3>2. pc'[p] \in Ending
        BY <2>3, <3>1 DEF Ending
      <3>3. QED
        BY <2>2, <2>3, <3>1, <3>2 DEF Covered
    <2>7. QED
      BY <2>2, <2>4, <2>5, <2>6 DEF BooksInv, ReservedInv
  <1>TakeBooks. ASSUME IInv, BooksInv, NEW p \in Requests, NEW j \in Jobs, NEW i \in Instances,
               Cancel(p, j, i) \/ ForceFail(p, j, i)
        PROVE  BooksInv'
    <2> USE <1>TakeBooks
    <2>1. /\ UNCHANGED <<jobs, bills, crashes, faults>> /\ p \in Procs /\ Typed
          /\ pc[p] = "idle" /\ Stored(j) /\ Open(jobs[j])
      BY DEF Cancel, CancelAs, ForceFail, instance, IInv, Procs, Take, Is
    <2>2. jobs[j] \in Records
      BY <2>1 DEF Typed, Stored
    <2>3. ~As(jobs[j], "cancelled").forced
      BY <2>1, <2>2, AsRecord DEF JobStates, Open, IsTerminal
    <2>4. \A k \in Jobs : Alive(k) => Alive(k)'
      BY <2>1 DEF Alive, Stored
    <2>5. CASE Cancel(p, j, i)
      <3>1. PICK l : Take(p, j, i, l, As(jobs[j], "cancelled"))
        BY <2>5 DEF Cancel, CancelAs
      <3>2. QED
        BY <2>1, <2>3, <2>4, <3>1, BeginBooks DEF Take
    <2>6. CASE ForceFail(p, j, i)
      <3>1. Take(p, j, i, "forceRead", NoJob) /\ "forceRead" \in Marked
        BY <2>6 DEF ForceFail, Marked
      <3>2. QED
        BY <2>1, <2>4, <3>1, BeginBooks DEF Take
    <2>7. QED
      BY <2>5, <2>6
  <1>RunJobBooks. ASSUME IInv, BooksInv, NEW i \in Instances, RunJob(i)
        PROVE  BooksInv'
    <2> USE <1>RunJobBooks
    <2> DEFINE j == Head(queue[i])
               r == Leased(jobs[j], i)
    <2>1. pc[i] = "idle" /\ i \in Procs /\ UNCHANGED <<bills, crashes>> /\ Typed /\ queue[i] \in Seq(Jobs) /\ queue[i] # <<>>
      BY DEF RunJob, ClaimNext, Is, IInv, Procs, InstancesTyped
    <2>2. j \in Jobs
      BY <2>1, SMTT(30)
    <2> HIDE DEF j
    <2>3. ASSUME UNCHANGED <<pc, task, faults>>, \A k \in Jobs : Alive(k) => Alive(k)' PROVE BooksInv'
      <3>1. \A q \in Procs : Unmarked(q)' /\ Id(q)' = Id(q)
        BY <2>3 DEF BooksInv, Unmarked, Held, Id
      <3>2. QED
        BY <2>1, <2>3, <3>1, SameBooks
    <2>4. CASE UNCHANGED <<jobs, pc, task, faults>>
      <3>1. \A k \in Jobs : Alive(k) => Alive(k)'
        BY <2>4 DEF Alive, Stored
      <3>2. QED
        BY <2>3, <2>4, <3>1
    <2>5. CASE Fault /\ UNCHANGED <<pc, task>>
      <3>1. \A q \in Procs : Unmarked(q)'
        BY <2>5 DEF BooksInv, Unmarked, Held
      <3>2. faults' \in Nat /\ faults' # 0
        BY <2>5, SMTT(30) DEF Fault, BooksInv
      <3>3. QED
        BY <2>1, <3>1, <3>2 DEF BooksInv, ReservedInv
    <2>6. CASE Stored(j) /\ jobs' = [jobs EXCEPT ![j] = Leased(@, i)] /\ Resume(i, r) /\ UNCHANGED faults
      <3>1. \A k \in Jobs : Alive(k) => Alive(k)'
        BY <2>1, <2>2, <2>6, ClaimedAlive
      <3>2. CASE UNCHANGED <<pc, task>>
        BY <2>3, <2>6, <3>1, <3>2
      <3>3. CASE ~AtRest(r)
        <4>1. jobs[j] \in Records
          BY <2>1, <2>2, <2>6 DEF Typed, Stored
        <4>2. r \in Records /\ ~r.forced
          BY <3>3, <4>1, LeasedRecord DEF AtRest, IsTerminal
        <4> HIDE DEF r
        <4>3. ~As(r, "manual").forced /\ ~As(r, "failed").forced
          BY <4>2, AsRecord, SMTT(30) DEF JobStates
        <4>4. PICK next \in {<<"admit", r>>, <<"manual", As(r, "manual")>>, <<"poll", r>>, <<"fail", As(r, "failed")>>} :
                 /\ pc' = [pc EXCEPT ![i] = next[1]]
                 /\ task' = [task EXCEPT ![i] = [id |-> j, rec |-> next[2], home |-> i]]
          BY <2>6, <3>3 DEF Resume, j
        <4>5. ~(next[2]).forced
          BY <4>2, <4>3, SMTT(30)
        <4>6. QED
          BY <2>1, <2>6, <3>1, <4>4, <4>5, BeginBooks
      <3>4. QED
        BY <2>6, <3>2, <3>3 DEF Resume
    <2>7. QED
      BY <2>4, <2>5, <2>6 DEF RunJob, ClaimNext, j
  <1>StartBooks. ASSUME IInv, BooksInv, NEW i \in Instances, Start(i)
        PROVE  BooksInv'
    <2> USE <1>StartBooks
    <2>1. UNCHANGED <<bills, pc, crashes, faults>> /\ Typed /\ Former \in Instances \cup {NoOwner, Former}
      BY DEF Start, IInv
    <2>2. QED
      BY <2>1, ReownedAll, ReownBooks DEF Start, Everywhere
  <1>LeasesExpireBooks. ASSUME IInv, BooksInv, NEW o, LeasesExpire(o)
        PROVE  BooksInv'
    <2> USE <1>LeasesExpireBooks
    <2>1. UNCHANGED <<bills, pc, crashes, faults>> /\ Typed /\ NoOwner \in Instances \cup {NoOwner, Former}
      BY DEF LeasesExpire, IInv
    <2>2. QED
      BY <2>1, ReownedAll, ReownBooks DEF LeasesExpire, Everywhere
  <1>PruneBooks. ASSUME IInv, BooksInv, NEW i \in Instances, Prune(i)
        PROVE  BooksInv'
    <2> USE <1>PruneBooks
    <2>1. PICK j \in Jobs : IsTerminal(jobs[j]) /\ jobs' = [jobs EXCEPT ![j] = NoJob]
      BY DEF Prune
    <2>2. UNCHANGED <<bills, pc, task, crashes, faults>> /\ Typed
      BY DEF Prune, instance, IInv
    <2>3. \A k \in Jobs : Alive(k) => k # j /\ jobs'[k] = jobs[k]
      BY <2>1, <2>2 DEF Typed, Alive, Open
    <2>4. QED
      BY <2>2, <2>3, QuietBooks DEF Alive, Stored
  <1>RecoverJobBooks. ASSUME IInv, BooksInv, NEW i \in Instances, RecoverJob(i)
        PROVE  BooksInv'
    <2> USE <1>RecoverJobBooks
    <2>1. PICK t \in todo[i] :
             \/ UNCHANGED jobs
             \/ ~AtRest(t.rec) /\ jobs' = [jobs EXCEPT ![t.id] = As(t.rec, "manual")]
      BY DEF RecoverJob, RecoverNext
    <2>2. UNCHANGED <<bills, pc, task, crashes, faults>> /\ Typed
      BY DEF RecoverJob, RecoverNext, IInv
    <2>3. t.id \in Jobs /\ t.rec \in Records
      BY SMTT(30) DEF IInv, InstancesTyped
    <2>4. CASE UNCHANGED jobs
      BY <2>2, <2>4, QuietBooks DEF Alive, Stored
    <2>5. CASE ~AtRest(t.rec) /\ jobs' = [jobs EXCEPT ![t.id] = As(t.rec, "manual")]
      <3> DEFINE w == As(t.rec, "manual")
      <3>1. w \in Records /\ w.st = "manual" /\ w.forced = t.rec.forced
        BY <2>3, AsRecord DEF JobStates
      <3> HIDE DEF w
      <3>2. w # NoJob /\ Open(w)
        BY <2>5, <3>1, NotRecord, OpenRecord DEF AtRest, IsTerminal
      <3>3. \A k \in Jobs : jobs'[k] = w \/ jobs'[k] = jobs[k]
        BY <2>2, <2>5 DEF Typed, w
      <3>4. QED
        BY <2>2, <3>2, <3>3, QuietBooks DEF Alive, Stored
    <2>6. QED
      BY <2>1, <2>4, <2>5
  <1>CrashBooks. ASSUME IInv, BooksInv, NEW i \in Instances, Crash(i)
        PROVE  BooksInv'
    <2> USE <1>CrashBooks
    <2>1. crashes' = crashes + 1 /\ faults' = faults
      BY DEF Crash
    <2>2. crashes' \in Nat /\ crashes' # 0 /\ faults' \in Nat
      BY <2>1, SMTT(30) DEF BooksInv
    <2>3. \A p \in Procs : pc'[p] = "idle" \/ (pc'[p] = pc[p] /\ task'[p] = task[p])
      BY DEF Crash, Stop
    <2>4. \A p \in Procs : Unmarked(p)'
      BY <2>3 DEF BooksInv, Unmarked, Held, Marked
    <2>5. QED
      BY <2>2, <2>4 DEF BooksInv, ReservedInv
  <1> SUFFICES ASSUME IInv, BooksInv, [Next]_vars, [\A i \in Instances : ~RecoverFails(i)]_vars
               PROVE  BooksInv'
    OBVIOUS
  <1>1. ASSUME NEW p \in Procs, Step(p) PROVE BooksInv'
    BY <1>1, <1>EndingPuts, <1>PollPuts, <1>ForcePutBooks, <1>RenewBooks, <1>GotoBooks, <1>BillBooks, <1>CreatePutBooks DEF Step
  <1>2. ASSUME NEW p \in Requests, NEW j \in Jobs, NEW i \in Instances, Request(p, j, i) PROVE BooksInv'
    BY <1>2, <1>CreateStartBooks, <1>TakeBooks DEF Request
  <1>3. ASSUME UNCHANGED <<jobs, bills, pc, task, crashes, faults>> PROVE BooksInv'
    BY <1>3, QuietBooks DEF Alive, Stored
  <1>4. ASSUME NEW i \in Instances, Runtime(i), ~RecoverFails(i) PROVE BooksInv'
    <2>1. CASE RetryFires(i) \/ Serve(i)
      BY <1>3, <2>1 DEF RetryFires, Serve
    <2>2. QED
      BY <1>4, <2>1, <1>RunJobBooks, <1>StartBooks, <1>RecoverJobBooks DEF Runtime
  <1>5. ASSUME NEW j \in Jobs, RemoteEnds(j) PROVE BooksInv'
    BY <1>3, <1>5 DEF RemoteEnds, instance
  <1>6. CASE UNCHANGED vars
    BY <1>3, <1>6 DEF vars
  <1>7. CASE Next /\ \A i \in Instances : ~RecoverFails(i)
    BY <1>1, <1>2, <1>4, <1>5, <1>7, <1>PruneBooks, <1>CrashBooks, <1>LeasesExpireBooks DEF Next
  <1>8. QED
    BY <1>6, <1>7

LEMMA InitBooks ==
    ASSUME Init
    PROVE  BooksInv
  <1>1. \A p \in Procs : pc[p] = "idle"
    BY DEF Init
  <1>2. \A j \in Jobs : bills[j].state # "reserved"
    BY DEF Init, LedgerInit, NoRow
  <1>3. crashes = 0 /\ faults = 0
    BY DEF Init
  <1>4. QED
    BY <1>1, <1>2, <1>3 DEF BooksInv, ReservedInv, Unmarked, Marked

(* While no process crashes, no database call fails and no start is ended  *)
(* by an update of Recover that the store refuses, a job that is over and  *)
(* that nobody works on has been released or settled (fail, Cancel,        *)
(* ForceFail, the ends of Create and of pollAndFinalize).                  *)
THEOREM ReservationsAreEnded ==
    Spec /\ [][\A i \in Instances : ~RecoverFails(i)]_vars => []NoReservationLeft
  <1>1. IInv /\ BooksInv => NoReservationLeft
    <2> SUFFICES ASSUME IInv, BooksInv, crashes = 0, faults = 0, NEW j \in Jobs, bills[j].state = "reserved",
                        \A p \in Procs : Id(p) # j
                 PROVE  Stored(j) /\ (jobs[j].st = "manual" \/ ~AtRest(jobs[j]))
      BY DEF NoReservationLeft
    <2>1. Alive(j)
      BY DEF BooksInv, ReservedInv, Covered
    <2>2. QED
      BY <2>1 DEF Alive, Open, AtRest
  <1>2. Init => BooksInv
    BY InitBooks
  <1>3. IInv /\ BooksInv /\ [Next]_vars /\ [\A i \in Instances : ~RecoverFails(i)]_vars => BooksInv'
    BY NextBooks
  <1>4. QED
    BY <1>1, <1>2, <1>3, JobsKeepInvariant, PTL DEF Spec

----------------------------------------------------------------------------
(* The lock, and forced jobs *)

Alone(w) == Instances = {w} /\ crashes = 0 /\ faults = 0
Finishing == {"settle", "unsettled", "complete"}
Committing == Finishing \cup {"upload", "commit"}
Ended(j) == Stored(j) => IsTerminal(jobs[j]) /\ ~jobs[j].forced

EmptyStart(w) == todo[w] = {} /\ (phase[w] = "down" => \A j \in Jobs : ~Stored(j))
ReadInv(w) ==
    /\ pc[w] = "commit" /\ Stored(Id(w)) => jobs[Id(w)].st = "uploading" \/ ~Open(jobs[Id(w)])
    /\ pc[w] \in {"upload", "settle"} => Held(w).st = "uploading"
    /\ pc[w] \in Finishing /\ Stored(Id(w)) => ~jobs[Id(w)].forced
PaidFor(w) == \A j \in Jobs : bills[j].state = "actual" => (pc[w] = "complete" /\ Id(w) = j) \/ Ended(j)
ForceInv == \A p \in Procs : pc[p] = "forcePut" => bills[Id(p)].state # "actual"
LockInv == \A p, q \in Procs : p # q /\ pc[p] \in Locked /\ pc[q] \in Locked => Id(p) # Id(q)

Order(w) == ReadInv(w) /\ PaidFor(w) /\ ForceInv /\ LockInv
CommitInv(w) == BooksInv /\ EmptyStart(w) /\ Order(w)

-----------------------------------------------------------------------------
(* What a step of p may do to the record of k: nothing but the lease, or   *)
(* prune it, or end it, or (the worker) store another state, or create it. *)
SameEnd(k) ==
    /\ Stored(k)' <=> Stored(k)
    /\ Stored(k) => jobs'[k].st = jobs[k].st /\ jobs'[k].forced = jobs[k].forced
Writes(p, w, k) ==
    /\ Id(p) = k /\ Stored(k) /\ ~IsTerminal(jobs[k])
    /\ (p = w /\ pc'[w] \notin Committing) \/ ~Open(jobs'[k])
    /\ jobs'[k].forced => pc[p] = "forcePut"
Changes(p, w, k) ==
    SameEnd(k) \/ ~Stored(k)' \/ Writes(p, w, k) \/ (Id(p) = k /\ pc[p] \in {"create", "dry"})

(* A step of somebody else than the committing worker. *)
LEMMA Beside ==
    ASSUME IInv, NEW w, Alone(w), CommitInv(w), NEW p \in Procs,
           \A q \in Procs : q # p => pc'[q] = pc[q] /\ Id(q)' = Id(q) /\ Held(q)'.st = Held(q).st,
           pc'[p] \in Locked =>
              /\ Id(p)' = Id(p) /\ Id(p) \in Jobs
              /\ pc[p] \in Locked \/ \A q \in Procs : q # p /\ pc[q] \in Locked => Id(q) # Id(p),
           pc'[p] = "forcePut" => pc[p] = "forcePut" \/ bills[Id(p)].state # "actual",
           p = w => \/ pc[w] # "complete" /\ pc'[w] \notin Committing
                    \/ pc'[w] = pc[w] /\ Id(w)' = Id(w) /\ Held(w)'.st = Held(w).st,
           \A k \in Jobs : bills'[k].state = "actual" => bills[k].state = "actual",
           \A k \in Jobs : Changes(p, w, k)
    PROVE  Order(w)'
  <1>1. w \in Instances /\ w \in Procs
    BY DEF Alone, Procs
  <1>2. \A q \in Procs : pc[q] # "idle" => Id(q) \in Jobs
    BY DEF IInv, ProcsInv, ProcOK
  <1>3. LockInv'
    <2> SUFFICES ASSUME NEW s \in Procs, NEW q \in Procs, s # q, pc'[s] \in Locked, pc'[q] \in Locked
                 PROVE  Id(s)' # Id(q)'
      BY DEF LockInv
    <2>1. CASE s # p /\ q # p
      BY <2>1, SMTT(30) DEF CommitInv, Order, LockInv
    <2>2. CASE s = p
      BY <2>2, SMTT(30) DEF CommitInv, Order, LockInv
    <2>3. CASE q = p
      BY <2>3, SMTT(30) DEF CommitInv, Order, LockInv
    <2>4. QED
      BY <2>1, <2>2, <2>3
  <1>4. ForceInv'
    <2> SUFFICES ASSUME NEW q \in Procs, pc'[q] = "forcePut" PROVE bills'[Id(q)'].state # "actual"
      BY DEF ForceInv
    <2>1. "forcePut" \in Locked
      BY DEF Locked
    <2>2. Id(q)' = Id(q) /\ bills[Id(q)].state # "actual" /\ Id(q) \in Jobs
      BY <1>2, <2>1, SMTT(30) DEF CommitInv, Order, ForceInv
    <2>3. QED
      BY <2>2
  <1>5. ReadInv(w)'
    <2>1. CASE pc'[w] \notin Committing
      BY <2>1 DEF ReadInv, Committing, Finishing
    <2>2. CASE pc'[w] \in Committing
      <3>1. pc'[w] = pc[w] /\ Id(w)' = Id(w) /\ Held(w)'.st = Held(w).st /\ pc[w] \notin {"idle", "create", "dry", "forcePut"}
        BY <1>1, <2>2 DEF Committing, Finishing
      <3>2. PICK k \in Jobs : k = Id(w) /\ ReadInv(w)
        BY <1>1, <1>2, <3>1 DEF CommitInv, Order
      <3>3. ~(Id(p) = k /\ pc[p] \in {"create", "dry"})
        BY <1>1, <3>1, <3>2 DEF IInv, ApartInv, Apart
      <3>4. SameEnd(k) \/ ~Stored(k)' \/ Writes(p, w, k)
        BY <3>2, <3>3 DEF Changes
      <3>5. Writes(p, w, k) => /\ ~Open(jobs'[k])
                               /\ jobs'[k].forced => pc[w] \notin Finishing
        <4>1. Writes(p, w, k) => ~Open(jobs'[k]) /\ Id(p) = k /\ (jobs'[k].forced => pc[p] = "forcePut")
          BY <2>2 DEF Writes
        <4>2. pc[p] = "forcePut" /\ Id(p) = k => pc[w] \notin Finishing
          BY <1>1, <3>1, <3>2 DEF CommitInv, Order, LockInv, Locked, Committing, Finishing
        <4>3. QED
          BY <4>1, <4>2
      <3>6. CASE ~Stored(k)'
        BY <3>1, <3>2, <3>6 DEF ReadInv
      <3>7. CASE Writes(p, w, k)
        BY <3>1, <3>2, <3>5, <3>7 DEF ReadInv
      <3>8. CASE SameEnd(k)
        BY <3>1, <3>2, <3>8, SMTT(30) DEF ReadInv, SameEnd, Open, IsTerminal
      <3>9. QED
        BY <3>4, <3>6, <3>7, <3>8
    <2>3. QED
      BY <2>1, <2>2
  <1>6. PaidFor(w)'
    <2> SUFFICES ASSUME NEW j \in Jobs, bills'[j].state = "actual"
                 PROVE  (pc'[w] = "complete" /\ Id(w)' = j) \/ Ended(j)'
      BY DEF PaidFor
    <2>1. bills[j].state = "actual" /\ ((pc[w] = "complete" /\ Id(w) = j) \/ Ended(j))
      BY DEF CommitInv, Order, PaidFor
    <2>2. CASE pc[w] = "complete" /\ Id(w) = j
      BY <1>1, <2>2
    <2>3. CASE Ended(j)
      <3>1. ~Writes(p, w, j)
        BY <2>3 DEF Ended, Writes
      <3>2. ~(Id(p) = j /\ pc[p] \in {"create", "dry"})
        <4>1. pc[p] \in {"create", "dry"} => Fits(p, pc[p], Id(p), Held(p))
          BY DEF IInv, ProcsInv, ProcOK
        <4>2. QED
          BY <2>1, <4>1, SMTT(30) DEF Fits, NoRow
      <3>3. SameEnd(j) \/ ~Stored(j)'
        BY <3>1, <3>2 DEF Changes
      <3>4. QED
        BY <2>3, <3>3 DEF SameEnd, Ended, IsTerminal
    <2>4. QED
      BY <2>1, <2>2, <2>3
  <1>7. QED
    BY <1>3, <1>4, <1>5, <1>6 DEF Order

LEMMA NoFault == ASSUME NEW w, Alone(w), Alone(w)' PROVE ~Fault /\ UNCHANGED <<crashes, faults>>
  BY SMTT(30) DEF Alone, Fault

(* Everybody who has a job is in the one process. *)
LEMMA OneHome ==
    ASSUME IInv, NEW w, Alone(w), NEW p \in Procs, pc[p] # "idle"
    PROVE  /\ Id(p) \in Jobs /\ task[p].home = w /\ phase[w] # "down"
           /\ pc[p] \notin RequestLabels => p = w
  <1>1. ProcOK(p)
    BY DEF IInv, ProcsInv
  <1>2. QED
    BY <1>1 DEF ProcOK, Fits, Alone

LEMMA MoveBeside ==
    ASSUME IInv, NEW w, Alone(w), CommitInv(w), NEW p \in Procs, pc[p] \notin {"idle", "complete"},
           NEW l, NEW r, Move(p, l, r), l \notin Committing,
           l \in Locked => pc[p] \in Locked \/ \A q \in Procs : q # p /\ pc[q] \in Locked => Id(q) # Id(p),
           l = "forcePut" => bills[Id(p)].state # "actual",
           \A k \in Jobs : bills'[k].state = "actual" => bills[k].state = "actual",
           \A k \in Jobs : Changes(p, w, k)
    PROVE  Order(w)'
  <1>1. Typed /\ Id(p) \in Jobs
    BY OneHome DEF IInv
  <1>2. /\ pc'[p] = l /\ (l # "idle" => Id(p)' = Id(p))
        /\ \A q \in Procs : q # p => pc'[q] = pc[q] /\ Id(q)' = Id(q) /\ Held(q)' = Held(q)
    BY <1>1, MovedWith
  <1>3. "idle" \notin Locked
    BY DEF Locked
  <1>4. QED
    BY <1>1, <1>2, <1>3, Beside

LEMMA StoreSame == ASSUME UNCHANGED jobs, NEW p, NEW w, NEW k PROVE Changes(p, w, k)
  BY DEF Changes, SameEnd, Stored

(* p writes the record r. *)
LEMMA UpdateBeside ==
    ASSUME IInv, NEW w, Alone(w), Alone(w)', CommitInv(w), NEW p \in Procs, pc[p] \notin {"idle", "complete"},
           NEW r \in Records, NEW ok, NEW err, Update(p, r, ok, err), UNCHANGED bills,
           \A l \in ok \cup {err} :
              l \notin Committing \cup {"forcePut"} /\ (l \in Locked => pc[p] \in Locked),
           r.forced => pc[p] = "forcePut", p = w \/ ~Open(r)
    PROVE  Order(w)'
  <1>1. PICK j \in Jobs : j = Id(p) /\ Typed /\ r # NoJob
    BY OneHome, NotRecord DEF IInv
  <1>2. ASSUME NEW l \in ok \cup {err}, NEW x, Move(p, l, x), \A k \in Jobs : Changes(p, w, k) PROVE Order(w)'
    BY <1>2, MoveBeside
  <1>3. ASSUME NEW l \in ok \cup {err}, NEW x, Move(p, l, x), UNCHANGED jobs PROVE Order(w)'
    BY <1>2, <1>3, StoreSame
  <1>4. ASSUME NEW l \in ok, Move(p, l, r), Stored(j), Writable(jobs[j], r), jobs' = [jobs EXCEPT ![j] = r]
        PROVE  Order(w)'
    <2>1. jobs'[j] = r /\ \A k \in Jobs : k # j => jobs'[k] = jobs[k]
      BY <1>1, <1>4 DEF Typed
    <2>2. pc'[p] = l
      BY <1>1, <1>4, MovedWith
    <2>3. SameEnd(j) \/ Writes(p, w, j)
      BY <1>1, <1>4, <2>1, <2>2 DEF SameEnd, Writes, Writable, Stored
    <2>4. \A k \in Jobs : Changes(p, w, k)
      BY <2>1, <2>3 DEF Changes, SameEnd, Stored
    <2>5. QED
      BY <1>2, <1>4, <2>4
  <1>5. QED
    BY <1>1, <1>3, <1>4, NoFault DEF Update, Goto

LEMMA PutsBeside ==
    ASSUME IInv, NEW w, Alone(w), Alone(w)', CommitInv(w), NEW p \in Procs,
           CreateRefused(p) \/ PutEnd(p) \/ Admit(p) \/ Save(p) \/ CancelPut(p) \/ ForcePut(p)
    PROVE  Order(w)'
  <1> DEFINE r == Held(p)
  <1>1. /\ UNCHANGED bills /\ BooksInv
        /\ pc[p] \in {"refused", "manual", "fail", "admit", "save", "saveOdd", "odd", "cancelPut", "forcePut"}
    BY DEF CreateRefused, PutEnd, Admit, Save, CancelPut, ForcePut, Is, CommitInv
  <1>2. pc[p] \notin {"idle", "complete"} /\ (pc[p] \notin RequestLabels => p = w)
    BY <1>1, OneHome
  <1>3. pc[p] \notin {"refused", "cancelPut", "forcePut"} => p = w
    BY <1>1, <1>2 DEF RequestLabels
  <1>4. /\ r \in Records /\ Holds(pc[p], r)
        /\ pc[p] # "forcePut" => ~r.forced /\ \A s \in JobStates : As(r, s) \in Records /\ ~As(r, s).forced
    <2>1. CASE pc[p] = "forcePut"
      BY <2>1, AtLabel DEF Fits
    <2>2. CASE pc[p] # "forcePut"
      <3>1. pc[p] \notin Marked
        BY <1>1, <2>2 DEF Marked
      <3>2. QED
        BY <1>1, <2>2, <3>1, HeldIsUnmarked
    <2>3. QED
      BY <2>1, <2>2
  <1>5. pc[p] \in {"refused", "cancelPut", "forcePut"} => ~Open(r)
    BY <1>4 DEF Holds, Open, IsTerminal
  <1> HIDE DEF r
  <1>6. ASSUME NEW x \in {r, As(r, "admitted"), As(r, "manual")}, x # r => p = w /\ pc[p] # "forcePut", NEW ok, NEW err, Update(p, x, ok, err),
               ok \cup {err} \subseteq {"idle", "release", "bill", "submit", "poll", "drop", "odd", "forceRelease"},
               "forceRelease" \in ok \cup {err} => pc[p] = "forcePut"
        PROVE  Order(w)'
    <2>1. \A l \in ok \cup {err} :
             l \notin Committing \cup {"forcePut"} /\ (l \in Locked => pc[p] \in Locked)
      BY <1>6, SMTT(30) DEF Committing, Finishing, Locked
    <2>2. x \in Records /\ (x.forced => pc[p] = "forcePut") /\ (p = w \/ ~Open(x))
      BY <1>1, <1>3, <1>4, <1>5, <1>6 DEF JobStates
    <2>3. QED
      BY <1>1, <1>2, <1>6, <2>1, <2>2, UpdateBeside
  <1>7. CASE CreateRefused(p)
    BY <1>6, <1>7 DEF CreateRefused, r
  <1>8. CASE PutEnd(p)
    BY <1>6, <1>8 DEF PutEnd, r
  <1>9. CASE Admit(p)
    BY <1>3, <1>6, <1>9 DEF Admit, Is, r
  <1>10. CASE Save(p)
    BY <1>3, <1>6, <1>10 DEF Save, Is, r
  <1>11. CASE CancelPut(p)
    BY <1>6, <1>11 DEF CancelPut, r
  <1>12. CASE ForcePut(p)
    BY <1>6, <1>12 DEF ForcePut, Is, r
  <1>13. QED
    BY <1>7, <1>8, <1>9, <1>10, <1>11, <1>12

LEMMA GotoBeside ==
    ASSUME IInv, NEW w, Alone(w), Alone(w)', CommitInv(w), NEW p \in Procs,
           \/ CreateEnqueue(p) \/ Submit(p) \/ Drop(p) \/ Again(p) \/ CancelAtProvider(p) \/ EndBill(p)
           \/ GetJob(p) /\ pc'[p] # "upload"
    PROVE  Order(w)'
  <1>1. /\ UNCHANGED jobs
        /\ pc[p] \in {"enqueue", "submit", "drop", "ask", "again", "maybe", "cancelRemote",
                      "release", "forceRelease", "bill"}
    BY DEF CreateEnqueue, Submit, Drop, GetJob, Again, CancelAtProvider, EndBill, Is
  <1>2. pc[p] \notin {"idle", "complete"} /\ Id(p) \in Jobs
    BY <1>1, OneHome
  <1>3. \E l, r : Move(p, l, r) /\ l \notin Committing \cup Locked
    <2> DEFINE L == {"idle", "refused", "fail", "manual", "save", "saveOdd", "keep", "gone", "lateManual", "cancelPut"}
    <2>1. L \cap (Committing \cup Locked) = {}
      BY DEF Committing, Finishing, Locked
    <2>2. \E l \in L : \E r : Move(p, l, r)
      <3>1. CASE CreateEnqueue(p) \/ Drop(p) \/ Again(p) \/ CancelAtProvider(p) \/ EndBill(p)
        BY <3>1 DEF CreateEnqueue, Drop, Again, CancelAtProvider, EndBill, Goto
      <3>2. CASE Submit(p)
        BY <3>2 DEF Submit, Fail, Manual
      <3>3. CASE GetJob(p) /\ pc'[p] # "upload"
        <4>1. \A r : Move(p, "upload", r) => pc'[p] = "upload"
          BY MovedWith DEF IInv
        <4>2. QED
          BY <3>3, <4>1 DEF GetJob, Goto, Manual, Fail
      <3>4. QED
        BY <3>1, <3>2, <3>3
    <2>3. QED
      BY <2>1, <2>2
  <1>4. \A k \in Jobs : bills'[k].state = "actual" => bills[k].state = "actual"
    <2>1. CASE UNCHANGED bills
      BY <2>1
    <2>2. CASE Release(Id(p)) \/ SettleEstimate(Id(p))
      <3>1. bills \in [Jobs -> Rows]
        BY DEF IInv, Typed
      <3>2. ASSUME NEW x \in Rows
            PROVE  /\ AfterRelease(x).state = "actual" => x.state = "actual"
                   /\ AfterEstimate(x).state = "actual" => x.state = "actual"
        BY DEF AfterRelease, AfterEstimate, Rows
      <3>3. QED
        BY <1>2, <2>2, <3>1, <3>2 DEF Release, SettleEstimate
    <2>3. QED
      BY <2>1, <2>2 DEF CreateEnqueue, Submit, Drop, GetJob, Again, CancelAtProvider, EndBill
  <1>5. \A k \in Jobs : Changes(p, w, k)
    BY <1>1, StoreSame
  <1>6. "forcePut" \in Locked
    BY DEF Locked
  <1>7. QED
    BY <1>2, <1>3, <1>4, <1>5, <1>6, MoveBeside

(* ForceFail has read an open job under the lock: nobody has settled its   *)
(* actual cost.                                                            *)
LEMMA ForceReadBeside ==
    ASSUME IInv, NEW w, Alone(w), Alone(w)', CommitInv(w), NEW p \in Procs, ForceRead(p)
    PROVE  Order(w)'
  <1>1. UNCHANGED <<jobs, bills>> /\ pc[p] = "forceRead" /\ LockFree(p)
    BY DEF ForceRead, ForceReadAs, Is
  <1>2. Id(p) \in Jobs /\ task[p].home = w
    BY <1>1, OneHome
  <1>3. \A k \in Jobs : Changes(p, w, k)
    BY <1>1, StoreSame
  <1>4. \A q \in Procs : pc[q] \in Locked => Id(q) # Id(p)
    <2> SUFFICES ASSUME NEW q \in Procs, pc[q] \in Locked PROVE Id(q) # Id(p)
      OBVIOUS
    <2>1. pc[q] # "idle"
      BY DEF Locked
    <2>2. task[q].home = w
      BY <2>1, OneHome
    <2>3. QED
      BY <1>1, <1>2, <2>2 DEF LockFree
  <1>5. CASE \E r : Move(p, "idle", r)
    <2>1. "idle" \notin Locked /\ "idle" \notin Committing
      BY DEF Locked, Committing, Finishing
    <2>2. QED
      BY <1>1, <1>3, <1>5, <2>1, MoveBeside
  <1>6. CASE Stored(Id(p)) /\ Open(jobs[Id(p)]) /\ \E r : Move(p, "forcePut", r)
    <2>1. "forcePut" \notin Committing /\ "complete" \in Locked
      BY DEF Locked, Committing, Finishing
    <2>2. ~(pc[w] = "complete" /\ Id(w) = Id(p))
      BY <1>4, <2>1 DEF Alone, Procs
    <2>3. ~Ended(Id(p))
      BY <1>6 DEF Ended, Open
    <2>4. bills[Id(p)].state # "actual"
      BY <1>2, <2>2, <2>3 DEF CommitInv, Order, PaidFor
    <2>5. QED
      BY <1>1, <1>3, <1>4, <1>6, <2>1, <2>4, MoveBeside
  <1>7. QED
    BY <1>5, <1>6 DEF ForceRead, ForceReadAs, Goto

LEMMA RenewBeside ==
    ASSUME IInv, NEW w, Alone(w), Alone(w)', CommitInv(w), NEW p \in Procs, Renew(p)
    PROVE  Order(w)'
  <1>1. UNCHANGED bills /\ pc[p] = "poll" /\ Typed
    BY DEF Renew, Is, IInv
  <1>2. Id(p) \in Jobs /\ p = w /\ p \in Instances
    BY <1>1, OneHome DEF RequestLabels, Alone
  <1>3. \E l \in {"idle", "ask"} : \E r : Move(p, l, r)
    BY DEF Renew, Goto
  <1>4. \A k \in Jobs : SameEnd(k)
    <2>1. CASE UNCHANGED jobs
      BY <2>1 DEF SameEnd, Stored
    <2>2. CASE Stored(Id(p)) /\ jobs' = [jobs EXCEPT ![Id(p)] = Leased(@, p)]
      <3>1. jobs[Id(p)] \in Records
        BY <1>1, <1>2, <2>2 DEF Typed, Stored
      <3>2. Leased(jobs[Id(p)], p) # NoJob /\ Leased(jobs[Id(p)], p).st = jobs[Id(p)].st
            /\ Leased(jobs[Id(p)], p).forced = jobs[Id(p)].forced
        BY <1>2, <3>1, LeasedRecord, NotRecord
      <3>3. jobs'[Id(p)] = Leased(jobs[Id(p)], p) /\ \A k \in Jobs : k # Id(p) => jobs'[k] = jobs[k]
        BY <1>1, <1>2, <2>2 DEF Typed
      <3>4. QED
        BY <2>2, <3>2, <3>3 DEF SameEnd, Stored
    <2>3. QED
      BY <2>1, <2>2 DEF Renew
  <1>5. \A k \in Jobs : Changes(p, w, k)
    BY <1>4 DEF Changes
  <1>6. {"idle", "ask"} \cap (Committing \cup Locked \cup {"forcePut"}) = {}
    BY DEF Committing, Finishing, Locked
  <1>7. QED
    BY <1>1, <1>3, <1>5, <1>6, MoveBeside

LEMMA CreatePutBeside ==
    ASSUME IInv, NEW w, Alone(w), Alone(w)', CommitInv(w), NEW p \in Procs, CreatePut(p)
    PROVE  Order(w)'
  <1>1. UNCHANGED bills /\ pc[p] \in {"create", "dry"} /\ Typed
    BY DEF CreatePut, Is, IInv
  <1>2. Id(p) \in Jobs
    BY <1>1, OneHome
  <1>3. \E l \in {"idle", "enqueue", "release"} : \E r : Move(p, l, r)
    BY DEF CreatePut, Goto
  <1>4. \A k \in Jobs : k # Id(p) => jobs'[k] = jobs[k]
    BY <1>1, <1>2 DEF CreatePut, Typed
  <1>5. \A k \in Jobs : Changes(p, w, k)
    BY <1>1, <1>4 DEF Changes, SameEnd, Stored
  <1>6. {"idle", "enqueue", "release"} \cap (Committing \cup Locked \cup {"forcePut"}) = {}
    BY DEF Committing, Finishing, Locked
  <1>7. QED
    BY <1>1, <1>3, <1>5, <1>6, MoveBeside

-----------------------------------------------------------------------------
(* The committing worker *)

LEMMA WorkerLocks ==
    ASSUME IInv, NEW w, Alone(w), CommitInv(w), pc[w] # "idle", NEW l, NEW r, Move(w, l, r), l # "forcePut",
           l \in Locked => pc[w] \in Locked \/ \A q \in Procs : q # w /\ pc[q] \in Locked => Id(q) # Id(w),
           \A q \in Procs : q # w /\ pc[q] = "forcePut" => bills'[Id(q)].state # "actual"
    PROVE  LockInv' /\ ForceInv'
  <1>1. w \in Procs /\ Typed
    BY DEF Alone, Procs, IInv
  <1>2. /\ pc'[w] = l /\ (l # "idle" => Id(w)' = Id(w) /\ Held(w)' = r)
        /\ \A q \in Procs : q # w => pc'[q] = pc[q] /\ Id(q)' = Id(q) /\ Held(q)' = Held(q)
    BY <1>1, MovedWith
  <1>3. ForceInv'
    BY <1>2 DEF ForceInv
  <1>4. LockInv'
    <2> SUFFICES ASSUME NEW s \in Procs, NEW q \in Procs, s # q, pc'[s] \in Locked, pc'[q] \in Locked
                 PROVE  Id(s)' # Id(q)'
      BY DEF LockInv
    <2>1. LockInv /\ "idle" \notin Locked
      BY DEF CommitInv, Order, Locked
    <2>2. CASE s # w /\ q # w
      BY <1>2, <2>1, <2>2, SMTT(30) DEF LockInv
    <2>3. CASE s = w
      BY <1>1, <1>2, <2>1, <2>3, SMTT(30) DEF LockInv
    <2>4. CASE q = w
      BY <1>1, <1>2, <2>1, <2>4, SMTT(30) DEF LockInv
    <2>5. QED
      BY <2>2, <2>3, <2>4
  <1>5. QED
    BY <1>3, <1>4

(* The rows stay: those that are settled with the actual cost are of jobs  *)
(* that are over.                                                          *)
LEMMA RowsEnded ==
    ASSUME NEW w, CommitInv(w), pc[w] # "complete", UNCHANGED bills,
           \A k \in Jobs : SameEnd(k) \/ ~Stored(k)' \/ (Stored(k) /\ ~IsTerminal(jobs[k]))
    PROVE  PaidFor(w)'
  <1> SUFFICES ASSUME NEW j \in Jobs, bills[j].state = "actual" PROVE Ended(j)'
    BY DEF PaidFor
  <1>1. Ended(j)
    BY DEF CommitInv, Order, PaidFor
  <1>2. QED
    BY <1>1 DEF Ended, SameEnd, IsTerminal

LEMMA UploadOrder ==
    ASSUME IInv, NEW w, Alone(w), Alone(w)', CommitInv(w), NEW p \in Procs, GetJob(p), pc'[p] = "upload"
    PROVE  Order(w)'
  <1>1. UNCHANGED <<jobs, bills>> /\ pc[p] = "ask" /\ Typed
    BY DEF GetJob, Is, IInv
  <1>2. p = w /\ Id(w) \in Jobs /\ Held(w) \in Records
    BY <1>1, OneHome, AtLabel, SMTT(30) DEF RequestLabels
  <1>3. Move(w, "upload", As(Held(w), "uploading"))
    <2>1. \A l, r : Move(w, l, r) => pc'[w] = l
      BY <1>1, <1>2, MovedWith
    <2>2. QED
      BY <1>2, <2>1 DEF GetJob, Goto, Manual, Fail
  <1>4. As(Held(w), "uploading").st = "uploading"
    BY <1>2, AsRecord DEF JobStates
  <1>5. pc'[w] = "upload" /\ Held(w)' = As(Held(w), "uploading")
    BY <1>1, <1>2, <1>3, MovedWith
  <1>6. ReadInv(w)'
    BY <1>4, <1>5 DEF ReadInv, Finishing
  <1>7. PaidFor(w)'
    BY <1>1, <1>2, RowsEnded DEF SameEnd, Stored
  <1>8. \A q \in Procs : pc[q] = "forcePut" => bills'[Id(q)].state # "actual"
    BY <1>1 DEF CommitInv, Order, ForceInv
  <1>9. LockInv' /\ ForceInv'
    BY <1>1, <1>2, <1>3, <1>8, WorkerLocks DEF Locked
  <1>10. QED
    BY <1>6, <1>7, <1>9 DEF Order

LEMMA PolledOrder ==
    ASSUME IInv, NEW w, Alone(w), Alone(w)', CommitInv(w), NEW p \in Procs, PutPolled(p)
    PROVE  Order(w)'
  <1> DEFINE r == Held(p)
             j == Id(p)
  <1>1. UNCHANGED bills /\ Typed /\ pc[p] \in {"keep", "gone", "later", "upload", "lateManual", "notDownloaded"}
    BY DEF PutPolled, Is, IInv
  <1>2. pc[p] \notin {"idle", "complete", "forcePut"} /\ p = w /\ j \in Jobs
    BY <1>1, OneHome DEF RequestLabels
  <1>3. pc[p] \notin Marked /\ BooksInv
    BY <1>1 DEF Marked, CommitInv
  <1>4. r \in Records /\ ~r.forced /\ As(r, "manual") \in Records /\ ~As(r, "manual").forced
    BY <1>3, HeldIsUnmarked DEF JobStates
  <1> HIDE DEF r
  <1>5. ASSUME NEW x \in {r, As(r, "manual")}, NEW ok, NEW err, Update(p, x, ok, err),
               ok \cup {err} \subseteq {"idle", "poll", "later", "release", "again", "maybe"}
        PROVE  Order(w)'
    <2>1. \A l \in ok \cup {err} :
             l \notin Committing \cup {"forcePut"} /\ (l \in Locked => pc[p] \in Locked)
      BY <1>5 DEF Committing, Finishing, Locked
    <2>2. x \in Records /\ ~x.forced
      BY <1>4, <1>5
    <2>3. QED
      BY <1>1, <1>2, <1>5, <2>1, <2>2, UpdateBeside
  <1>6. CASE pc[p] = "upload" /\ Update(p, r, {"commit", "notDownloaded", "lateManual"}, "maybe")
    <2>1. r.st = "uploading"
      BY <1>2, <1>6 DEF CommitInv, Order, ReadInv, r
    <2>2. CASE UNCHANGED jobs /\ Move(p, "maybe", r)
      <3>1. \A k \in Jobs : Changes(p, w, k)
        BY <2>2, StoreSame
      <3>2. "maybe" \notin Committing \cup Locked
        BY DEF Committing, Finishing, Locked
      <3>3. QED
        BY <1>1, <1>2, <2>2, <3>1, <3>2, MoveBeside
    <2>3. ASSUME NEW l \in {"commit", "notDownloaded", "lateManual"}, Move(p, l, r),
                 Stored(j), Writable(jobs[j], r), jobs' = [jobs EXCEPT ![j] = r]
          PROVE  Order(w)'
      <3>1. jobs'[j] = r /\ \A k \in Jobs : k # j => jobs'[k] = jobs[k]
        BY <1>1, <1>2, <2>3 DEF Typed
      <3>2. pc'[w] = l /\ Id(w)' = j /\ Held(w)' = r
        BY <1>1, <1>2, <2>3, MovedWith
      <3>3. ReadInv(w)'
        BY <2>1, <3>1, <3>2 DEF ReadInv, Finishing
      <3>4. \A k \in Jobs : SameEnd(k) \/ (Stored(k) /\ ~IsTerminal(jobs[k]))
        BY <2>3, <3>1 DEF SameEnd, Writable, Stored
      <3>5. PaidFor(w)'
        BY <1>1, <1>2, <3>4, RowsEnded
      <3>6. \A q \in Procs : pc[q] = "forcePut" => bills'[Id(q)].state # "actual"
        BY <1>1 DEF CommitInv, Order, ForceInv
      <3>7. LockInv' /\ ForceInv'
        BY <1>2, <2>3, <3>6, WorkerLocks DEF Locked
      <3>8. QED
        BY <3>3, <3>5, <3>7 DEF Order
    <2>4. QED
      BY <1>6, <2>2, <2>3, NoFault DEF Update, Goto, r
  <1>7. QED
    BY <1>5, <1>6 DEF PutPolled, Is, r

(* The commit reads the job under the lock. *)
LEMMA CommitReadOrder ==
    ASSUME IInv, NEW w, Alone(w), Alone(w)', CommitInv(w), NEW p \in Procs, CommitRead(p)
    PROVE  Order(w)'
  <1> DEFINE j == Id(p)
  <1>1. UNCHANGED <<jobs, bills>> /\ pc[p] = "commit" /\ LockFree(p) /\ Typed
    BY DEF CommitRead, Is, IInv
  <1>2. p = w /\ j \in Jobs /\ task[p].home = w
    BY <1>1, OneHome DEF RequestLabels
  <1>3. \A k \in Jobs : Changes(p, w, k)
    BY <1>1, StoreSame
  <1>4. CASE \E l \in {"idle", "maybe"} : \E r : Move(p, l, r)
    <2>1. {"idle", "maybe"} \cap (Committing \cup Locked \cup {"forcePut"}) = {}
      BY DEF Committing, Finishing, Locked
    <2>2. QED
      BY <1>1, <1>3, <1>4, <2>1, MoveBeside
  <1>5. CASE Stored(j) /\ Open(jobs[j]) /\ Move(p, "settle", jobs[j])
    <2>1. jobs[j].st = "uploading" /\ ~jobs[j].forced
      <3>1. jobs[j].st = "uploading" \/ ~Open(jobs[j])
        BY <1>1, <1>2, <1>5 DEF CommitInv, Order, ReadInv
      <3>2. QED
        BY <1>5, <3>1 DEF Open, IsTerminal
    <2>2. pc'[w] = "settle" /\ Id(w)' = j /\ Held(w)' = jobs[j]
      BY <1>1, <1>2, <1>5, MovedWith, SMTT(30)
    <2>3. ReadInv(w)'
      BY <1>1, <2>1, <2>2 DEF ReadInv, Finishing
    <2>4. PaidFor(w)'
      BY <1>1, <1>2, RowsEnded DEF SameEnd, Stored
    <2>5. \A q \in Procs : pc[q] \in Locked => Id(q) # Id(w)
      <3> SUFFICES ASSUME NEW q \in Procs, pc[q] \in Locked PROVE Id(q) # Id(w)
        OBVIOUS
      <3>1. pc[q] # "idle"
        BY DEF Locked
      <3>2. task[q].home = w
        BY <3>1, OneHome
      <3>3. QED
        BY <1>1, <1>2, <3>2 DEF LockFree
    <2>6. \A q \in Procs : pc[q] = "forcePut" => bills'[Id(q)].state # "actual"
      BY <1>1 DEF CommitInv, Order, ForceInv
    <2>7. LockInv' /\ ForceInv'
      BY <1>1, <1>2, <1>5, <2>5, <2>6, WorkerLocks
    <2>8. QED
      BY <2>3, <2>4, <2>7 DEF Order
  <1>6. QED
    BY <1>4, <1>5, NoFault DEF CommitRead, Goto

(* The settlement of the actual cost hands the row to the worker that      *)
(* stores the completion.                                                  *)
LEMMA SettleOrder ==
    ASSUME IInv, NEW w, Alone(w), Alone(w)', CommitInv(w), NEW p \in Procs, Settle(p)
    PROVE  Order(w)'
  <1> DEFINE j == Id(p)
             r == Held(p)
  <1>1. UNCHANGED jobs /\ pc[p] = "settle" /\ Typed
    BY DEF Settle, Is, IInv
  <1>2. p = w /\ j \in Jobs /\ bills \in [Jobs -> Rows]
    BY <1>1, OneHome DEF RequestLabels, Typed
  <1>3. r.st = "uploading" /\ (Stored(j) => ~jobs[j].forced)
    BY <1>1, <1>2 DEF CommitInv, Order, ReadInv, Finishing
  <1>4. CanTransition(r.st, "completed")
    BY <1>3 DEF CanTransition
  <1>5. \A k \in Jobs : k # j => bills'[k] = bills[k]
    BY <1>2 DEF Settle, SettleEstimate, SettleActual
  <1> HIDE DEF r
  <1>6. \/ Move(p, "complete", As(r, "completed"))
        \/ Move(p, "unsettled", r) /\ UNCHANGED bills
    BY <1>4, NoFault DEF Settle, Goto, r
  <1>7. PICK l \in {"complete", "unsettled"} : \E x : Move(p, l, x)
    BY <1>6
  <1>8. l = "unsettled" => UNCHANGED bills
    <2>1. \A x : Move(p, "complete", x) => pc'[p] = "complete"
      BY <1>1, MovedWith
    <2>2. \A x : Move(p, l, x) => pc'[p] = l
      BY <1>1, MovedWith
    <2>3. QED
      BY <1>6, <1>7, <2>1, <2>2
  <1>9. pc'[w] = l /\ Id(w)' = j
    BY <1>1, <1>2, <1>7, MovedWith
  <1>10. ReadInv(w)'
    BY <1>1, <1>3, <1>9 DEF ReadInv, Finishing, Stored
  <1>11. PaidFor(w)'
    <2> SUFFICES ASSUME NEW k \in Jobs, bills'[k].state = "actual"
                 PROVE  (pc'[w] = "complete" /\ Id(w)' = k) \/ Ended(k)'
      BY DEF PaidFor
    <2>1. CASE k = j /\ l = "complete"
      BY <1>9, <2>1
    <2>2. CASE k # j \/ l # "complete"
      <3>1. bills[k].state = "actual"
        BY <1>5, <1>8, <2>2
      <3>2. Ended(k)
        BY <1>1, <1>2, <3>1 DEF CommitInv, Order, PaidFor
      <3>3. QED
        BY <1>1, <3>2 DEF Ended, Stored
    <2>3. QED
      BY <2>1, <2>2
  <1>12. \A q \in Procs : q # w /\ pc[q] = "forcePut" => bills'[Id(q)].state # "actual"
    <2> SUFFICES ASSUME NEW q \in Procs, q # w, pc[q] = "forcePut" PROVE bills'[Id(q)].state # "actual"
      OBVIOUS
    <2>1. Id(q) \in Jobs
      BY OneHome
    <2>2. Id(q) # j
      BY <1>1, <1>2 DEF CommitInv, Order, LockInv, Locked
    <2>3. bills[Id(q)].state # "actual"
      BY DEF CommitInv, Order, ForceInv
    <2>4. QED
      BY <1>5, <2>1, <2>2, <2>3
  <1>13. pc[w] \in Locked
    BY <1>1, <1>2 DEF Locked
  <1>14. LockInv' /\ ForceInv'
    BY <1>1, <1>2, <1>7, <1>12, <1>13, WorkerLocks
  <1>15. QED
    BY <1>10, <1>11, <1>14 DEF Order

(* Storing the completion ends the job; if the store refuses it, the job   *)
(* is over already, and was not forced.                                    *)
LEMMA CompletedOrder ==
    ASSUME IInv, NEW w, Alone(w), Alone(w)', CommitInv(w), NEW p \in Procs, PutCompleted(p)
    PROVE  Order(w)'
  <1> DEFINE r == Held(p)
  <1>1. UNCHANGED bills /\ Typed /\ pc[p] \in {"unsettled", "complete"}
    BY DEF PutCompleted, Is, IInv
  <1>2. PICK j \in Jobs : j = Id(p) /\ pc[p] \notin {"idle", "forcePut"} /\ p = w
    BY <1>1, OneHome DEF RequestLabels
  <1>3. pc[p] \notin Marked /\ BooksInv
    BY <1>1 DEF Marked, CommitInv
  <1>4. r \in Records /\ ~r.forced /\ (pc[p] = "complete" => r.st = "completed")
    BY <1>3, HeldIsUnmarked DEF Holds
  <1> HIDE DEF r
  <1>5. CASE pc[p] = "unsettled"
    <2>1. \A l \in {"maybe"} \cup {"maybe"} :
             l \notin Committing \cup {"forcePut"} /\ (l \in Locked => pc[p] \in Locked)
      BY DEF Committing, Finishing, Locked
    <2>2. Update(p, r, {"maybe"}, "maybe")
      BY <1>5 DEF PutCompleted, Is, r
    <2>3. QED
      BY <1>1, <1>2, <1>4, <1>5, <2>1, <2>2, UpdateBeside
  <1>6. CASE pc[p] = "complete"
    <2>1. Update(p, r, {"idle"}, "maybe")
      BY <1>6 DEF PutCompleted, Is, r
    <2>2. \E l \in {"idle", "maybe"} : \E x : Move(p, l, x)
      BY <2>1, NoFault DEF Update, Goto
    <2>3. PICK l \in {"idle", "maybe"} : \E x : Move(p, l, x)
      BY <2>2
    <2>4. pc'[w] = l
      BY <1>1, <1>2, <2>3, MovedWith
    <2>5. \/ UNCHANGED jobs /\ (Stored(j) => IsTerminal(jobs[j]))
          \/ jobs' = [jobs EXCEPT ![j] = r] /\ Stored(j) /\ (~IsTerminal(jobs[j]) \/ jobs[j] = r)
      <3>1. w \notin Requests
        BY VideoAssumption DEF Alone
      <3>2. QED
        BY <1>2, <2>1, <3>1, NoFault DEF Update, Refused, Writable, GivesUp
    <2>6. ReadInv(w)'
      BY <2>4 DEF ReadInv, Finishing
    <2>7. Ended(j)'
      <3>1. CASE UNCHANGED jobs /\ (Stored(j) => IsTerminal(jobs[j]))
        <4>1. Stored(j) => ~jobs[j].forced
          BY <1>2, <1>6 DEF CommitInv, Order, ReadInv, Finishing
        <4>2. QED
          BY <3>1, <4>1 DEF Ended, Stored
      <3>2. CASE jobs' = [jobs EXCEPT ![j] = r]
        <4>1. jobs'[j] = r
          BY <1>1, <1>2, <3>2 DEF Typed
        <4>2. QED
          BY <1>4, <1>6, <4>1 DEF Ended, IsTerminal
      <3>3. QED
        BY <2>5, <3>1, <3>2
    <2>8. \A k \in Jobs : k # j => jobs'[k] = jobs[k]
      BY <1>1, <1>2, <2>5 DEF Typed
    <2>9. PaidFor(w)'
      <3> SUFFICES ASSUME NEW k \in Jobs, bills[k].state = "actual" PROVE Ended(k)'
        BY <1>1 DEF PaidFor
      <3>1. CASE k = j
        BY <2>7, <3>1
      <3>2. CASE k # j
        <4>1. Ended(k)
          BY <1>2, <3>2 DEF CommitInv, Order, PaidFor
        <4>2. QED
          BY <2>8, <3>2, <4>1 DEF Ended, Stored
      <3>3. QED
        BY <3>1, <3>2
    <2>10. \A q \in Procs : pc[q] = "forcePut" => bills'[Id(q)].state # "actual"
      BY <1>1 DEF CommitInv, Order, ForceInv
    <2>11. {"idle", "maybe"} \cap Locked = {}
      BY DEF Locked
    <2>12. LockInv' /\ ForceInv'
      BY <1>2, <2>3, <2>10, <2>11, WorkerLocks
    <2>13. QED
      BY <2>6, <2>9, <2>12 DEF Order
  <1>7. QED
    BY <1>1, <1>5, <1>6

-----------------------------------------------------------------------------
(* The other steps *)

(* Nobody moves, and records change at most in their lease or are pruned. *)
LEMMA QuietOrder ==
    ASSUME IInv, NEW w, Alone(w), CommitInv(w), UNCHANGED <<bills, pc>>,
           \A q \in Procs : Id(q)' = Id(q) /\ Held(q)'.st = Held(q).st,
           \A k \in Jobs : SameEnd(k) \/ ~Stored(k)'
    PROVE  Order(w)'
  <1>1. w \in Procs
    BY DEF Alone, Procs
  <1>2. pc'[w] \in Locked => Id(w) \in Jobs
    BY <1>1, OneHome DEF Locked
  <1>3. \A k \in Jobs : Changes(w, w, k)
    BY DEF Changes
  <1>4. QED
    BY <1>1, <1>2, <1>3, Beside

(* Somebody who is idle begins with a job. *)
LEMMA BeginOrder ==
    ASSUME IInv, NEW w, Alone(w), CommitInv(w), NEW p \in Procs, pc[p] = "idle",
           NEW l, NEW t, pc' = [pc EXCEPT ![p] = l], task' = [task EXCEPT ![p] = t],
           l \notin Locked \cup Committing,
           \A k \in Jobs : bills'[k].state = "actual" => bills[k].state = "actual",
           \A k \in Jobs : SameEnd(k)
    PROVE  Order(w)'
  <1>1. pc'[p] = l /\ \A q \in Procs : q # p => pc'[q] = pc[q] /\ Id(q)' = Id(q) /\ Held(q)' = Held(q)
    BY DEF IInv, Typed, Id, Held
  <1>2. "forcePut" \in Locked
    BY DEF Locked
  <1>3. \A k \in Jobs : Changes(p, w, k)
    BY DEF Changes
  <1>4. QED
    BY <1>1, <1>2, <1>3, Beside

LEMMA RequestOrder ==
    ASSUME IInv, NEW w, Alone(w), CommitInv(w), NEW p \in Requests, NEW j \in Jobs, NEW i \in Instances,
           Request(p, j, i)
    PROVE  Order(w)' /\ UNCHANGED todo /\ UNCHANGED phase /\ phase[w] # "down"
  <1> DEFINE L == {"dry", "create", "cancelRemote", "cancelPut", "forceRead"}
  <1>1. UNCHANGED <<jobs, todo, phase>> /\ pc[p] = "idle" /\ p \in Procs /\ phase[i] = "up" /\ Typed
    BY DEF Request, CreateStart, Cancel, CancelAs, ForceFail, Take, Is, Procs, instance, IInv
  <1>2. L \cap (Locked \cup Committing) = {}
    BY DEF Locked, Committing, Finishing
  <1>3. \E l \in L : \E t : pc' = [pc EXCEPT ![p] = l] /\ task' = [task EXCEPT ![p] = t]
    <2>1. CASE CreateStart(p, j, i)
      BY <2>1 DEF CreateStart
    <2>2. CASE Cancel(p, j, i)
      BY <2>2 DEF Cancel, CancelAs, Take
    <2>3. CASE ForceFail(p, j, i)
      BY <2>3 DEF ForceFail, Take
    <2>4. QED
      BY <2>1, <2>2, <2>3 DEF Request
  <1>4. \A k \in Jobs : bills'[k].state = "actual" => bills[k].state = "actual"
    <2>1. CASE UNCHANGED bills
      BY <2>1
    <2>2. CASE Reserve(j)
      BY <1>1, <2>2 DEF Reserve, AfterReserve, Typed, Rows
    <2>3. QED
      BY <2>1, <2>2 DEF Request, CreateStart, Cancel, CancelAs, ForceFail
  <1>5. \A k \in Jobs : SameEnd(k)
    BY <1>1 DEF SameEnd, Stored
  <1>6. Order(w)'
    BY <1>1, <1>2, <1>3, <1>4, <1>5, BeginOrder
  <1>7. QED
    BY <1>1, <1>6 DEF Alone

LEMMA ClaimSameEnd ==
    ASSUME Typed, NEW i \in Instances, NEW j \in Jobs, Stored(j), jobs' = [jobs EXCEPT ![j] = Leased(@, i)], NEW k \in Jobs
    PROVE  SameEnd(k)
  <1>1. jobs[j] \in Records
    BY DEF Typed, Stored
  <1>2. /\ Leased(jobs[j], i) # NoJob /\ Leased(jobs[j], i).st = jobs[j].st
        /\ Leased(jobs[j], i).forced = jobs[j].forced
    BY <1>1, LeasedRecord, NotRecord
  <1>3. jobs'[k] = IF k = j THEN Leased(jobs[j], i) ELSE jobs[k]
    BY DEF Typed
  <1>4. QED
    BY <1>2, <1>3 DEF SameEnd, Stored

LEMMA RunJobOrder ==
    ASSUME IInv, NEW w, Alone(w), Alone(w)', CommitInv(w), RunJob(w)
    PROVE  Order(w)' /\ UNCHANGED todo /\ UNCHANGED phase /\ phase[w] # "down"
  <1> DEFINE j == Head(queue[w])
             r == Leased(jobs[j], w)
             L == {"admit", "manual", "poll", "fail"}
  <1>1. /\ pc[w] = "idle" /\ w \in Procs /\ w \in Instances /\ Typed
        /\ UNCHANGED <<bills, todo, phase>> /\ phase[w] # "down" /\ queue[w] \in Seq(Jobs) /\ queue[w] # <<>>
    BY DEF RunJob, ClaimNext, Is, IInv, Procs, InstancesTyped, Alone
  <1>2. j \in Jobs
    <2>1. \A s \in Seq(Jobs) : s # <<>> => Head(s) \in Jobs
      BY SMTT(30)
    <2>2. QED
      BY <1>1, <2>1
  <1> HIDE DEF j
  <1>3. \A k \in Jobs : SameEnd(k)
    <2>1. CASE UNCHANGED jobs
      BY <2>1 DEF SameEnd, Stored
    <2>2. CASE Stored(j) /\ jobs' = [jobs EXCEPT ![j] = Leased(@, w)]
      BY <1>1, <1>2, <2>2, ClaimSameEnd
    <2>3. QED
      BY <2>1, <2>2 DEF RunJob, ClaimNext, j
  <1>4. CASE UNCHANGED <<pc, task>>
    <2>1. \A q \in Procs : Id(q)' = Id(q) /\ Held(q)'.st = Held(q).st
      BY <1>4 DEF Id, Held
    <2>2. QED
      BY <1>1, <1>3, <1>4, <2>1, QuietOrder
  <1>5. CASE \E l \in L : \E t : pc' = [pc EXCEPT ![w] = l] /\ task' = [task EXCEPT ![w] = t]
    <2>1. L \cap (Locked \cup Committing) = {}
      BY DEF Locked, Committing, Finishing
    <2>2. QED
      BY <1>1, <1>3, <1>5, <2>1, BeginOrder
  <1>6. Resume(w, r) => \/ UNCHANGED <<pc, task>>
                        \/ \E l \in L : \E t : pc' = [pc EXCEPT ![w] = l] /\ task' = [task EXCEPT ![w] = t]
    <2> HIDE DEF r
    <2>1. ASSUME Resume(w, r), ~UNCHANGED <<pc, task>>
          PROVE  \E l \in L : \E t : pc' = [pc EXCEPT ![w] = l] /\ task' = [task EXCEPT ![w] = t]
      <3>1. PICK next \in {<<"admit", r>>, <<"manual", As(r, "manual")>>, <<"poll", r>>, <<"fail", As(r, "failed")>>} :
               /\ pc' = [pc EXCEPT ![w] = next[1]]
               /\ task' = [task EXCEPT ![w] = [id |-> Head(queue[w]), rec |-> next[2], home |-> w]]
        BY <2>1 DEF Resume
      <3>2. next[1] \in L
        BY SMTT(30)
      <3>3. QED
        BY <3>1, <3>2
    <2>2. QED
      BY <2>1
  <1>7. QED
    BY <1>1, <1>4, <1>5, <1>6 DEF RunJob, ClaimNext, j

(* A process that starts has nothing to recover: nothing is stored before  *)
(* the first start, and nobody works while it is down.                     *)
LEMMA StartOrder ==
    ASSUME IInv, NEW w, Alone(w), CommitInv(w), Start(w)
    PROVE  Order(w)' /\ EmptyStart(w)'
  <1>1. phase[w] = "down" /\ UNCHANGED <<bills, pc>> /\ Typed /\ w \in Procs /\ w \in Instances
    BY DEF Start, IInv, Alone, Procs
  <1>2. \A j \in Jobs : ~Stored(j)
    BY <1>1 DEF CommitInv, EmptyStart
  <1>3. \A p \in Procs : pc[p] = "idle"
    BY <1>1, OneHome
  <1>4. \A j \in Jobs : Reowned(jobs'[j], jobs[j])
    <2>1. Former \in Instances \cup {NoOwner, Former}
      OBVIOUS
    <2>2. QED
      BY <1>1, <2>1, ReownedAll DEF Start, Everywhere
  <1>5. \A j \in Jobs : ~Stored(j)'
    BY <1>2, <1>4 DEF Reowned, Stored
  <1>6. {k \in Jobs : Stored(k)} = {}
    BY <1>2
  <1>7. todo'[w] = {}
    <2> DEFINE list == [j \in {k \in Jobs : Stored(k)} |-> jobs'[j]]
    <2>1. DOMAIN list = {}
      BY <1>6
    <2>2. todo' = [todo EXCEPT ![w] = {[id |-> j, rec |-> list[j]] : j \in DOMAIN list}]
      BY DEF Start
    <2> HIDE DEF list
    <2>3. {[id |-> j, rec |-> list[j]] : j \in DOMAIN list} = {}
      BY <2>1
    <2>4. QED
      BY <1>1, <2>2, <2>3 DEF IInv, InstancesTyped
  <1>8. Order(w)'
    BY <1>1, <1>3, <1>5 DEF Order, ReadInv, PaidFor, Ended, ForceInv, LockInv, Locked, Finishing
  <1>9. QED
    BY <1>5, <1>7, <1>8 DEF EmptyStart

LEMMA LeasesExpireOrder ==
    ASSUME IInv, NEW w, Alone(w), CommitInv(w), NEW o, LeasesExpire(o)
    PROVE  Order(w)' /\ EmptyStart(w)'
  <1>1. UNCHANGED <<bills, pc, phase>> /\ Typed /\ w \in Instances /\ NoOwner \in Instances \cup {NoOwner, Former}
    BY DEF LeasesExpire, IInv, Alone
  <1>2. /\ \A j \in Jobs : Reowned(jobs'[j], jobs[j])
        /\ \A p \in Procs : Id(p)' = Id(p) /\ Reowned(Held(p)', Held(p)) /\ Held(p) \in Records \cup {NoJob}
    BY <1>1, ReownedAll DEF LeasesExpire, Everywhere
  <1>3. \A j \in Jobs : SameEnd(j)
    BY <1>1, <1>2, NotRecord DEF Reowned, SameEnd, Stored, Typed
  <1>4. \A p \in Procs : Id(p)' = Id(p) /\ Held(p)'.st = Held(p).st
    BY <1>2 DEF Reowned
  <1>5. Order(w)'
    BY <1>1, <1>3, <1>4, QuietOrder
  <1>6. todo'[w] = {}
    <2>1. todo[w] = {}
      BY DEF CommitInv, EmptyStart
    <2> DEFINE expired(r) == IF r # NoJob /\ r.owner = o THEN [r EXCEPT !.owner = NoOwner] ELSE r
    <2>2. todo' = [i \in Instances |-> {[t EXCEPT !.rec = expired(@)] : t \in todo[i]}]
      BY DEF LeasesExpire
    <2> HIDE DEF expired
    <2>3. QED
      BY <1>1, <2>1, <2>2
  <1>7. QED
    BY <1>1, <1>3, <1>5, <1>6 DEF CommitInv, EmptyStart, SameEnd

LEMMA PruneOrder ==
    ASSUME IInv, NEW w, Alone(w), CommitInv(w), Prune(w)
    PROVE  Order(w)' /\ UNCHANGED todo /\ UNCHANGED phase /\ phase[w] # "down"
  <1>1. PICK j \in Jobs : jobs' = [jobs EXCEPT ![j] = NoJob]
    BY DEF Prune
  <1>2. UNCHANGED <<bills, pc, task, todo, phase>> /\ Typed /\ phase[w] # "down"
    BY DEF Prune, instance, IInv
  <1>3. \A k \in Jobs : SameEnd(k) \/ ~Stored(k)'
    BY <1>1, <1>2 DEF Typed, SameEnd, Stored
  <1>4. \A q \in Procs : Id(q)' = Id(q) /\ Held(q)'.st = Held(q).st
    BY <1>2 DEF Id, Held
  <1>5. QED
    BY <1>2, <1>3, <1>4, QuietOrder

LEMMA StepOrder ==
    ASSUME IInv, NEW w, Alone(w), Alone(w)', CommitInv(w), NEW p \in Procs, Step(p)
    PROVE  Order(w)' /\ UNCHANGED todo /\ UNCHANGED phase /\ phase[w] # "down"
  <1>1. pc[p] # "idle"
    BY DEF Step, CreatePut, CreateEnqueue, CreateRefused, EndBill, PutEnd, Admit, Submit, Save, Drop, Renew,
           GetJob, PutPolled, Again, CommitRead, Settle, PutCompleted, CancelAtProvider, CancelPut, ForceRead,
           ForceReadAs, ForcePut, Is
  <1>2. UNCHANGED <<todo, phase>>
    BY DEF Step, CreatePut, CreateEnqueue, CreateRefused, EndBill, PutEnd, Admit, Submit, Save, Drop, Renew,
           GetJob, PutPolled, Again, CommitRead, Settle, PutCompleted, CancelAtProvider, CancelPut, ForceRead,
           ForceReadAs, ForcePut, instance
  <1>3. phase[w] # "down"
    BY <1>1, OneHome
  <1>4. Order(w)'
    BY PutsBeside, GotoBeside, ForceReadBeside, RenewBeside, CreatePutBeside, UploadOrder, PolledOrder,
       CommitReadOrder, SettleOrder, CompletedOrder DEF Step
  <1>5. QED
    BY <1>2, <1>3, <1>4

LEMMA NextOrder ==
    ASSUME IInv, NEW w, Alone(w), Alone(w)', CommitInv(w), [Next]_vars
    PROVE  CommitInv(w)'
  <1>1. w \in Instances /\ \A i \in Instances : i = w
    BY DEF Alone
  <1>2. ~RecoverFails(w) /\ ~RecoverJob(w)
    BY DEF RecoverFails, RecoverStops, RecoverJob, RecoverNext, CommitInv, EmptyStart
  <1>3. BooksInv'
    <2>1. \A i \in Instances : ~RecoverFails(i)
      BY <1>1, <1>2
    <2>2. QED
      BY <2>1, NextBooks DEF CommitInv
  <1>4. ASSUME Order(w)', UNCHANGED <<todo, phase>>, phase[w] # "down" PROVE CommitInv(w)'
    BY <1>3, <1>4 DEF CommitInv, EmptyStart
  <1>5. ASSUME UNCHANGED <<jobs, bills, pc, task>> PROVE Order(w)'
    <2>1. \A k \in Jobs : SameEnd(k)
      BY <1>5 DEF SameEnd, Stored
    <2>2. \A q \in Procs : Id(q)' = Id(q) /\ Held(q)'.st = Held(q).st
      BY <1>5 DEF Id, Held
    <2>3. QED
      BY <1>5, <2>1, <2>2, QuietOrder
  <1>6. ASSUME UNCHANGED <<jobs, bills, pc, task, todo>>, phase'[w] = "down" => phase[w] = "down"
        PROVE  CommitInv(w)'
    BY <1>3, <1>5, <1>6 DEF CommitInv, EmptyStart, Stored
  <1>7. ASSUME NEW p \in Procs, Step(p) PROVE CommitInv(w)'
    BY <1>4, <1>7, StepOrder
  <1>8. ASSUME NEW p \in Requests, NEW j \in Jobs, NEW i \in Instances, Request(p, j, i) PROVE CommitInv(w)'
    BY <1>4, <1>8, RequestOrder
  <1>9. ASSUME Runtime(w) PROVE CommitInv(w)'
    <2>1. CASE RunJob(w)
      BY <1>4, <2>1, RunJobOrder
    <2>2. CASE Start(w)
      BY <1>3, <2>2, StartOrder DEF CommitInv
    <2>3. CASE RetryFires(w)
      BY <1>6, <2>3 DEF RetryFires
    <2>4. CASE Serve(w)
      <3>1. phase[w] # "down" /\ UNCHANGED <<jobs, bills, pc, task, todo>> /\ phase'[w] = "up"
        BY <1>1, <2>4 DEF Serve, IInv, InstancesTyped
      <3>2. QED
        BY <1>6, <3>1
    <2>5. QED
      BY <1>2, <1>9, <2>1, <2>2, <2>3, <2>4 DEF Runtime
  <1>10. ASSUME Prune(w) PROVE CommitInv(w)'
    BY <1>4, <1>10, PruneOrder
  <1>11. ~Crash(w)
    BY SMTT(30) DEF Crash, Alone
  <1>12. ASSUME NEW o, LeasesExpire(o) PROVE CommitInv(w)'
    BY <1>3, <1>12, LeasesExpireOrder DEF CommitInv
  <1>13. ASSUME NEW j \in Jobs, RemoteEnds(j) PROVE CommitInv(w)'
    BY <1>6, <1>13 DEF RemoteEnds, instance
  <1>14. CASE UNCHANGED vars
    BY <1>6, <1>14 DEF vars
  <1>15. CASE Next
    BY <1>1, <1>7, <1>8, <1>9, <1>10, <1>11, <1>12, <1>13, <1>15 DEF Next
  <1>16. QED
    BY <1>14, <1>15

LEMMA InitOrder ==
    ASSUME Init, NEW w, Alone(w)
    PROVE  CommitInv(w)
  <1>1. \A p \in Procs : pc[p] = "idle"
    BY DEF Init
  <1>2. \A j \in Jobs : bills[j].state # "actual"
    BY DEF Init, LedgerInit, NoRow
  <1>3. w \in Procs /\ todo[w] = {} /\ \A j \in Jobs : ~Stored(j)
    BY DEF Init, Alone, Procs, Stored
  <1>4. QED
    BY <1>1, <1>2, <1>3, InitBooks
       DEF CommitInv, EmptyStart, Order, ReadInv, PaidFor, ForceInv, LockInv, Locked, Finishing

Counts == crashes \in Nat /\ faults \in Nat

LEMMA CountsGrow ==
    ASSUME [Next]_vars
    PROVE  crashes' \in {crashes, crashes + 1} /\ faults' \in {faults, faults + 1}
  <1>1. ASSUME NEW p \in Procs, Step(p) PROVE UNCHANGED crashes
    BY <1>1 DEF Step, CreatePut, CreateEnqueue, CreateRefused, EndBill, PutEnd, Admit, Submit, Save, Drop, Renew,
           GetJob, PutPolled, Again, CommitRead, Settle, PutCompleted, CancelAtProvider, CancelPut, ForceRead,
           ForceReadAs, ForcePut, instance
  <1>2. ASSUME NEW p \in Procs, Step(p) PROVE UNCHANGED faults \/ Fault
    <2>1. ASSUME NEW r, NEW ok, NEW err, Update(p, r, ok, err) PROVE UNCHANGED faults \/ Fault
      BY <2>1 DEF Update, GivesUp
    <2>2. CASE CreateRefused(p) \/ PutEnd(p) \/ Admit(p) \/ Save(p) \/ PutPolled(p) \/ PutCompleted(p)
               \/ CancelPut(p) \/ ForcePut(p)
      BY <2>1, <2>2 DEF CreateRefused, PutEnd, Admit, Save, PutPolled, PutCompleted, CancelPut, ForcePut
    <2>3. QED
      BY <1>2, <2>2 DEF Step, CreatePut, CreateEnqueue, EndBill, Submit, Drop, Renew, GetJob, Again, CommitRead,
             Settle, CancelAtProvider, ForceRead, ForceReadAs, GivesUp
  <1>3. ASSUME NEW p \in Requests, NEW j \in Jobs, NEW i \in Instances, Request(p, j, i)
        PROVE  UNCHANGED <<crashes, faults>>
    BY <1>3 DEF Request, CreateStart, Cancel, CancelAs, ForceFail, instance
  <1>4. ASSUME NEW i \in Instances, Runtime(i) PROVE UNCHANGED crashes /\ (UNCHANGED faults \/ Fault)
    BY <1>4 DEF Runtime, RunJob, ClaimNext, RetryFires, Start, RecoverJob, RecoverNext, RecoverFails, RecoverStops, Serve
  <1>5. ASSUME NEW i \in Instances, Prune(i) PROVE UNCHANGED <<crashes, faults>>
    BY <1>5 DEF Prune, instance
  <1>6. ASSUME NEW i \in Instances, Crash(i) PROVE crashes' = crashes + 1 /\ UNCHANGED faults
    BY <1>6 DEF Crash
  <1>7. ASSUME NEW o, LeasesExpire(o) PROVE UNCHANGED <<crashes, faults>>
    BY <1>7 DEF LeasesExpire
  <1>8. ASSUME NEW j \in Jobs, RemoteEnds(j) PROVE UNCHANGED <<crashes, faults>>
    BY <1>8 DEF RemoteEnds, instance
  <1>9. Fault => faults' = faults + 1
    BY DEF Fault
  <1>10. CASE Next
    BY <1>1, <1>2, <1>3, <1>4, <1>5, <1>6, <1>7, <1>8, <1>9, <1>10 DEF Next
  <1>11. CASE UNCHANGED vars
    BY <1>11 DEF vars
  <1>12. QED
    BY <1>10, <1>11

(* In one undisturbed process no completion settles the actual cost of a   *)
(* job that an operator has force-failed, for any number of jobs and       *)
(* requests: the per-job lock of downloadAndComplete and ForceFail does    *)
(* prevent "completion from winning afterward".                            *)
THEOREM ForcedStaysUnpaid == Spec => []ForcedIsNotCompleted
  <1> DEFINE J == Counts /\ \A w \in Instances : Alone(w) => CommitInv(w)
  <1>1. IInv /\ J => ForcedIsNotCompleted
    <2> SUFFICES ASSUME IInv, J, NEW w \in Instances, Instances = {w}, crashes = 0, faults = 0,
                        NEW j \in Jobs, Stored(j), jobs[j].forced
                 PROVE  bills[j].state # "actual"
      BY DEF ForcedIsNotCompleted
    <2>2. CommitInv(w)
      BY DEF Alone
    <2>3. ~Ended(j)
      BY DEF Ended
    <2>4. ~(pc[w] = "complete" /\ Id(w) = j)
      BY <2>2 DEF CommitInv, Order, ReadInv, Finishing
    <2>5. QED
      BY <2>2, <2>3, <2>4 DEF CommitInv, Order, PaidFor
  <1>2. Init => J
    BY InitOrder, SMTT(30) DEF Init, Counts
  <1>3. IInv /\ J /\ [Next]_vars => J'
    <2> SUFFICES ASSUME IInv, J, [Next]_vars PROVE J'
      OBVIOUS
    <2>1. crashes' \in {crashes, crashes + 1} /\ faults' \in {faults, faults + 1}
      BY CountsGrow
    <2>2. Counts'
      BY <2>1, SMTT(30) DEF Counts
    <2>3. ASSUME NEW w \in Instances, Alone(w)' PROVE CommitInv(w)'
      <3>1. crashes = 0 /\ faults = 0
        BY <2>1, <2>3, SMTT(30) DEF Alone, Counts
      <3>2. Alone(w)
        BY <2>3, <3>1 DEF Alone
      <3>3. QED
        BY <2>3, <3>2, NextOrder
    <2>4. QED
      BY <2>2, <2>3
  <1>4. QED
    BY <1>1, <1>2, <1>3, JobsKeepInvariant, PTL DEF Spec

-----------------------------------------------------------------------------

InLine(qu, j) == \E k \in DOMAIN qu : qu[k] = j
Due(to, j) == \E t \in to : t.id = j /\ ~AtRest(t.rec)

(* One instance: its phase, queue, timers, what Recover listed and the job *)
(* of its worker.                                                          *)
TidyAt(ph, qu, re, to, me) ==
    /\ ph = "down" => qu = <<>> /\ re = {} /\ to = {}
    /\ ph = "up" => to = {}
    /\ \A k, l \in DOMAIN qu : qu[k] = qu[l] => k = l
    /\ \A t, u \in to : t.id = u.id => t = u
    /\ \A j \in Jobs :
         /\ InLine(qu, j) => j \notin re /\ me # j /\ ~Due(to, j)
         /\ j \in re => me # j /\ ~Due(to, j)
         /\ me = j => ~Due(to, j)
Tidy(i) == TidyAt(phase[i], queue[i], retry[i], todo[i], Id(i))

Has(i, j) == InLine(queue[i], j) \/ j \in retry[i] \/ Due(todo[i], j) \/ Id(i) = j

(* A request that is about to enqueue its job. *)
Maker(p) == pc[p] \in {"create", "enqueue"}

TidyInv == \A i \in Instances : Tidy(i)
PaidInv == \A i \in Instances, j \in Jobs : Has(i, j) => bills[j].state # "absent"
MakerOK(p) ==
    /\ pc[p] \in {"create", "dry", "enqueue"} => p \in Requests
    /\ pc[p] = "create" => \A i \in Instances : ~Has(i, Id(p))
    /\ pc[p] = "enqueue" => ~Has(task[p].home, Id(p))
MakersInv ==
    /\ \A p \in Procs : MakerOK(p)
    /\ \A p, q \in Procs : p # q /\ Maker(p) /\ Maker(q) => Id(p) # Id(q)

TokenInv == TidyInv /\ PaidInv /\ MakersInv

-----------------------------------------------------------------------------
(* One instance *)

(* The worker is done with its job. *)
LEMMA WorkerDone ==
    ASSUME NEW ph, NEW qu, NEW re, NEW to, NEW me, TidyAt(ph, qu, re, to, me)
    PROVE  TidyAt(ph, qu, re, to, NoJob)
  BY StoreAssumption DEF TidyAt

(* A job is put into the queue. *)
LEMMA LineGrows ==
    ASSUME NEW qu \in Seq(Jobs), NEW j \in Jobs
    PROVE  /\ \A k \in Jobs : InLine(Append(qu, j), k) <=> InLine(qu, k) \/ k = j
           /\ (\A k, l \in DOMAIN qu : qu[k] = qu[l] => k = l) /\ ~InLine(qu, j) =>
                 \A k, l \in DOMAIN Append(qu, j) : Append(qu, j)[k] = Append(qu, j)[l] => k = l
  <1> DEFINE qv == Append(qu, j)
             n == Len(qu)
  <1>1. /\ n \in Nat /\ DOMAIN qu = 1..n /\ DOMAIN qv = 1..(n + 1) /\ qv[n + 1] = j
        /\ \A k \in 1..n : qv[k] = qu[k]
    BY SMTT(30)
  <1> HIDE DEF qv, n
  <1>2. \A k \in Jobs : InLine(qv, k) <=> InLine(qu, k) \/ k = j
    <2> SUFFICES ASSUME NEW k \in Jobs PROVE InLine(qv, k) <=> InLine(qu, k) \/ k = j
      OBVIOUS
    <2>1. InLine(qv, k) => InLine(qu, k) \/ k = j
      BY <1>1, SMTT(30) DEF InLine
    <2>2. InLine(qu, k) => InLine(qv, k)
      BY <1>1, SMTT(30) DEF InLine
    <2>3. InLine(qv, j)
      BY <1>1, SMTT(30) DEF InLine
    <2>4. QED
      BY <2>1, <2>2, <2>3
  <1>3. ASSUME \A k, l \in DOMAIN qu : qu[k] = qu[l] => k = l, ~InLine(qu, j),
               NEW k \in DOMAIN qv, NEW l \in DOMAIN qv, qv[k] = qv[l]
        PROVE  k = l
    <2>1. \A m \in 1..n : qu[m] # j
      BY <1>1, <1>3 DEF InLine
    <2>2. QED
      BY <1>1, <1>3, <2>1, SMTT(30)
  <1>4. QED
    BY <1>2, <1>3 DEF qv

(* The worker takes the first job of the queue. *)
LEMMA LineShrinks ==
    ASSUME NEW qu \in Seq(Jobs), qu # <<>>, \A k, l \in DOMAIN qu : qu[k] = qu[l] => k = l
    PROVE  /\ Head(qu) \in Jobs /\ InLine(qu, Head(qu)) /\ ~InLine(Tail(qu), Head(qu))
           /\ \A k \in Jobs : InLine(Tail(qu), k) => InLine(qu, k)
           /\ \A k, l \in DOMAIN Tail(qu) : Tail(qu)[k] = Tail(qu)[l] => k = l
  <1> DEFINE qv == Tail(qu)
             n == Len(qu)
             h == Head(qu)
  <1>1. /\ n \in Nat \ {0} /\ DOMAIN qu = 1..n /\ DOMAIN qv = 1..(n - 1) /\ h = qu[1] /\ h \in Jobs
        /\ \A k \in 1..(n - 1) : qv[k] = qu[k + 1]
    BY SMTT(30)
  <1> HIDE DEF qv, n, h
  <1>2. InLine(qu, h)
    BY <1>1, SMTT(30) DEF InLine
  <1>3. ~InLine(qv, h)
    BY <1>1, SMTT(30) DEF InLine
  <1>4. \A k \in Jobs : InLine(qv, k) => InLine(qu, k)
    BY <1>1, SMTT(30) DEF InLine
  <1>5. ASSUME NEW k \in DOMAIN qv, NEW l \in DOMAIN qv, qv[k] = qv[l]
        PROVE  k = l
    <2>1. k \in Int /\ l \in Int /\ k + 1 \in DOMAIN qu /\ l + 1 \in DOMAIN qu
      BY <1>1, SMTT(30)
    <2>2. qu[k + 1] = qu[l + 1]
      BY <1>1, <1>5
    <2>3. k + 1 = l + 1
      BY <2>1, <2>2
    <2>4. QED
      BY <2>1, <2>3, SMTT(30)
  <1>6. QED
    BY <1>1, <1>2, <1>3, <1>4, <1>5 DEF qv, h

(* A job that is in no place is enqueued. *)
LEMMA Joined ==
    ASSUME NEW ph, NEW qu \in Seq(Jobs), NEW re, NEW to, NEW me, TidyAt(ph, qu, re, to, me), ph # "down",
           NEW j \in Jobs, ~InLine(qu, j), j \notin re, me # j, ~Due(to, j)
    PROVE  TidyAt(ph, Append(qu, j), re, to, me)
  <1> DEFINE qv == Append(qu, j)
  <1>1. /\ \A k \in Jobs : InLine(qv, k) <=> InLine(qu, k) \/ k = j
        /\ \A k, l \in DOMAIN qv : qv[k] = qv[l] => k = l
    BY LineGrows DEF TidyAt
  <1> HIDE DEF qv
  <1>2. TidyAt(ph, qv, re, to, me)
    BY <1>1 DEF TidyAt
  <1>3. QED
    BY <1>2 DEF qv

(* A timer is set for a job that is in no place. *)
LEMMA Scheduled ==
    ASSUME NEW ph, NEW qu, NEW re, NEW to, NEW me, TidyAt(ph, qu, re, to, me), ph # "down",
           NEW j \in Jobs, ~InLine(qu, j), me # j, ~Due(to, j)
    PROVE  TidyAt(ph, qu, re \cup {j}, to, me)
  BY DEF TidyAt

(* The idle worker takes the first job of the queue: it keeps it, drops it *)
(* or sets a timer for it.                                                 *)
LEMMA Taken ==
    ASSUME NEW ph, NEW qu \in Seq(Jobs), NEW re, NEW to, TidyAt(ph, qu, re, to, NoJob), ph # "down",
           qu # <<>>
    PROVE  /\ TidyAt(ph, Tail(qu), re, to, NoJob) /\ TidyAt(ph, Tail(qu), re, to, Head(qu))
           /\ TidyAt(ph, Tail(qu), re \cup {Head(qu)}, to, NoJob)
  <1> DEFINE qv == Tail(qu)
             h == Head(qu)
  <1>1. /\ h \in Jobs /\ InLine(qu, h) /\ ~InLine(qv, h)
        /\ \A k \in Jobs : InLine(qv, k) => InLine(qu, k)
        /\ \A k, l \in DOMAIN qv : qv[k] = qv[l] => k = l
    BY LineShrinks DEF TidyAt
  <1> HIDE DEF qv, h
  <1>2. TidyAt(ph, qv, re, to, NoJob)
    BY <1>1, StoreAssumption DEF TidyAt
  <1>3. h \notin re /\ ~Due(to, h) /\ NoJob # h
    BY <1>1, StoreAssumption DEF TidyAt
  <1>4. TidyAt(ph, qv, re, to, h)
    BY <1>1, <1>2, <1>3 DEF TidyAt
  <1>5. TidyAt(ph, qv, re \cup {h}, to, NoJob)
    BY <1>1, <1>2, <1>3, Scheduled
  <1>6. QED
    BY <1>2, <1>4, <1>5 DEF qv, h

(* A timer is gone, or Recover has handled a listed record. *)
LEMMA Fewer ==
    ASSUME NEW ph, NEW qu, NEW re, NEW to, NEW me, TidyAt(ph, qu, re, to, me)
    PROVE  /\ \A j : TidyAt(ph, qu, re \ {j}, to, me)
           /\ \A t \in to : TidyAt(ph, qu, re, to \ {t}, me) /\ ~Due(to \ {t}, t.id)
  <1>1. ASSUME NEW j PROVE TidyAt(ph, qu, re \ {j}, to, me)
    BY DEF TidyAt
  <1>2. ASSUME NEW t \in to PROVE TidyAt(ph, qu, re, to \ {t}, me) /\ ~Due(to \ {t}, t.id)
    <2>1. \A j \in Jobs : Due(to \ {t}, j) => Due(to, j)
      BY DEF Due
    <2>2. TidyAt(ph, qu, re, to \ {t}, me)
      BY <2>1 DEF TidyAt
    <2>3. ~Due(to \ {t}, t.id)
      BY DEF TidyAt, Due
    <2>4. QED
      BY <2>2, <2>3
  <1>3. QED
    BY <1>1, <1>2

LEMMA Cleared == TidyAt("down", <<>>, {}, {}, NoJob)
  <1>1. ASSUME NEW j PROVE ~InLine(<<>>, j) /\ ~Due({}, j)
    BY SMTT(30) DEF InLine, Due
  <1>2. QED
    BY <1>1, StoreAssumption, SMTT(30) DEF TidyAt

-----------------------------------------------------------------------------
(* All instances *)

(* A step that keeps every instance tidy: a place that is new for a job    *)
(* has one with a row, which no request is about to enqueue there.         *)
LEMMA TokenStep ==
    ASSUME IInv, TokenInv, \A i \in Instances : Tidy(i)',
           \A i \in Instances, j \in Jobs : Has(i, j)' =>
              \/ Has(i, j)
              \/ /\ bills[j].state # "absent"
                 /\ \A p \in Procs : Maker(p)' /\ Id(p)' = j => pc'[p] = "enqueue" /\ task'[p].home # i,
           \A j \in Jobs : bills[j].state # "absent" => bills'[j].state # "absent",
           \A p \in Procs : pc'[p] \in {"create", "dry", "enqueue"} =>
              /\ pc'[p] = pc[p] \/ (pc[p] = "create" /\ pc'[p] = "enqueue")
              /\ Id(p)' = Id(p) /\ task'[p].home = task[p].home
    PROVE  TokenInv'
  <1>1. TidyInv'
    BY DEF TidyInv
  <1>2. PaidInv'
    BY DEF PaidInv, TokenInv
  <1>3. ASSUME NEW p \in Procs PROVE MakerOK(p)'
    <2>1. MakerOK(p)
      BY DEF TokenInv, MakersInv
    <2>2. pc'[p] \in {"create", "dry", "enqueue"} =>
             p \in Requests /\ Id(p) \in Jobs /\ task[p].home \in Instances
      BY <2>1 DEF MakerOK, IInv, ProcsInv, ProcOK
    <2>3. ASSUME pc'[p] = "create", NEW i \in Instances PROVE ~Has(i, Id(p))'
      <3>1. Maker(p)' /\ Id(p)' = Id(p) /\ Id(p) \in Jobs /\ ~Has(i, Id(p)) /\ pc'[p] # "enqueue"
        BY <2>1, <2>2, <2>3 DEF MakerOK, Maker
      <3>2. QED
        BY <3>1, SMTT(30) DEF Has
    <2>4. ASSUME pc'[p] = "enqueue" PROVE ~Has(task[p].home, Id(p))'
      <3>1. /\ Maker(p)' /\ Id(p)' = Id(p) /\ Id(p) \in Jobs /\ task[p].home \in Instances
            /\ task'[p].home = task[p].home /\ ~Has(task[p].home, Id(p))
        BY <2>1, <2>2, <2>4 DEF MakerOK, Maker
      <3>2. QED
        BY <3>1, SMTT(30) DEF Has
    <2>5. QED
      BY <2>2, <2>3, <2>4 DEF MakerOK
  <1>4. ASSUME NEW p \in Procs, NEW q \in Procs, p # q, Maker(p)', Maker(q)' PROVE Id(p)' # Id(q)'
    <2>1. Maker(p) /\ Maker(q) /\ Id(p)' = Id(p) /\ Id(q)' = Id(q)
      BY <1>4 DEF Maker
    <2>2. QED
      BY <1>4, <2>1, SMTT(30) DEF TokenInv, MakersInv
  <1>5. QED
    BY <1>1, <1>2, <1>3, <1>4 DEF TokenInv, MakersInv

(* A step of a process that leaves the instances' memory alone. *)
LEMMA TokenFrame ==
    ASSUME IInv, TokenInv, UNCHANGED <<phase, todo, queue, retry>>,
           \A i \in Instances : Id(i)' = Id(i) \/ Id(i)' = NoJob,
           \A j \in Jobs : bills[j].state # "absent" => bills'[j].state # "absent",
           \A p \in Procs : pc'[p] \in {"create", "dry", "enqueue"} =>
              /\ pc'[p] = pc[p] \/ (pc[p] = "create" /\ pc'[p] = "enqueue")
              /\ Id(p)' = Id(p) /\ task'[p].home = task[p].home
    PROVE  TokenInv'
  <1>1. ASSUME NEW i \in Instances PROVE Tidy(i)'
    <2>1. TidyAt(phase[i], queue[i], retry[i], todo[i], Id(i))
      BY DEF TokenInv, TidyInv, Tidy
    <2>2. TidyAt(phase[i], queue[i], retry[i], todo[i], Id(i)')
      BY <2>1, WorkerDone
    <2>3. QED
      BY <2>2 DEF Tidy
  <1>2. ASSUME NEW i \in Instances, NEW j \in Jobs, Has(i, j)' PROVE Has(i, j)
    BY <1>2, StoreAssumption DEF Has
  <1>3. QED
    BY <1>1, <1>2, TokenStep

(* What a process that goes on leaves behind. *)
LEMMA Moved ==
    ASSUME Typed, NEW p \in Procs, NEW l, NEW r, Move(p, l, r)
    PROVE  /\ pc'[p] = l /\ (l = "idle" => task'[p] = NoTask /\ Id(p)' = NoJob)
           /\ l # "idle" => Id(p)' = Id(p) /\ task'[p].home = task[p].home
           /\ \A q \in Procs : q # p => pc'[q] = pc[q] /\ task'[q] = task[q] /\ Id(q)' = Id(q)
  <1>1. pc \in [Procs -> Labels] /\ task \in [Procs -> Tasks]
    BY DEF Typed
  <1>2. /\ pc'[p] = l /\ task'[p] = (IF l = "idle" THEN NoTask ELSE [task[p] EXCEPT !.rec = r])
        /\ \A q \in Procs : q # p => pc'[q] = pc[q] /\ task'[q] = task[q]
    BY <1>1 DEF Move
  <1>3. [task[p] EXCEPT !.rec = r].id = task[p].id /\ [task[p] EXCEPT !.rec = r].home = task[p].home
    BY <1>1 DEF Tasks
  <1>4. QED
    BY <1>2, <1>3, SMTT(30) DEF Id, NoTask

LEMMA MoveTokens ==
    ASSUME IInv, TokenInv, NEW p \in Procs, NEW l, NEW r, Move(p, l, r), l \notin {"create", "dry"},
           l = "enqueue" => pc[p] = "create", UNCHANGED <<phase, todo, queue, retry>>,
           \A j \in Jobs : bills[j].state # "absent" => bills'[j].state # "absent"
    PROVE  TokenInv'
  <1>1. Typed
    BY DEF IInv
  <1>2. \A i \in Instances : Id(i)' = Id(i) \/ Id(i)' = NoJob
    BY <1>1, Moved DEF Procs
  <1>3. ASSUME NEW q \in Procs, pc'[q] \in {"create", "dry", "enqueue"}
        PROVE  /\ pc'[q] = pc[q] \/ (pc[q] = "create" /\ pc'[q] = "enqueue")
               /\ Id(q)' = Id(q) /\ task'[q].home = task[q].home
    BY <1>1, <1>3, Moved, SMTT(30)
  <1>4. QED
    BY <1>2, <1>3, TokenFrame

(* A process writes its record. *)
LEMMA UpdateTokens ==
    ASSUME IInv, TokenInv, NEW p \in Procs, NEW r, NEW ok, NEW err, Update(p, r, ok, err),
           "create" \notin ok, "dry" \notin ok, "enqueue" \notin ok, err \notin {"create", "dry", "enqueue"},
           UNCHANGED <<bills, instance>>
    PROVE  TokenInv'
  <1>1. \E l \in ok \cup {err} : \E x : Move(p, l, x)
    BY DEF Update, Goto
  <1>2. PICK l \in ok \cup {err} : \E x : Move(p, l, x)
    BY <1>1
  <1>3. PICK x : Move(p, l, x)
    BY <1>2
  <1>4. l \notin {"create", "dry", "enqueue"} /\ UNCHANGED <<phase, todo, queue, retry, bills>>
    BY DEF instance
  <1>5. QED
    BY <1>3, <1>4, MoveTokens

LEMMA PutTokens ==
    ASSUME IInv, TokenInv, NEW p \in Procs,
           \/ CreateRefused(p) \/ PutEnd(p) \/ Admit(p) \/ Save(p) \/ PutPolled(p) \/ PutCompleted(p)
           \/ CancelPut(p) \/ ForcePut(p)
    PROVE  TokenInv'
  <1>1. UNCHANGED <<bills, instance>>
    BY DEF CreateRefused, PutEnd, Admit, Save, PutPolled, PutCompleted, CancelPut, ForcePut
  <1>2. CASE CreateRefused(p) \/ PutEnd(p) \/ Admit(p)
    BY <1>1, <1>2, UpdateTokens, SMTT(30) DEF CreateRefused, PutEnd, Admit
  <1>3. CASE Save(p)
    BY <1>1, <1>3, UpdateTokens, SMTT(30) DEF Save
  <1>4. CASE PutPolled(p)
    BY <1>1, <1>4, UpdateTokens, SMTT(30) DEF PutPolled
  <1>5. CASE PutCompleted(p) \/ CancelPut(p) \/ ForcePut(p)
    BY <1>1, <1>5, UpdateTokens, SMTT(30) DEF PutCompleted, CancelPut, ForcePut
  <1>6. QED
    BY <1>2, <1>3, <1>4, <1>5

(* The steps between the calls of one operation. *)
LEMMA GotoTokens ==
    ASSUME IInv, TokenInv, NEW p \in Procs,
           \/ CreatePut(p) \/ Submit(p) \/ Drop(p) \/ Renew(p) \/ GetJob(p) \/ CommitRead(p)
           \/ CancelAtProvider(p) \/ ForceRead(p)
    PROVE  TokenInv'
  <1>1. UNCHANGED <<bills, phase, todo, queue, retry>>
    BY DEF CreatePut, Submit, Drop, Renew, GetJob, CommitRead, CancelAtProvider, ForceRead, ForceReadAs,
           instance
  <1>2. \E l, r : Move(p, l, r) /\ l \notin {"create", "dry"} /\ (l = "enqueue" => pc[p] = "create")
    <2>1. CASE CreatePut(p)
      <3>1. CASE Is(p, "dry")
        <4>1. Goto(p, "idle")
          BY <2>1, <3>1 DEF CreatePut
        <4>2. "idle" \notin {"create", "dry"} /\ "idle" # "enqueue"
          OBVIOUS
        <4>3. QED
          BY <4>1, <4>2 DEF Goto
      <3>2. CASE ~Is(p, "dry")
        <4>1. pc[p] = "create" /\ (Goto(p, "enqueue") \/ Goto(p, "release"))
          BY <2>1, <3>2 DEF CreatePut, Is
        <4>2. QED
          BY <4>1 DEF Goto
      <3>3. QED
        BY <3>1, <3>2
    <2>2. CASE Submit(p)
      BY <2>2, SMTT(30) DEF Submit, Fail, Manual
    <2>3. CASE Drop(p) \/ Renew(p)
      BY <2>3, SMTT(30) DEF Drop, Renew, Goto
    <2>4. CASE GetJob(p)
      <3> DEFINE L == {"keep", "manual", "fail", "gone", "lateManual", "upload"}
      <3>1. \E l \in L : \E r : Move(p, l, r)
        BY <2>4 DEF GetJob, Goto, Manual, Fail
      <3>2. \A l \in L : l \notin {"create", "dry", "enqueue"}
        OBVIOUS
      <3>3. QED
        BY <3>1, <3>2
    <2>5. CASE CommitRead(p)
      BY <2>5, SMTT(30) DEF CommitRead, Goto
    <2>6. CASE CancelAtProvider(p)
      BY <2>6, SMTT(30) DEF CancelAtProvider, Goto
    <2>7. CASE ForceRead(p)
      BY <2>7, SMTT(30) DEF ForceRead, ForceReadAs, Goto
    <2>8. QED
      BY <2>1, <2>2, <2>3, <2>4, <2>5, <2>6, <2>7
  <1>3. QED
    BY <1>1, <1>2, MoveTokens

(* A row of the ledger does not become absent again. *)
LEMMA RowStays ==
    ASSUME IInv, NEW j \in Jobs, bills' = bills \/ Release(j) \/ SettleEstimate(j)
                                 \/ \E a \in Actuals : SettleActual(j, a)
    PROVE  \A k \in Jobs : bills[k].state # "absent" => bills'[k].state # "absent"
  <1>1. bills \in [Jobs -> Rows]
    BY DEF IInv, Typed
  <1>2. ASSUME NEW x \in Rows, x.state # "absent"
        PROVE  /\ AfterRelease(x).state # "absent" /\ AfterEstimate(x).state # "absent"
               /\ \A a : AfterActual(x, a).state # "absent"
    BY <1>2 DEF AfterRelease, AfterEstimate, AfterActual, Rows
  <1>3. CASE Release(j)
    BY <1>1, <1>2, <1>3 DEF Release
  <1>4. CASE SettleEstimate(j)
    BY <1>1, <1>2, <1>4 DEF SettleEstimate
  <1>5. CASE \E a \in Actuals : SettleActual(j, a)
    BY <1>1, <1>2, <1>5, SMTT(30) DEF SettleActual
  <1>6. QED
    BY <1>3, <1>4, <1>5

LEMMA BillTokens ==
    ASSUME IInv, TokenInv, NEW p \in Procs, EndBill(p) \/ Settle(p)
    PROVE  TokenInv'
  <1>1. pc[p] # "idle"
    BY DEF EndBill, Settle, Is
  <1>2. Id(p) \in Jobs
    BY <1>1, AtLabel
  <1>3. bills' = bills \/ Release(Id(p)) \/ SettleEstimate(Id(p)) \/ \E a \in Actuals : SettleActual(Id(p), a)
    BY DEF EndBill, Settle
  <1>4. UNCHANGED <<phase, todo, queue, retry>>
    BY DEF EndBill, Settle, instance
  <1>5. \E l, r : Move(p, l, r) /\ l \notin {"create", "dry", "enqueue"}
    BY SMTT(30) DEF EndBill, Settle, Goto
  <1>6. QED
    BY <1>2, <1>3, <1>4, <1>5, RowStays, MoveTokens

(* A step of one instance; the processes of the others go on as they were. *)
LEMMA OneInstance ==
    ASSUME IInv, TokenInv, NEW i \in Instances, Tidy(i)', UNCHANGED bills,
           \A k \in Instances \ {i} :
              /\ phase'[k] = phase[k] /\ queue'[k] = queue[k] /\ retry'[k] = retry[k] /\ todo'[k] = todo[k]
              /\ Id(k)' = Id(k) \/ Id(k)' = NoJob,
           \A j \in Jobs : Has(i, j)' =>
              \/ Has(i, j)
              \/ /\ bills[j].state # "absent"
                 /\ \A p \in Procs : Maker(p)' /\ Id(p)' = j => pc'[p] = "enqueue" /\ task'[p].home # i,
           \A p \in Procs : pc'[p] \in {"create", "dry", "enqueue"} =>
              pc'[p] = pc[p] /\ Id(p)' = Id(p) /\ task'[p].home = task[p].home
    PROVE  TokenInv'
  <1>1. ASSUME NEW k \in Instances PROVE Tidy(k)'
    <2>1. TidyAt(phase[k], queue[k], retry[k], todo[k], Id(k))
      BY DEF TokenInv, TidyInv, Tidy
    <2>2. k # i => TidyAt(phase[k], queue[k], retry[k], todo[k], Id(k)')
      BY <2>1, WorkerDone
    <2>3. QED
      BY <2>2 DEF Tidy
  <1>2. ASSUME NEW k \in Instances, NEW j \in Jobs, Has(k, j)', k # i PROVE Has(k, j)
    BY <1>2, StoreAssumption, SMTT(30) DEF Has
  <1>3. \A j \in Jobs : bills[j].state # "absent" => bills'[j].state # "absent"
    OBVIOUS
  <1>4. QED
    BY <1>1, <1>2, <1>3, TokenStep

(* The worker of an instance that is idle has no job. *)
LEMMA IdleWorker ==
    ASSUME IInv, NEW i \in Instances, pc[i] = "idle" \/ phase[i] = "down"
    PROVE  pc[i] = "idle" /\ Id(i) = NoJob
  <1>1. ProcOK(i)
    BY DEF IInv, ProcsInv, Procs
  <1>2. pc[i] = "idle"
    BY <1>1 DEF ProcOK
  <1>3. QED
    BY <1>1, <1>2, IdleHasNoJob DEF ProcOK

LEMMA CreateEnqueueTokens ==
    ASSUME IInv, TokenInv, NEW p \in Procs, CreateEnqueue(p)
    PROVE  TokenInv'
  <1>1. pc[p] = "enqueue" /\ UNCHANGED <<bills, phase, todo, retry>>
    BY DEF CreateEnqueue, Is
  <1>2. Typed /\ InstancesTyped /\ ProcOK(p) /\ MakerOK(p)
    BY DEF IInv, ProcsInv, TokenInv, MakersInv
  <1>3. PICK i \in Instances, j \in Jobs :
           /\ i = task[p].home /\ j = Id(p) /\ phase[i] # "down" /\ ~Has(i, j)
           /\ p \in Requests /\ p \notin Instances /\ bills[j].state # "absent"
    BY <1>1, <1>2, VideoAssumption DEF ProcOK, Fits, MakerOK
  <1>4. CASE UNCHANGED queue
    <2>1. Move(p, "refused", As(Held(p), "failed")) \/ Goto(p, "idle")
      BY DEF CreateEnqueue
    <2>2. \E l \in {"refused", "idle"} : \E r : Move(p, l, r)
      BY <2>1 DEF Goto
    <2>3. \A l \in {"refused", "idle"} : l \notin {"create", "dry", "enqueue"}
      OBVIOUS
    <2>4. QED
      BY <1>1, <1>4, <2>2, <2>3, MoveTokens
  <1>5. CASE Enqueue(i, j) /\ Goto(p, "idle")
    <2>1. queue' = [queue EXCEPT ![i] = Append(@, j)] /\ Move(p, "idle", Held(p))
      BY <1>5 DEF Enqueue, Goto
    <2>2. queue'[i] = Append(queue[i], j) /\ queue[i] \in Seq(Jobs) /\ \A k \in Instances \ {i} : queue'[k] = queue[k]
      BY <1>2, <1>3, <2>1 DEF InstancesTyped
    <2>3. pc'[p] = "idle" /\ \A q \in Procs : q # p => pc'[q] = pc[q] /\ task'[q] = task[q] /\ Id(q)' = Id(q)
      BY <1>2, <2>1, Moved
    <2>4. \A k \in Instances : Id(k)' = Id(k)
      BY <1>3, <2>3 DEF Procs
    <2>5. TidyAt(phase[i], queue[i], retry[i], todo[i], Id(i))
      BY <1>3 DEF TokenInv, TidyInv, Tidy
    <2>6. ~InLine(queue[i], j) /\ j \notin retry[i] /\ Id(i) # j /\ ~Due(todo[i], j)
      BY <1>3 DEF Has
    <2>7. TidyAt(phase[i], Append(queue[i], j), retry[i], todo[i], Id(i))
      BY <1>3, <2>2, <2>5, <2>6, Joined
    <2>8. Tidy(i)'
      BY <1>1, <1>3, <2>2, <2>4, <2>7 DEF Tidy
    <2>9. ASSUME NEW k \in Jobs, Has(i, k)' PROVE Has(i, k) \/ k = j
      <3>1. InLine(queue'[i], k) <=> InLine(queue[i], k) \/ k = j
        BY <1>3, <2>2, LineGrows, SMTT(30)
      <3>2. QED
        BY <1>1, <1>3, <2>4, <2>9, <3>1 DEF Has
    <2>10. ASSUME NEW q \in Procs, Maker(q)', Id(q)' = j PROVE FALSE
      <3>1. q # p /\ Maker(q) /\ Id(q) = j /\ Maker(p)
        BY <1>1, <2>3, <2>10 DEF Maker
      <3>2. QED
        BY <1>3, <3>1 DEF TokenInv, MakersInv
    <2>11. ASSUME NEW q \in Procs, pc'[q] \in {"create", "dry", "enqueue"}
           PROVE  pc'[q] = pc[q] /\ Id(q)' = Id(q) /\ task'[q].home = task[q].home
      BY <2>3, <2>11
    <2>12. QED
      BY <1>1, <1>3, <2>2, <2>4, <2>8, <2>9, <2>10, <2>11, OneInstance, SMTT(30)
  <1>6. QED
    BY <1>3, <1>4, <1>5 DEF CreateEnqueue

(* A request takes a job that nobody has had. *)
LEMMA CreateStartTokens ==
    ASSUME IInv, TokenInv, NEW p \in Requests, NEW j \in Jobs, NEW i \in Instances, CreateStart(p, j, i)
    PROVE  TokenInv'
  <1>1. PICK dry \in BOOLEAN :
           /\ IF dry THEN UNCHANGED bills ELSE Reserve(j)
           /\ pc' = [pc EXCEPT ![p] = IF dry THEN "dry" ELSE "create"]
           /\ task' = [task EXCEPT ![p] =
                          [id |-> j, rec |-> Fresh(IF dry THEN "dry" ELSE "queued"), home |-> i]]
    BY DEF CreateStart
  <1>2. /\ UNCHANGED <<phase, todo, queue, retry>> /\ pc[p] = "idle" /\ p \in Procs /\ p \notin Instances
        /\ Typed /\ bills[j] = NoRow /\ \A q \in Procs : Id(q) # j
    BY VideoAssumption DEF CreateStart, instance, Is, IInv, Procs, Unused
  <1>3. /\ pc'[p] \in {"create", "dry"} /\ Id(p)' = j
        /\ \A q \in Procs : q # p => pc'[q] = pc[q] /\ task'[q] = task[q] /\ Id(q)' = Id(q)
    BY <1>1, <1>2 DEF Typed, Id
  <1>4. \A k \in Instances : Id(k)' = Id(k)
    BY <1>2, <1>3 DEF Procs
  <1>5. \A k \in Instances, l \in Jobs : Has(k, l)' <=> Has(k, l)
    BY <1>2, <1>4 DEF Has
  <1>6. \A k \in Instances : ~Has(k, j)
    BY <1>2, NoRowIsAbsent DEF TokenInv, PaidInv
  <1>7. TidyInv'
    BY <1>2, <1>4 DEF TidyInv, Tidy, TokenInv
  <1>8. PaidInv'
    <2>1. \A l \in Jobs : l # j => bills'[l] = bills[l]
      BY <1>1, <1>2 DEF Reserve, Typed
    <2>2. QED
      BY <1>5, <1>6, <2>1 DEF PaidInv, TokenInv
  <1>9. ASSUME NEW q \in Procs PROVE MakerOK(q)'
    <2>1. CASE q = p
      BY <1>3, <1>5, <1>6, <2>1 DEF MakerOK, Has
    <2>2. CASE q # p
      <3>1. MakerOK(q) /\ ProcOK(q)
        BY DEF TokenInv, MakersInv, IInv, ProcsInv
      <3>2. pc[q] \in {"create", "enqueue"} => Id(q) \in Jobs /\ task[q].home \in Instances
        BY <3>1 DEF ProcOK
      <3>3. pc'[q] = pc[q] /\ task'[q] = task[q] /\ Id(q)' = Id(q)
        BY <1>3, <2>2
      <3>4. QED
        BY <1>2, <1>4, <3>1, <3>2, <3>3 DEF MakerOK, Has
    <2>3. QED
      BY <2>1, <2>2
  <1>10. ASSUME NEW q \in Procs, NEW s \in Procs, q # s, Maker(q)', Maker(s)' PROVE Id(q)' # Id(s)'
    <2>1. CASE q # p /\ s # p
      BY <1>3, <1>10, <2>1 DEF Maker, TokenInv, MakersInv
    <2>2. CASE q = p \/ s = p
      BY <1>2, <1>3, <1>10, <2>2
    <2>3. QED
      BY <2>1, <2>2
  <1>11. QED
    BY <1>7, <1>8, <1>9, <1>10 DEF TokenInv, MakersInv

(* An operator takes a job that is stored. *)
LEMMA TakeTokens ==
    ASSUME IInv, TokenInv, NEW p \in Requests, NEW j \in Jobs, NEW i \in Instances,
           Cancel(p, j, i) \/ ForceFail(p, j, i)
    PROVE  TokenInv'
  <1>1. UNCHANGED <<bills, phase, todo, queue, retry>> /\ p \in Procs /\ p \notin Instances /\ Typed
    BY VideoAssumption DEF Cancel, CancelAs, ForceFail, instance, IInv, Procs
  <1>2. PICK l \in {"cancelRemote", "cancelPut", "forceRead"} : \E r : Take(p, j, i, l, r)
    BY DEF Cancel, CancelAs, ForceFail
  <1>3. pc'[p] = l /\ \A q \in Procs : q # p => pc'[q] = pc[q] /\ task'[q] = task[q] /\ Id(q)' = Id(q)
    BY <1>1, <1>2 DEF Take, Typed, Id
  <1>4. \A k \in Instances : Id(k)' = Id(k)
    BY <1>1, <1>3 DEF Procs
  <1>5. ASSUME NEW q \in Procs, pc'[q] \in {"create", "dry", "enqueue"}
        PROVE  pc'[q] = pc[q] /\ Id(q)' = Id(q) /\ task'[q].home = task[q].home
    BY <1>3, <1>5
  <1>6. QED
    BY <1>1, <1>4, <1>5, TokenFrame

(* The worker schedules its job again. *)
LEMMA AgainTokens ==
    ASSUME IInv, TokenInv, NEW p \in Procs, Again(p)
    PROVE  TokenInv'
  <1> DEFINE j == Id(p)
  <1>1. pc[p] \in {"again", "maybe"} /\ UNCHANGED <<bills, phase, todo, queue>> /\ Move(p, "idle", Held(p))
    BY DEF Again, Is, Goto
  <1>2. Typed /\ InstancesTyped /\ ProcOK(p)
    BY DEF IInv, ProcsInv
  <1>3. p \in Instances /\ j \in Jobs /\ phase[p] # "down"
    BY <1>1, <1>2 DEF ProcOK, Fits, RequestLabels
  <1>4. /\ pc'[p] = "idle" /\ Id(p)' = NoJob
        /\ \A q \in Procs : q # p => pc'[q] = pc[q] /\ task'[q] = task[q] /\ Id(q)' = Id(q)
    BY <1>1, <1>2, Moved
  <1>5. CASE UNCHANGED retry
    BY <1>1, <1>5, MoveTokens
  <1>6. CASE ScheduleRetry(p, j)
    <2>1. retry'[p] = retry[p] \cup {j} /\ \A k \in Instances \ {p} : retry'[k] = retry[k]
      BY <1>2, <1>3, <1>6 DEF ScheduleRetry, InstancesTyped
    <2>2. TidyAt(phase[p], queue[p], retry[p], todo[p], j)
      BY <1>3 DEF TokenInv, TidyInv, Tidy
    <2>3. TidyAt(phase[p], queue[p], retry[p], todo[p], NoJob)
      BY <2>2, WorkerDone
    <2>4. ~InLine(queue[p], j) /\ ~Due(todo[p], j) /\ NoJob # j
      BY <1>3, <2>2, StoreAssumption DEF TidyAt
    <2>5. TidyAt(phase[p], queue[p], retry[p] \cup {j}, todo[p], NoJob)
      BY <1>3, <2>3, <2>4, Scheduled
    <2>6. Tidy(p)'
      BY <1>1, <1>4, <2>1, <2>5 DEF Tidy
    <2>7. ASSUME NEW k \in Jobs, Has(p, k)' PROVE Has(p, k)
      BY <1>1, <1>4, <2>1, <2>7, StoreAssumption DEF Has
    <2>8. \A k \in Instances \ {p} : Id(k)' = Id(k)
      BY <1>4 DEF Procs
    <2>9. ASSUME NEW q \in Procs, pc'[q] \in {"create", "dry", "enqueue"}
          PROVE  pc'[q] = pc[q] /\ Id(q)' = Id(q) /\ task'[q].home = task[q].home
      BY <1>4, <2>9
    <2>10. QED
      BY <1>1, <1>3, <2>1, <2>6, <2>7, <2>8, <2>9, OneInstance
  <1>7. QED
    BY <1>5, <1>6 DEF Again

(* The worker takes a job off the queue. *)
LEMMA RunJobTokens ==
    ASSUME IInv, TokenInv, NEW i \in Instances, RunJob(i)
    PROVE  TokenInv'
  <1> DEFINE j == Head(queue[i])
  <1>1. /\ phase[i] # "down" /\ pc[i] = "idle" /\ queue[i] # <<>>
        /\ queue' = [queue EXCEPT ![i] = Tail(@)] /\ UNCHANGED <<bills, phase, todo>>
        /\ Typed /\ InstancesTyped /\ i \in Procs
    BY DEF RunJob, ClaimNext, Is, IInv, Procs
  <1>2. queue[i] \in Seq(Jobs) /\ queue'[i] = Tail(queue[i]) /\ \A k \in Instances \ {i} : queue'[k] = queue[k]
    BY <1>1 DEF InstancesTyped
  <1>3. Id(i) = NoJob
    BY <1>1, IdleWorker
  <1>4. TidyAt(phase[i], queue[i], retry[i], todo[i], NoJob)
    BY <1>3 DEF TokenInv, TidyInv, Tidy
  <1>5. /\ TidyAt(phase[i], queue'[i], retry[i], todo[i], NoJob)
        /\ TidyAt(phase[i], queue'[i], retry[i], todo[i], j)
        /\ TidyAt(phase[i], queue'[i], retry[i] \cup {j}, todo[i], NoJob)
    <2>1. /\ TidyAt(phase[i], Tail(queue[i]), retry[i], todo[i], NoJob)
          /\ TidyAt(phase[i], Tail(queue[i]), retry[i], todo[i], j)
          /\ TidyAt(phase[i], Tail(queue[i]), retry[i] \cup {j}, todo[i], NoJob)
      BY <1>1, <1>2, <1>4, Taken
    <2>2. QED
      BY <1>2, <2>1
  <1>6. j \in Jobs /\ InLine(queue[i], j) /\ \A k \in Jobs : InLine(queue'[i], k) => InLine(queue[i], k)
    BY <1>1, <1>2, <1>4, LineShrinks, SMTT(30) DEF TidyAt
  <1> HIDE DEF j
  <1>7. ASSUME \/ UNCHANGED <<pc, task>> /\ (UNCHANGED retry \/ ScheduleRetry(i, j))
               \/ /\ UNCHANGED retry
                  /\ \E l \in {"admit", "manual", "poll", "fail"} : pc' = [pc EXCEPT ![i] = l]
                  /\ \E r : task' = [task EXCEPT ![i] = [id |-> j, rec |-> r, home |-> i]]
        PROVE  TokenInv'
    <2>1. /\ pc'[i] \notin {"create", "dry", "enqueue"}
          /\ \A q \in Procs : q # i => pc'[q] = pc[q] /\ task'[q] = task[q] /\ Id(q)' = Id(q)
      BY <1>1, <1>7 DEF Typed, Id
    <2>2. \/ Id(i)' = NoJob /\ (UNCHANGED retry \/ ScheduleRetry(i, j))
          \/ Id(i)' = j /\ UNCHANGED retry
      BY <1>1, <1>3, <1>7, SMTT(30) DEF Typed, Id
    <2>3. /\ \A k \in Instances \ {i} : retry'[k] = retry[k]
          /\ \/ Id(i)' = NoJob /\ (retry'[i] = retry[i] \/ retry'[i] = retry[i] \cup {j})
             \/ Id(i)' = j /\ retry'[i] = retry[i]
      BY <1>1, <2>2 DEF ScheduleRetry, InstancesTyped
    <2>4. Tidy(i)'
      BY <1>1, <1>5, <2>3 DEF Tidy
    <2>5. ASSUME NEW k \in Jobs, Has(i, k)' PROVE Has(i, k)
      BY <1>1, <1>6, <2>3, <2>5, StoreAssumption DEF Has
    <2>6. \A k \in Instances \ {i} : Id(k)' = Id(k)
      BY <2>1 DEF Procs
    <2>7. ASSUME NEW q \in Procs, pc'[q] \in {"create", "dry", "enqueue"}
          PROVE  pc'[q] = pc[q] /\ Id(q)' = Id(q) /\ task'[q].home = task[q].home
      BY <2>1, <2>7
    <2>8. QED
      BY <1>1, <1>2, <2>3, <2>4, <2>5, <2>6, <2>7, OneInstance
  <1>8. CASE UNCHANGED <<pc, task>> /\ (UNCHANGED retry \/ ScheduleRetry(i, j))
    BY <1>7, <1>8
  <1>9. CASE \E r : Resume(i, r) /\ UNCHANGED retry
    <2>1. PICK r : Resume(i, r)
      BY <1>9
    <2>2. CASE UNCHANGED <<pc, task>>
      BY <1>8, <1>9, <2>2
    <2>3. CASE ~(UNCHANGED <<pc, task>>)
      <3>1. PICK next \in CASE r.st = "queued" -> {<<"admit", r>>}
                            [] r.st = "admitted" -> {<<"manual", As(r, "manual")>>}
                            [] OTHER -> {<<"poll", r>>, <<"fail", As(r, "failed")>>} :
               /\ pc' = [pc EXCEPT ![i] = next[1]]
               /\ task' = [task EXCEPT ![i] = [id |-> j, rec |-> next[2], home |-> i]]
        BY <2>1, <2>3 DEF Resume, j
      <3>2. next[1] \in {"admit", "manual", "poll", "fail"}
        BY SMTT(30)
      <3>3. QED
        BY <1>7, <1>9, <3>1, <3>2
    <2>4. QED
      BY <2>2, <2>3
  <1>10. QED
    BY <1>8, <1>9 DEF RunJob, ClaimNext, j

(* A timer of a running instance puts its job into the queue. *)
LEMMA RetryFiresTokens ==
    ASSUME IInv, TokenInv, NEW i \in Instances, RetryFires(i)
    PROVE  TokenInv'
  <1>1. PICK j \in retry[i] : Enqueue(i, j) /\ retry' = [retry EXCEPT ![i] = @ \ {j}]
    BY DEF RetryFires
  <1>2. UNCHANGED <<bills, phase, todo, pc, task>> /\ InstancesTyped /\ \A p \in Procs : Id(p)' = Id(p)
    BY DEF RetryFires, IInv, Id
  <1>3. /\ j \in Jobs /\ queue[i] \in Seq(Jobs) /\ queue'[i] = Append(queue[i], j) /\ retry'[i] = retry[i] \ {j}
        /\ \A k \in Instances \ {i} : queue'[k] = queue[k] /\ retry'[k] = retry[k]
    BY <1>1, <1>2 DEF Enqueue, InstancesTyped
  <1>4. TidyAt(phase[i], queue[i], retry[i], todo[i], Id(i))
    BY DEF TokenInv, TidyInv, Tidy
  <1>5. phase[i] # "down" /\ ~InLine(queue[i], j) /\ Id(i) # j /\ ~Due(todo[i], j)
    BY <1>1, <1>3, <1>4 DEF TidyAt
  <1>6. TidyAt(phase[i], queue[i], retry[i] \ {j}, todo[i], Id(i))
    BY <1>4, Fewer
  <1>7. TidyAt(phase[i], Append(queue[i], j), retry[i] \ {j}, todo[i], Id(i))
    BY <1>3, <1>5, <1>6, Joined
  <1>8. i \in Procs /\ \A k \in Instances : Id(k)' = Id(k)
    BY <1>2 DEF Procs
  <1>9. Tidy(i)'
    BY <1>2, <1>3, <1>7, <1>8 DEF Tidy
  <1>10. ASSUME NEW k \in Jobs, Has(i, k)' PROVE Has(i, k)
    <2>1. InLine(queue'[i], k) <=> InLine(queue[i], k) \/ k = j
      BY <1>3, LineGrows, SMTT(30)
    <2>2. QED
      BY <1>1, <1>2, <1>3, <1>8, <1>10, <2>1 DEF Has
  <1>11. QED
    BY <1>2, <1>3, <1>8, <1>9, <1>10, OneInstance

(* Recover handles a listed record: the job is the instance's already. *)
LEMMA RecoverJobTokens ==
    ASSUME IInv, TokenInv, NEW i \in Instances, RecoverJob(i)
    PROVE  TokenInv'
  <1>1. PICK t \in todo[i] :
           /\ todo' = [todo EXCEPT ![i] = @ \ {t}] /\ phase[i] = "recovering"
           /\ UNCHANGED queue \/ (~AtRest(t.rec) /\ Enqueue(i, t.id))
           /\ UNCHANGED <<bills, phase, retry, pc, task>>
    BY DEF RecoverJob, RecoverNext
  <1>2. InstancesTyped /\ t.id \in Jobs /\ \A p \in Procs : Id(p)' = Id(p)
    BY <1>1, SMTT(30) DEF IInv, InstancesTyped, Id
  <1>3. todo'[i] = todo[i] \ {t} /\ \A k \in Instances \ {i} : todo'[k] = todo[k]
    BY <1>1, <1>2 DEF InstancesTyped
  <1>4. TidyAt(phase[i], queue[i], retry[i], todo[i], Id(i))
    BY DEF TokenInv, TidyInv, Tidy
  <1>5. TidyAt(phase[i], queue[i], retry[i], todo'[i], Id(i)) /\ ~Due(todo'[i], t.id)
    <2>1. TidyAt(phase[i], queue[i], retry[i], todo[i] \ {t}, Id(i)) /\ ~Due(todo[i] \ {t}, t.id)
      BY <1>4, Fewer
    <2>2. QED
      BY <1>3, <2>1
  <1>6. \A k \in Instances : Id(k)' = Id(k)
    BY <1>2 DEF Procs
  <1>7. \A k : Due(todo'[i], k) => Due(todo[i], k)
    BY <1>3 DEF Due
  <1>8. CASE UNCHANGED queue
    <2>1. Tidy(i)'
      BY <1>1, <1>5, <1>6, <1>8 DEF Tidy
    <2>2. \A k \in Jobs : Has(i, k)' => Has(i, k)
      BY <1>1, <1>6, <1>7, <1>8 DEF Has
    <2>3. QED
      BY <1>1, <1>2, <1>3, <1>6, <1>8, <2>1, <2>2, OneInstance
  <1>9. CASE ~AtRest(t.rec) /\ Enqueue(i, t.id)
    <2>1. /\ queue[i] \in Seq(Jobs) /\ queue'[i] = Append(queue[i], t.id)
          /\ \A k \in Instances \ {i} : queue'[k] = queue[k]
      BY <1>2, <1>9 DEF Enqueue, InstancesTyped
    <2>2. Due(todo[i], t.id)
      BY <1>9 DEF Due
    <2>3. ~InLine(queue[i], t.id) /\ t.id \notin retry[i] /\ Id(i) # t.id
      BY <1>2, <1>4, <2>2 DEF TidyAt
    <2>4. TidyAt(phase[i], Append(queue[i], t.id), retry[i], todo'[i], Id(i))
      BY <1>1, <1>2, <1>5, <2>1, <2>3, Joined
    <2>5. Tidy(i)'
      BY <1>1, <1>6, <2>1, <2>4 DEF Tidy
    <2>6. ASSUME NEW k \in Jobs, Has(i, k)' PROVE Has(i, k)
      <3>1. InLine(queue'[i], k) <=> InLine(queue[i], k) \/ k = t.id
        <4>1. InLine(Append(queue[i], t.id), k) <=> InLine(queue[i], k) \/ k = t.id
          BY <1>2, <2>1, LineGrows
        <4>2. QED
          BY <2>1, <4>1
      <3>2. QED
        BY <1>1, <1>6, <1>7, <2>2, <2>6, <3>1 DEF Has
    <2>7. QED
      BY <1>1, <1>2, <1>3, <1>6, <2>1, <2>5, <2>6, OneInstance
  <1>10. QED
    BY <1>1, <1>8, <1>9

LEMMA StopTokens ==
    ASSUME IInv, TokenInv, NEW i \in Instances, Stop(i)
    PROVE  TokenInv'
  <1>1. UNCHANGED bills /\ InstancesTyped
    BY DEF Stop, IInv
  <1>2. /\ phase'[i] = "down" /\ queue'[i] = <<>> /\ retry'[i] = {} /\ todo'[i] = {}
        /\ \A k \in Instances \ {i} :
              phase'[k] = phase[k] /\ queue'[k] = queue[k] /\ retry'[k] = retry[k] /\ todo'[k] = todo[k]
    BY <1>1 DEF Stop, InstancesTyped
  <1>3. \A p \in Procs :
           /\ task[p].home = i => pc'[p] = "idle" /\ task'[p] = NoTask
           /\ task[p].home # i => pc'[p] = pc[p] /\ task'[p] = task[p]
    BY DEF Stop
  <1>4. \A p \in Procs :
           /\ task[p].home = i => pc'[p] = "idle" /\ Id(p)' = NoJob
           /\ task[p].home # i => pc'[p] = pc[p] /\ Id(p)' = Id(p) /\ task'[p].home = task[p].home
    BY <1>3, SMTT(30) DEF Id, NoTask
  <1>5. Id(i)' = NoJob
    <2>1. i \in Procs /\ ProcOK(i)
      BY DEF IInv, ProcsInv, Procs
    <2>2. CASE pc[i] = "idle"
      BY <1>4, <2>1, <2>2, IdleWorker
    <2>3. CASE pc[i] # "idle"
      BY <1>4, <2>1, <2>3 DEF ProcOK
    <2>4. QED
      BY <2>2, <2>3
  <1>6. Tidy(i)'
    BY <1>2, <1>5, Cleared DEF Tidy
  <1>7. ASSUME NEW j \in Jobs PROVE ~Has(i, j)'
    BY <1>2, <1>5, StoreAssumption, SMTT(30) DEF Has, InLine, Due
  <1>8. \A k \in Instances : Id(k)' = Id(k) \/ Id(k)' = NoJob
    BY <1>4 DEF Procs
  <1>9. ASSUME NEW p \in Procs, pc'[p] \in {"create", "dry", "enqueue"}
        PROVE  pc'[p] = pc[p] /\ Id(p)' = Id(p) /\ task'[p].home = task[p].home
    BY <1>4, <1>9
  <1>10. QED
    BY <1>1, <1>2, <1>6, <1>7, <1>8, <1>9, OneInstance

LEMMA ServeTokens ==
    ASSUME IInv, TokenInv, NEW i \in Instances, Serve(i)
    PROVE  TokenInv'
  <1>1. /\ UNCHANGED <<bills, todo, queue, retry, pc, task>> /\ InstancesTyped
        /\ phase[i] = "recovering" /\ todo[i] = {} /\ \A p \in Procs : Id(p)' = Id(p)
    BY DEF Serve, IInv, Id
  <1>2. phase'[i] = "up" /\ \A k \in Instances \ {i} : phase'[k] = phase[k]
    BY <1>1 DEF Serve, InstancesTyped
  <1>3. \A k \in Instances : Id(k)' = Id(k)
    BY <1>1 DEF Procs
  <1>4. TidyAt(phase[i], queue[i], retry[i], todo[i], Id(i))
    BY DEF TokenInv, TidyInv, Tidy
  <1>5. TidyAt("up", queue[i], retry[i], todo[i], Id(i))
    BY <1>1, <1>4 DEF TidyAt
  <1>6. Tidy(i)'
    BY <1>1, <1>2, <1>3, <1>5 DEF Tidy
  <1>7. \A j \in Jobs : Has(i, j)' => Has(i, j)
    BY <1>1, <1>3 DEF Has
  <1>8. QED
    BY <1>1, <1>2, <1>3, <1>6, <1>7, OneInstance

(* Recover lists every stored job once.  A request that is about to        *)
(* enqueue one of them does so in another instance: it began in one that   *)
(* is running.                                                             *)
LEMMA StartTokens ==
    ASSUME IInv, TokenInv, NEW i \in Instances, Start(i)
    PROVE  TokenInv'
  <1> DEFINE former(r) == IF r # NoJob /\ r.owner = i THEN [r EXCEPT !.owner = Former] ELSE r
             list == [j \in {k \in Jobs : Stored(k)} |-> jobs'[j]]
             new == {[id |-> j, rec |-> list[j]] : j \in DOMAIN list}
  <1>1. /\ phase[i] = "down" /\ phase' = [phase EXCEPT ![i] = "recovering"]
        /\ todo' = [todo EXCEPT ![i] = new]
        /\ UNCHANGED <<bills, queue, retry, pc>> /\ Typed /\ InstancesTyped
    BY DEF Start, IInv
  <1>2. \/ /\ jobs' = [j \in Jobs |-> former(jobs[j])]
           /\ task' = [p \in Procs |-> [task[p] EXCEPT !.rec = former(@)]]
        \/ /\ jobs' = [j \in Jobs |-> jobs[j]]
           /\ task' = [p \in Procs |-> [task[p] EXCEPT !.rec = @]]
    BY DEF Start, Everywhere
  <1>3. \A p \in Procs : Id(p)' = Id(p) /\ task'[p].home = task[p].home
    <2>1. ASSUME NEW p \in Procs, NEW r
          PROVE  [task[p] EXCEPT !.rec = r].id = task[p].id /\ [task[p] EXCEPT !.rec = r].home = task[p].home
      BY <1>1 DEF Typed, Tasks
    <2> HIDE DEF former
    <2>2. ASSUME NEW p \in Procs
          PROVE  \/ task'[p] = [task[p] EXCEPT !.rec = former(task[p].rec)]
                 \/ task'[p] = [task[p] EXCEPT !.rec = task[p].rec]
      BY <1>2
    <2>3. QED
      <3> SUFFICES ASSUME NEW p \in Procs PROVE Id(p)' = Id(p) /\ task'[p].home = task[p].home
        OBVIOUS
      <3>1. PICK r : task'[p] = [task[p] EXCEPT !.rec = r]
        BY <2>2
      <3>2. QED
        BY <2>1, <3>1, SMTT(30) DEF Id
  <1>4. \A j \in Jobs : Stored(j) => jobs'[j].st = jobs[j].st
    <2>1. ASSUME NEW r \in Records PROVE former(r).st = r.st
      BY DEF Records
    <2> HIDE DEF former
    <2>2. QED
      BY <1>1, <1>2, <2>1 DEF Typed, Stored
  <1>5. /\ \A t \in new : t.id \in Jobs /\ Stored(t.id) /\ t.rec = jobs'[t.id]
        /\ \A t, u \in new : t.id = u.id => t = u
    <2>1. DOMAIN list = {k \in Jobs : Stored(k)} /\ \A j \in DOMAIN list : list[j] = jobs'[j]
      OBVIOUS
    <2> HIDE DEF list
    <2>2. ASSUME NEW t \in new PROVE t.id \in DOMAIN list /\ t = [id |-> t.id, rec |-> list[t.id]]
      BY <2>2, SMTT(30)
    <2>3. QED
      BY <2>1, <2>2, SMTT(30)
  <1> HIDE DEF former, new
  <1>6. /\ phase'[i] = "recovering" /\ todo'[i] = new
        /\ \A k \in Instances \ {i} : phase'[k] = phase[k] /\ todo'[k] = todo[k]
    BY <1>1 DEF InstancesTyped
  <1>7. /\ pc[i] = "idle" /\ Id(i) = NoJob /\ TidyAt(phase[i], queue[i], retry[i], todo[i], Id(i))
    BY <1>1, IdleWorker DEF TokenInv, TidyInv, Tidy
  <1>8. queue[i] = <<>> /\ retry[i] = {}
    BY <1>1, <1>7 DEF TidyAt
  <1>9. \A k \in Instances : Id(k)' = Id(k)
    BY <1>3 DEF Procs
  <1>10. Tidy(i)'
    <2>1. \A j \in Jobs : ~InLine(<<>>, j)
      BY SMTT(30) DEF InLine
    <2>2. TidyAt("recovering", <<>>, {}, new, NoJob)
      BY <1>5, <2>1, StoreAssumption, SMTT(30) DEF TidyAt
    <2>3. QED
      BY <1>1, <1>6, <1>7, <1>8, <1>9, <2>2 DEF Tidy
  <1>11. ASSUME NEW j \in Jobs, Has(i, j)' PROVE Stored(j) /\ bills[j].state # "absent"
    <2>1. Due(new, j)
      BY <1>1, <1>6, <1>7, <1>8, <1>9, <1>11, StoreAssumption, SMTT(30) DEF Has, InLine
    <2>2. Stored(j) /\ ~AtRest(jobs'[j])
      BY <1>5, <2>1 DEF Due
    <2>3. jobs[j].st # "dry" /\ JobOK(j)
      BY <1>4, <2>2 DEF AtRest, IsTerminal, IInv, JobsInv
    <2>4. QED
      BY <2>2, <2>3 DEF JobOK, RecordOK
  <1>12. ASSUME NEW j \in Jobs, Stored(j), NEW p \in Procs, Maker(p)', Id(p)' = j
         PROVE  pc'[p] = "enqueue" /\ task'[p].home # i
    <2>1. pc[p] \in {"create", "enqueue"} /\ Id(p) = j /\ ProcOK(p) /\ StoreFits(p)
      BY <1>1, <1>3, <1>12 DEF Maker, IInv, ProcsInv
    <2>2. pc[p] = "enqueue" /\ phase[task[p].home] # "down"
      BY <1>12, <2>1 DEF ProcOK, StoreFits
    <2>3. QED
      BY <1>1, <1>3, <2>2
  <1>13. QED
    BY <1>1, <1>3, <1>6, <1>9, <1>10, <1>11, <1>12, OneInstance

(* The leases of an owner end in what Recover listed, too. *)
LEMMA LeasesExpireTokens ==
    ASSUME IInv, TokenInv, NEW o, LeasesExpire(o)
    PROVE  TokenInv'
  <1> DEFINE expired(r) == IF r # NoJob /\ r.owner = o THEN [r EXCEPT !.owner = NoOwner] ELSE r
             after(t) == [t EXCEPT !.rec = expired(@)]
  <1>1. /\ task' = [p \in Procs |-> [task[p] EXCEPT !.rec = expired(@)]]
        /\ todo' = [i \in Instances |-> {after(t) : t \in todo[i]}]
        /\ UNCHANGED <<bills, phase, queue, retry, pc>> /\ Typed /\ InstancesTyped
    BY DEF LeasesExpire, Everywhere, IInv
  <1>2. \A p \in Procs : Id(p)' = Id(p) /\ task'[p].home = task[p].home
    <2>1. ASSUME NEW p \in Procs, NEW r
          PROVE  [task[p] EXCEPT !.rec = r].id = task[p].id /\ [task[p] EXCEPT !.rec = r].home = task[p].home
      BY <1>1 DEF Typed, Tasks
    <2> HIDE DEF expired
    <2>2. QED
      BY <1>1, <2>1 DEF Id
  <1>3. \A k \in Instances : Id(k)' = Id(k)
    BY <1>2 DEF Procs
  <1>4. ASSUME NEW i \in Instances
        PROVE  /\ todo'[i] = {after(t) : t \in todo[i]}
               /\ \A t \in todo[i] : after(t).id = t.id /\ (AtRest(t.rec) => AtRest(after(t).rec))
    <2>1. \A t \in todo[i] : t \in [id : Jobs, rec : Records]
      BY <1>1 DEF InstancesTyped
    <2>2. \A r \in Records : expired(r).st = r.st /\ expired(r).forced = r.forced
      BY DEF Records
    <2> HIDE DEF expired
    <2>3. \A t \in todo[i] : after(t).id = t.id /\ after(t).rec = expired(t.rec)
      BY <2>1
    <2>4. \A r \in Records : AtRest(r) => AtRest(expired(r))
      BY <2>2 DEF AtRest, IsTerminal
    <2> HIDE DEF after
    <2>5. QED
      BY <1>1, <2>1, <2>3, <2>4
  <1> HIDE DEF after
  <1>5. ASSUME NEW i \in Instances, NEW j, Due(todo'[i], j) PROVE Due(todo[i], j)
    BY <1>4, <1>5, SMTT(30) DEF Due
  <1>6. ASSUME NEW i \in Instances PROVE Tidy(i)'
    <2>1. TidyAt(phase[i], queue[i], retry[i], todo[i], Id(i))
      BY DEF TokenInv, TidyInv, Tidy
    <2>2. (todo[i] = {} => todo'[i] = {}) /\ \A t, u \in todo'[i] : t.id = u.id => t = u
      BY <1>4, <2>1, SMTT(30) DEF TidyAt
    <2>3. TidyAt(phase[i], queue[i], retry[i], todo'[i], Id(i))
      BY <1>5, <2>1, <2>2 DEF TidyAt
    <2>4. QED
      BY <1>1, <1>3, <2>3 DEF Tidy
  <1>7. ASSUME NEW i \in Instances, NEW j \in Jobs, Has(i, j)' PROVE Has(i, j)
    BY <1>1, <1>3, <1>5, <1>7 DEF Has
  <1>8. QED
    BY <1>1, <1>2, <1>6, <1>7, TokenStep

LEMMA InitTokens ==
    ASSUME Init
    PROVE  TokenInv
  <1>1. \A i \in Instances : phase[i] \in {"up", "down"} /\ todo[i] = {} /\ queue[i] = <<>> /\ retry[i] = {}
    BY DEF Init
  <1>2. \A p \in Procs : pc[p] = "idle" /\ Id(p) = NoJob
    BY DEF Init, Id, NoTask
  <1>3. \A i \in Instances : Id(i) = NoJob
    BY <1>2 DEF Procs
  <1>4. \A i \in Instances, j \in Jobs : ~Has(i, j)
    BY <1>1, <1>3, StoreAssumption, SMTT(30) DEF Has, InLine, Due
  <1>5. TidyAt("up", <<>>, {}, {}, NoJob)
    BY Cleared DEF TidyAt
  <1>6. TidyInv
    BY <1>1, <1>3, <1>5, Cleared DEF TidyInv, Tidy
  <1>7. QED
    BY <1>2, <1>4, <1>6 DEF TokenInv, PaidInv, MakersInv, MakerOK, Maker

LEMMA NextTokens ==
    ASSUME IInv, TokenInv, [Next]_vars
    PROVE  TokenInv'
  <1>1. ASSUME NEW p \in Procs, Step(p) PROVE TokenInv'
    BY <1>1, GotoTokens, PutTokens, BillTokens, CreateEnqueueTokens, AgainTokens DEF Step
  <1>2. ASSUME NEW p \in Requests, NEW j \in Jobs, NEW i \in Instances, Request(p, j, i) PROVE TokenInv'
    BY <1>2, CreateStartTokens, TakeTokens DEF Request
  <1>3. ASSUME NEW i \in Instances, Runtime(i) PROVE TokenInv'
    BY <1>3, RunJobTokens, RetryFiresTokens, StartTokens, RecoverJobTokens, StopTokens, ServeTokens
       DEF Runtime, RecoverFails, RecoverStops
  <1>4. ASSUME NEW i \in Instances, Crash(i) PROVE TokenInv'
    BY <1>4, StopTokens DEF Crash
  <1>5. ASSUME UNCHANGED <<bills, phase, todo, queue, retry, pc, task>> PROVE TokenInv'
    <2>1. \A p \in Procs : Id(p)' = Id(p)
      BY <1>5 DEF Id
    <2>2. \A i \in Instances : Id(i)' = Id(i)
      BY <2>1 DEF Procs
    <2>3. QED
      BY <1>5, <2>1, <2>2, TokenFrame
  <1>6. ASSUME NEW i \in Instances, Prune(i) PROVE TokenInv'
    BY <1>5, <1>6 DEF Prune, instance
  <1>7. ASSUME NEW j \in Jobs, RemoteEnds(j) PROVE TokenInv'
    BY <1>5, <1>7 DEF RemoteEnds, instance
  <1>8. ASSUME UNCHANGED vars PROVE TokenInv'
    BY <1>5, <1>8 DEF vars
  <1>9. QED
    BY <1>1, <1>2, <1>3, <1>4, <1>6, <1>7, <1>8, LeasesExpireTokens DEF Next

(* However timers, recoveries, requests and crashes interleave, an         *)
(* instance has a job at most once in its queue, its retry timers and the  *)
(* hands of its worker, so that two workers of one process never run the   *)
(* same job (RunJob, scheduleRetry, Recover).                              *)
THEOREM TokensAreUnique == Spec => []OneTokenPerInstance
  <1>1. TokenInv => OneTokenPerInstance
    <2> SUFFICES ASSUME TokenInv, NEW i \in Instances, NEW j \in Jobs,
                        NEW s \in Tokens(i, j), NEW t \in Tokens(i, j)
                 PROVE  s = t
      BY DEF OneTokenPerInstance
    <2>1. /\ \A k, l \in DOMAIN queue[i] : queue[i][k] = queue[i][l] => k = l
          /\ InLine(queue[i], j) => j \notin retry[i] /\ Id(i) # j
          /\ j \in retry[i] => Id(i) # j
      BY DEF TokenInv, TidyInv, Tidy, TidyAt
    <2>2. ASSUME NEW u \in Tokens(i, j)
          PROVE  \/ \E k \in DOMAIN queue[i] : queue[i][k] = j /\ u = <<"queue", k>>
                 \/ j \in retry[i] /\ u = <<"retry", j>>
                 \/ Id(i) = j /\ u = <<"worker", j>>
      BY <2>2, SMTT(30) DEF Tokens
    <2>3. QED
      BY <2>1, <2>2, SMTT(30) DEF InLine
  <1>2. Init => TokenInv
    BY InitTokens
  <1>3. IInv /\ TokenInv /\ [Next]_vars => TokenInv'
    BY NextTokens
  <1>4. QED
    BY <1>1, <1>2, <1>3, JobsKeepInvariant, PTL DEF Spec
=============================================================================
