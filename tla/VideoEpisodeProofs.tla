------------------------- MODULE VideoEpisodeProofs -------------------------
(***************************************************************************)
(* Theorems about VideoEpisode, for one gateway process and one episode,   *)
(* any number of shots, requests, narration lengths, crashes and faults.   *)
(* With a second process over the store they do not hold: the lease is not *)
(* renewed during an episode, so the two may run it together.              *)
(*                                                                         *)
(* Before them, the steps that VideoEpisodeWorkerProofs leaves out: the    *)
(* settlement, the requests of clients and operators, the claim, retries,  *)
(* crashes, recovery and the expiry of leases.                             *)
(***************************************************************************)
EXTENDS VideoEpisodeWorkerProofs

USE ZenonT(30)

(* The settlement agrees with the shots, and is repeated as it was. *)
LEMMA BillIs ==
    ASSUME NEW w, NEW j, One(w, j), EpisodeInv(w, j), NEW h, AllClips(h), Paid(h, bills[j]), BillEpisode(j, h)
    PROVE  /\ Paid(h, bills'[j]) /\ Billed(h, bills'[j])
           /\ bills' = [x \in Jobs |-> [state |-> bills'[x].state, actual |-> bills'[x].actual]]
<1>1. bills = [x \in Jobs |-> [state |-> bills[x].state, actual |-> bills[x].actual]] /\ j \in Jobs
  BY DEF EpisodeInv, Shape, One
<1>2. CASE Reported(h)
  <2> DEFINE b == [state |-> "actual", actual |-> Total(h)]
  <2>1. bills' = [bills EXCEPT ![j] = b]
    BY <1>2 DEF BillEpisode, SettleActual, AfterActual
  <2>2. b = [state |-> b.state, actual |-> b.actual] /\ b.state = "actual" /\ b.actual = Total(h)
    OBVIOUS
  <2>3. Billed(h, b)
    BY <1>2 DEF Billed
  <2> HIDE DEF b
  <2>4. /\ bills'[j] = b
        /\ bills' = [x \in Jobs |-> [state |-> bills'[x].state, actual |-> bills'[x].actual]]
    BY <1>1, <2>1, <2>2
  <2> QED
    BY <1>2, <2>2, <2>3, <2>4 DEF Paid
<1>3. CASE ~Reported(h)
  <2> DEFINE b == AfterEstimate(bills[j])
  <2>1. bills' = [bills EXCEPT ![j] = b]
    BY <1>3 DEF BillEpisode, SettleEstimate
  <2>2. bills[j].state # "actual"
    BY <1>3 DEF Paid
  <2>3. bills[j] = [state |-> bills[j].state, actual |-> bills[j].actual]
    BY <1>1
  <2>4. b = [state |-> "estimate", actual |-> bills[j].actual]
    <3>1. CASE Settled(bills[j])
      <4>1. bills[j].state = "estimate" /\ b = bills[j]
        BY <2>2, <3>1 DEF Settled, AfterEstimate
      <4> QED
        BY <2>3, <4>1
    <3>2. CASE ~Settled(bills[j])
      BY <2>3, <3>2, SMTT(30) DEF AfterEstimate
    <3> QED
      BY <3>1, <3>2
  <2> HIDE DEF b
  <2>5. b = [state |-> b.state, actual |-> b.actual] /\ b.state = "estimate"
    BY <2>4
  <2>6. /\ bills'[j] = b
        /\ bills' = [x \in Jobs |-> [state |-> bills'[x].state, actual |-> bills'[x].actual]]
    BY <1>1, <2>1, <2>5
  <2>7. Paid(h, b)
    BY <2>5 DEF Paid
  <2>8. Billed(h, b)
    BY <1>3, <2>5 DEF Billed
  <2> QED
    BY <2>6, <2>7, <2>8
<1> QED
  BY <1>2, <1>3

LEMMA SettleEpisodeKeeps ==
    ASSUME NEW w, NEW j, One(w, j), EpisodeInv(w, j), SettleEpisode(w)
    PROVE  EpisodeInv(w, j)' /\ Kept(j)
<1> DEFINE h == Held(w)
           s == jobs[j]
           x == As(h, "completed")
<1>1. pc[w] = "settleEpisode" /\ UNCHANGED <<jobs, instance, submissions>>
  BY DEF SettleEpisode, Is, provider
<1>2. Id(w) = j
  BY <1>1, Hands
<1>3. \/ BillEpisode(j, h) /\ (Move(w, "completeEpisode", x) \/ Goto(w, "idle") \/ Goto(w, "unsettledEpisode"))
      \/ UNCHANGED bills /\ Goto(w, "unsettledEpisode")
  <2>1. \/ BillEpisode(Id(w), h) /\ (Move(w, "completeEpisode", x) \/ Goto(w, "idle") \/ Goto(w, "unsettledEpisode"))
        \/ UNCHANGED bills /\ Goto(w, "unsettledEpisode")
    BY DEF SettleEpisode
  <2> QED
    BY <1>2, <2>1
<1>4. pc[w] \in Composing /\ pc[w] \notin {"completeEpisode", "giveUp", "tryAgain", "idle"}
  BY <1>1 DEF Composing
<1>5. /\ Sound(h, s, submissions, bills[j]) /\ AllClips(h) /\ Made(h) /\ h \in EpisodeRecords
      /\ h.st # "completed" /\ h.comp <= 2 + crashes /\ h.comp <= 3 + crashes /\ crashes \in Nat
      /\ ~IsTerminal(s) => s.shots = h.shots
      /\ Low(s, crashes) /\ h.subs \in {0, h.narr}
  BY <1>4, Composed
<1>6. CASE UNCHANGED bills /\ Goto(w, "unsettledEpisode")
  <2>1. "unsettledEpisode" \in Composing \cup Plain /\ Counts("unsettledEpisode", h, crashes)
        /\ Move(w, "unsettledEpisode", h)
    BY <1>5, <1>6 DEF Composing, Counts, Goto
  <2>2. UNCHANGED <<jobs, bills, instance, submissions>>
    BY <1>1, <1>6
  <2> QED
    BY <1>4, <1>5, <2>1, <2>2, Composes
<1>7. CASE BillEpisode(j, h) /\ (Move(w, "completeEpisode", x) \/ Goto(w, "idle") \/ Goto(w, "unsettledEpisode"))
  <2> DEFINE b == bills'[j]
  <2>1. /\ Paid(h, b) /\ Billed(h, b)
        /\ bills' = [y \in Jobs |-> [state |-> bills'[y].state, actual |-> bills'[y].actual]]
    BY <1>5, <1>7, BillIs DEF Sound
  <2> HIDE DEF b
  <2>2. Sound(h, s, submissions, b)
    BY <1>5, <2>1 DEF Sound
  <2>3. InStore(s, submissions, b, crashes)
    <3>1. InStore(s, submissions, bills[j], crashes) /\ s.st # "completed"
      BY <1>5 DEF EpisodeInv, Sound
    <3>2. ~IsTerminal(s) => Paid(s, b)
      BY <1>5, <2>1, Alike DEF Paid
    <3> QED
      BY <3>1, <3>2 DEF InStore
  <2>4. ASSUME NEW l \in WorkerLabels, NEW r, Move(w, l, r),
               l # "idle" => AtWork(l, r, s, submissions, b, crashes)
        PROVE  EpisodeInv(w, j)'
    <3>1. /\ jobs' = jobs /\ phase' = phase /\ todo' = todo /\ queue' = queue
          /\ retry' = retry /\ crashes' = crashes /\ submissions' = submissions
      BY <1>1 DEF instance
    <3>2. /\ jobs = [y \in Jobs |-> jobs[y]] /\ submissions \in [1..Shots -> {0, 1}]
          /\ retry \in [Instances -> SUBSET Jobs] /\ retry[w] = {}
      BY <1>4 DEF EpisodeInv, Shape, OneHand
    <3>3. InStore(s, submissions, bills'[j], crashes) /\ (l # "idle" => AtWork(l, r, s, submissions, bills'[j], crashes))
      BY <2>3, <2>4 DEF b
    <3> QED
      BY <1>4, <1>5, <2>1, <2>4, <3>1, <3>2, <3>3, WorkerGoes
  <2>5. Kept(j)
    BY <1>1, KeptAsItIs
  <2>6. CASE Move(w, "completeEpisode", x)
    <3>1. Otherwise(x, h) /\ x.st = "completed"
      BY <1>5, AsIs DEF JobStates
    <3>2. Move(w, "completeEpisode", x)
      BY <2>6
    <3> HIDE DEF x
    <3>3. x.shots = h.shots /\ x.comp <= 2 + crashes /\ x.comp <= 3 + crashes /\ x \in EpisodeRecords
      BY <1>5, <3>1 DEF Otherwise
    <3>4. Sound(x, s, submissions, b)
      BY <1>5, <2>2, <3>1, Otherwise2
    <3>5. Billed(x, b) /\ AllClips(x)
      BY <1>5, <2>1, <3>3, Alike DEF Billed
    <3>6. Placed("completeEpisode", x, submissions, b) /\ Counts("completeEpisode", x, crashes)
          /\ (~IsTerminal(s) => Behind("completeEpisode", x, s))
      BY <1>5, <3>3, <3>5 DEF Placed, Counts, Behind, Sent
    <3>7. AtWork("completeEpisode", x, s, submissions, b, crashes) /\ "completeEpisode" \in WorkerLabels
      BY <3>4, <3>6 DEF AtWork, WorkerLabels, Composing
    <3> QED
      BY <2>4, <2>5, <3>2, <3>7
  <2>7. CASE Goto(w, "idle")
    BY <2>4, <2>5, <2>7 DEF Goto, WorkerLabels
  <2>8. CASE Goto(w, "unsettledEpisode")
    <3>1. "unsettledEpisode" \in Composing \cup Plain /\ Counts("unsettledEpisode", h, crashes)
          /\ Move(w, "unsettledEpisode", h)
      BY <1>5, <2>8 DEF Composing, Counts, Goto
    <3>2. AtWork("unsettledEpisode", h, s, submissions, b, crashes) /\ "unsettledEpisode" \in WorkerLabels
      BY <1>5, <2>2, <3>1, ComposedPlace
    <3> QED
      BY <2>4, <2>5, <3>1, <3>2
  <2> QED
    BY <1>7, <2>6, <2>7, <2>8
<1> QED
  BY <1>3, <1>6, <1>7

LEMMA PutEpisodeKeeps ==
    ASSUME NEW w, NEW j, One(w, j), EpisodeInv(w, j), PutEpisode(w)
    PROVE  EpisodeInv(w, j)' /\ Kept(j)
<1> DEFINE h == Held(w)
<1>1. UNCHANGED Unmarked
  BY DEF PutEpisode
<1>2. CASE pc[w] = "unsettledEpisode" /\ Update(w, h, {"again"}, "idle")
  <2>1. pc[w] \in Composing /\ pc[w] \notin {"completeEpisode", "giveUp", "tryAgain"}
    BY <1>2 DEF Composing
  <2>2. /\ h \in EpisodeRecords /\ h.subs \in {0, h.narr} /\ h.st # "completed"
        /\ h.comp <= 2 + crashes /\ h.comp <= 3 + crashes
    BY <2>1, Composed
  <2>3. {"again"} \in SUBSET (Composing \cup Plain) /\ \A m \in {"again"} : m # "completeEpisode" /\ Counts(m, h, crashes)
    BY <2>2 DEF Plain, Counts
  <2> QED
    BY <1>1, <1>2, <2>1, <2>2, <2>3, CompositionPuts
<1>3. CASE pc[w] = "completeEpisode" /\ Update(w, h, {"idle"}, "idle")
  <2>1. /\ AtWork("completeEpisode", h, jobs[j], submissions, bills[j], crashes)
        /\ Sound(h, jobs[j], submissions, bills[j]) /\ h.comp <= 3 + crashes
    BY <1>3, Busy
  <2>2. Billed(h, bills[j])
    BY <2>1 DEF AtWork, Placed
  <2>3. /\ {"idle"} \in SUBSET WorkerLabels /\ {"idle"} \subseteq {"idle", "giveUp", "bill"}
        /\ \A l \in {"idle"} : l # "idle" => AtWork(l, h, h, submissions, bills[j], crashes)
        /\ pc[w] # "idle"
    BY <1>3 DEF WorkerLabels
  <2> QED
    BY <1>1, <1>3, <2>1, <2>2, <2>3, WorkerUpdates
<1> QED
  BY <1>2, <1>3 DEF PutEpisode, Is

LEMMA AgainKeeps ==
    ASSUME NEW w, NEW j, One(w, j), EpisodeInv(w, j), Again(w)
    PROVE  EpisodeInv(w, j)' /\ Kept(j)
<1>1. /\ pc[w] = "again" /\ ScheduleRetry(w, Id(w)) /\ Goto(w, "idle")
      /\ UNCHANGED <<jobs, bills, phase, todo, queue, provider, crashes>>
  BY NotOfTheWorker DEF Again, Is
<1>2. /\ jobs' = jobs /\ bills' = bills /\ phase' = phase /\ todo' = todo /\ queue' = queue
      /\ crashes' = crashes /\ submissions' = submissions
  BY <1>1 DEF provider
<1>3. Id(w) = j /\ w \in Instances /\ j \in Jobs
  BY <1>1, Hands
<1>4. Low(jobs[j], crashes)
  BY <1>1, Busy
<1>5. /\ jobs = [x \in Jobs |-> jobs[x]]
      /\ bills = [x \in Jobs |-> [state |-> bills[x].state, actual |-> bills[x].actual]]
      /\ submissions \in [1..Shots -> {0, 1}] /\ retry \in [Instances -> SUBSET Jobs]
      /\ InStore(jobs[j], submissions, bills[j], crashes)
  BY DEF EpisodeInv, Shape
<1>6. retry' \in [Instances -> SUBSET Jobs]
  BY <1>1, <1>3, <1>5 DEF ScheduleRetry
<1>7. "idle" \in WorkerLabels /\ Move(w, "idle", Held(w)) /\ pc[w] # "idle"
  BY <1>1 DEF WorkerLabels, Goto
<1>8. EpisodeInv(w, j)'
  BY <1>2, <1>4, <1>5, <1>6, <1>7, WorkerGoes
<1> QED
  BY <1>2, <1>8, KeptAsItIs

(* The ledger calls that end an operation leave a settled row alone. *)
LEMMA BillEnds ==
    ASSUME NEW w, NEW j, One(w, j), EpisodeInv(w, j), Release(j) \/ SettleEstimate(j) \/ UNCHANGED bills
    PROVE  /\ bills' = [x \in Jobs |-> [state |-> bills'[x].state, actual |-> bills'[x].actual]]
           /\ Settled(bills[j]) \/ bills'[j].state = "actual" => bills'[j] = bills[j]
<1> DEFINE b == bills[j]
<1>1. bills = [x \in Jobs |-> [state |-> bills[x].state, actual |-> bills[x].actual]] /\ j \in Jobs
  BY DEF EpisodeInv, Shape, One
<1>2. b = [state |-> b.state, actual |-> b.actual]
  BY <1>1
<1>3. ASSUME NEW c, c = b \/ (~Settled(b) /\ \E v \in {"released", "estimate"} : c = [b EXCEPT !.state = v]),
             bills' = [bills EXCEPT ![j] = c]
      PROVE  /\ bills' = [x \in Jobs |-> [state |-> bills'[x].state, actual |-> bills'[x].actual]]
             /\ Settled(bills[j]) \/ bills'[j].state = "actual" => bills'[j] = bills[j]
  <2> HIDE DEF b
  <2>1. c = b \/ (~Settled(b) /\ \E v \in {"released", "estimate"} : c = [state |-> v, actual |-> b.actual])
    BY <1>2, <1>3, SMTT(30)
  <2>2. c = [state |-> c.state, actual |-> c.actual] /\ (Settled(b) \/ c.state = "actual" => c = b)
    <3>1. CASE c = b
      BY <1>2, <3>1
    <3>2. ASSUME ~Settled(b), NEW v \in {"released", "estimate"}, c = [state |-> v, actual |-> b.actual]
          PROVE  c = [state |-> c.state, actual |-> c.actual] /\ (Settled(b) \/ c.state = "actual" => c = b)
      <4>1. c.state = v /\ c.actual = b.actual
        BY <3>2
      <4> QED
        BY <3>2, <4>1
    <3> QED
      BY <2>1, <3>1, <3>2
  <2>3. bills'[j] = c
    BY <1>1, <1>3
  <2>4. bills' = [x \in Jobs |-> [state |-> bills'[x].state, actual |-> bills'[x].actual]]
    BY <1>1, <1>3, <2>2
  <2> QED
    BY <2>2, <2>3, <2>4 DEF b
<1>4. CASE Release(j)
  <2> DEFINE c == AfterRelease(b)
  <2>1. bills' = [bills EXCEPT ![j] = c]
    BY <1>4 DEF Release
  <2>2. c = b \/ (~Settled(b) /\ \E v \in {"released", "estimate"} : c = [b EXCEPT !.state = v])
    BY DEF AfterRelease, Settled
  <2> HIDE DEF c
  <2> QED
    BY <1>3, <2>1, <2>2
<1>5. CASE SettleEstimate(j)
  <2> DEFINE c == AfterEstimate(b)
  <2>1. bills' = [bills EXCEPT ![j] = c]
    BY <1>5 DEF SettleEstimate
  <2>2. c = b \/ (~Settled(b) /\ \E v \in {"released", "estimate"} : c = [b EXCEPT !.state = v])
    BY DEF AfterEstimate
  <2> HIDE DEF c
  <2> QED
    BY <1>3, <2>1, <2>2
<1>6. CASE UNCHANGED bills
  BY <1>1, <1>6
<1> QED
  BY <1>4, <1>5, <1>6

LEMMA EndBillKeeps ==
    ASSUME NEW w, NEW j, One(w, j), EpisodeInv(w, j), EndBill(w)
    PROVE  EpisodeInv(w, j)' /\ Kept(j)
<1> DEFINE s == jobs[j]
<1>1. /\ pc[w] # "idle" /\ Goto(w, "idle") /\ UNCHANGED <<jobs, instance, submissions>>
      /\ Release(Id(w)) \/ SettleEstimate(Id(w)) \/ UNCHANGED bills
  BY DEF EndBill, Is, provider
<1>2. Id(w) = j
  BY <1>1, Hands
<1>3. Release(j) \/ SettleEstimate(j) \/ UNCHANGED bills
  BY <1>1, <1>2
<1>4. /\ bills' = [x \in Jobs |-> [state |-> bills'[x].state, actual |-> bills'[x].actual]]
      /\ Settled(bills[j]) \/ bills'[j].state = "actual" => bills'[j] = bills[j]
  BY <1>3, BillEnds
<1>5. /\ jobs' = jobs /\ phase' = phase /\ todo' = todo /\ queue' = queue
      /\ retry' = retry /\ crashes' = crashes /\ submissions' = submissions
  BY <1>1 DEF instance
<1>6. /\ jobs = [x \in Jobs |-> jobs[x]] /\ submissions \in [1..Shots -> {0, 1}]
      /\ retry \in [Instances -> SUBSET Jobs] /\ retry[w] = {}
      /\ InStore(s, submissions, bills[j], crashes)
  BY <1>1 DEF EpisodeInv, Shape, OneHand
<1>7. s.st # "completed"
  BY <1>1 DEF EpisodeInv, Working, AtWork, Sound
<1>8. InStore(s, submissions, bills'[j], crashes)
  BY <1>4, <1>6, <1>7 DEF InStore, Paid
<1>9. "idle" \in WorkerLabels /\ Move(w, "idle", Held(w))
  BY <1>1 DEF WorkerLabels, Goto
<1>10. EpisodeInv(w, j)'
  BY <1>1, <1>4, <1>5, <1>6, <1>8, <1>9, WorkerGoes
<1> QED
  BY <1>5, <1>10, KeptAsItIs

-----------------------------------------------------------------------------
(* The requests: Cancel and ForceFail. *)
LEMMA TombIs ==
    ASSUME NEW r \in EpisodeRecords, r.st \notin {"composing", "completed"}, IsTerminal(r)
    PROVE  Ended(Tomb(r))
<1> DEFINE x == Tomb(r)
<1>1. /\ r.st \in JobStates /\ r.pid \in (1..Shots) \cup {NoJob} /\ r.forced \in BOOLEAN
      /\ r.owner \in Instances \cup {NoOwner, Former}
  BY DEF EpisodeRecords
<1>2. 0 \in 0..Shots /\ 0 \in Nat
  BY ShotRange, SMT
<1>3. NewShot \in ShotRecords /\ NewShot.st = "queued" /\ NewShot.pid = NoJob /\ NewShot.clip = FALSE
  BY DEF NewShot, ShotRecords, ShotStates
<1>4. [k \in 1..Shots |-> NewShot] \in [1..Shots -> ShotRecords]
  BY <1>3
<1>5. /\ Episode \in EpisodeRecords /\ Episode.comp = 0 /\ Episode.subs = 0
      /\ \A k \in 1..Shots : Episode.shots[k] = NewShot
  BY <1>2, <1>4 DEF Episode, EpisodeRecords, JobStates
<1>6. x \in EpisodeRecords
  BY <1>1, <1>5 DEF Tomb, EpisodeRecords
<1>7. x.st = r.st /\ x.forced = r.forced
  BY <1>5 DEF Tomb, EpisodeRecords
<1>8. x.comp = Episode.comp /\ x.subs = Episode.subs /\ x.shots = Episode.shots
  BY <1>5 DEF Tomb, EpisodeRecords
<1> HIDE DEF x
<1>9. \A k \in 1..Shots : ShotMade(x.shots[k], k)
  BY <1>3, <1>5, <1>8 DEF ShotMade
<1>10. \A k \in 2..Shots : k \in 1..Shots
  BY ShotRange, SMT
<1>11. Made(x)
  BY <1>3, <1>5, <1>6, <1>7, <1>8, <1>9, <1>10 DEF Made
<1> QED
  BY <1>5, <1>7, <1>8, <1>11 DEF Ended, IsTerminal, x

LEMMA ForcedIs ==
    ASSUME NEW r \in EpisodeRecords
    PROVE  Ended(ForcedEpisode(r))
<1> DEFINE x == Forced(r)
<1>1. x \in EpisodeRecords /\ x.st = "failed" /\ x.forced = TRUE
  BY DEF EpisodeRecords, JobStates, Forced, As
<1> HIDE DEF x
<1>2. Ended(Tomb(x))
  BY <1>1, TombIs DEF IsTerminal
<1> QED
  BY <1>2 DEF ForcedEpisode, x

LEMMA CancelledIs ==
    ASSUME NEW r \in EpisodeRecords
    PROVE  Ended(Tomb(As(r, "cancelled")))
<1> DEFINE x == As(r, "cancelled")
<1>1. x \in EpisodeRecords /\ x.st = "cancelled"
  BY AsIs DEF JobStates, Otherwise
<1> HIDE DEF x
<1>2. Ended(Tomb(x))
  BY <1>1, TombIs DEF IsTerminal
<1> QED
  BY <1>2 DEF x

(* A request that leaves the store, the ledger and the process alone. *)
LEMMA RequestTurns ==
    ASSUME NEW w, NEW j, One(w, j), EpisodeInv(w, j), NEW p \in Requests, pc[p] # "idle",
           NEW l \in RequestLabels \ {"forceRead"}, NEW r, Move(p, l, r), l # "idle" => Ended(r),
           UNCHANGED <<jobs, bills, instance, submissions>>
    PROVE  EpisodeInv(w, j)' /\ Kept(j)
<1>1. /\ jobs' = jobs /\ bills' = bills
      /\ jobs = [x \in Jobs |-> jobs[x]]
      /\ bills = [x \in Jobs |-> [state |-> bills[x].state, actual |-> bills[x].actual]]
  BY DEF EpisodeInv, Shape
<1>2. EpisodeInv(w, j)'
  BY <1>1, RequestGoes
<1> QED
  BY <1>1, <1>2, KeptAsItIs

LEMMA RequestKeeps ==
    ASSUME NEW w, NEW j, One(w, j), EpisodeInv(w, j), NEW p \in Requests,
           \/ EndBill(p) \/ CancelAtProvider(p) \/ CancelPut(p) \/ ForceReadAs(p, ForcedEpisode) \/ ForcePut(p)
    PROVE  EpisodeInv(w, j)' /\ Kept(j)
<1>1. pc[p] # "idle" => Id(p) = j
  BY Hands
<1>2. pc[p] \notin {"idle", "forceRead"} => Ended(Held(p))
  BY DEF EpisodeInv, Serving
<1>3. /\ "idle" \in RequestLabels \ {"forceRead"} /\ "cancelPut" \in RequestLabels \ {"forceRead"}
      /\ "forcePut" \in RequestLabels \ {"forceRead"}
      /\ {"forceRelease"} \in SUBSET (RequestLabels \ {"forceRead"})
      /\ {"bill"} \in SUBSET (RequestLabels \ {"forceRead"}) /\ {"release"} \in SUBSET (RequestLabels \ {"forceRead"})
  BY DEF RequestLabels
<1>4. CASE EndBill(p)
  <2>1. /\ pc[p] # "idle" /\ Goto(p, "idle") /\ UNCHANGED <<jobs, instance, submissions>>
        /\ Release(Id(p)) \/ SettleEstimate(Id(p)) \/ UNCHANGED bills
    BY <1>4 DEF EndBill, Is, provider
  <2>2. Release(j) \/ SettleEstimate(j) \/ UNCHANGED bills
    BY <1>1, <2>1
  <2>3. /\ bills' = [x \in Jobs |-> [state |-> bills'[x].state, actual |-> bills'[x].actual]]
        /\ Settled(bills[j]) \/ bills'[j].state = "actual" => bills'[j] = bills[j]
    BY <2>2, BillEnds
  <2>4. jobs = [x \in Jobs |-> jobs[x]] /\ jobs' = jobs /\ UNCHANGED <<instance, submissions>>
    BY <2>1 DEF EpisodeInv, Shape
  <2>5. Move(p, "idle", Held(p))
    BY <2>1 DEF Goto
  <2>6. EpisodeInv(w, j)'
    BY <1>3, <2>1, <2>3, <2>4, <2>5, RequestGoes
  <2> QED
    BY <2>4, <2>6, KeptAsItIs
<1>5. CASE CancelAtProvider(p)
  <2>1. /\ pc[p] = "cancelRemote" /\ UNCHANGED <<jobs, bills, instance, submissions>>
        /\ Move(p, "idle", Held(p)) \/ Move(p, "cancelPut", Held(p))
    BY <1>5 DEF CancelAtProvider, Is, Goto
  <2> QED
    BY <1>2, <1>3, <2>1, RequestTurns
<1>6. CASE CancelPut(p)
  <2>1. pc[p] = "cancelPut" /\ UNCHANGED Unmarked
    BY <1>6 DEF CancelPut, Is, Unmarked
  <2>2. CASE HasId(Held(p))
    <3>1. Update(p, Held(p), {"bill"}, "idle")
      BY <1>6, <2>2 DEF CancelPut
    <3> QED
      BY <1>3, <2>1, <3>1, RequestUpdates
  <2>3. CASE ~HasId(Held(p))
    <3>1. Update(p, Held(p), {"release"}, "idle")
      BY <1>6, <2>3 DEF CancelPut
    <3> QED
      BY <1>3, <2>1, <3>1, RequestUpdates
  <2> QED
    BY <2>2, <2>3
<1>7. CASE ForceReadAs(p, ForcedEpisode)
  <2>1. pc[p] = "forceRead" /\ UNCHANGED <<jobs, bills, instance, submissions>>
    BY <1>7 DEF ForceReadAs, Is, provider
  <2>2. Move(p, "idle", Held(p)) \/ Move(p, "forcePut", ForcedEpisode(jobs[Id(p)]))
    BY <1>7 DEF ForceReadAs, Goto
  <2>3. jobs[j] \in EpisodeRecords
    BY Hands
  <2>4. Ended(ForcedEpisode(jobs[Id(p)]))
    BY <1>1, <2>1, <2>3, ForcedIs
  <2> QED
    BY <1>3, <2>1, <2>2, <2>4, RequestTurns
<1>8. CASE ForcePut(p)
  <2>1. pc[p] = "forcePut" /\ UNCHANGED Unmarked /\ Update(p, Held(p), {"forceRelease"}, "idle")
    BY <1>8 DEF ForcePut, Is, Unmarked
  <2> QED
    BY <1>3, <2>1, RequestUpdates
<1> QED
  BY <1>4, <1>5, <1>6, <1>7, <1>8

(* ForceFail has no record yet, Cancel has the one that ends the episode. *)
Begun(l, r) == (l = "forceRead" => r = NoJob) /\ (l # "forceRead" => Ended(r))
LEMMA RequestBegins ==
    ASSUME NEW w, NEW j, One(w, j), EpisodeInv(w, j), NEW p, NEW jj \in Jobs, NEW i \in Instances,
           NEW l, NEW r, Take(p, jj, i, l, r), l \in RequestLabels, l # "idle",
           Begun(l, r),
           UNCHANGED <<jobs, bills, instance, submissions>>
    PROVE  EpisodeInv(w, j)' /\ Kept(j)
<1> DEFINE T == [id |-> j, rec |-> r, home |-> w]
<1>1. /\ p \in Requests /\ phase[w] = "up" /\ pc' = [pc EXCEPT ![p] = l] /\ task' = [task EXCEPT ![p] = T]
  BY VideoAssumption DEF One, Take
<1>2. /\ p \in Procs /\ p # w /\ w \in Procs /\ \A q \in Requests : q \in Procs
  BY <1>1, Hands
<1>3. /\ T = [id |-> T.id, rec |-> T.rec, home |-> T.home] /\ T.id = j /\ T.rec = r /\ T.home = w
  OBVIOUS
<1> HIDE DEF T
<1>4. /\ pc = [q \in Procs |-> pc[q]] /\ task = [q \in Procs |-> task[q]]
      /\ \A q \in Procs : task[q] = [id |-> task[q].id, rec |-> task[q].rec, home |-> task[q].home]
  BY DEF EpisodeInv, Shape
<1>5. pc'[p] = l /\ task'[p] = T /\ \A q \in Procs : q # p => pc'[q] = pc[q] /\ task'[q] = task[q]
  BY <1>1, <1>2, <1>4
<1>6. pc' = [q \in Procs |-> pc'[q]] /\ task' = [q \in Procs |-> task'[q]]
  BY <1>1, <1>4
<1>7. \A q \in Procs : task'[q] = [id |-> task'[q].id, rec |-> task'[q].rec, home |-> task'[q].home]
  BY <1>3, <1>4, <1>5
<1>8. task' = [q \in Procs |-> [id |-> task'[q].id, rec |-> task'[q].rec, home |-> task'[q].home]]
  BY <1>6, <1>7
<1>9. \A q \in Procs : /\ pc'[q] = "idle" => task'[q] = NoTask
                       /\ pc'[q] # "idle" => task'[q].id = j /\ task'[q].home = w
  BY <1>3, <1>5 DEF EpisodeInv, Shape
<1>10. /\ jobs' = jobs /\ bills' = bills /\ phase' = phase /\ todo' = todo /\ queue' = queue
       /\ retry' = retry /\ crashes' = crashes /\ submissions' = submissions
  BY DEF instance
<1>11. Shape(w, j)'
  BY <1>6, <1>8, <1>9, <1>10 DEF EpisodeInv, Shape
<1>12. pc'[w] = pc[w] /\ task'[w] = task[w]
  BY <1>2, <1>5
<1>13. OneHand(w, j)'
  BY <1>1, <1>10, <1>12 DEF EpisodeInv, OneHand
<1>14. Working(w, j)'
  BY <1>10, <1>12 DEF EpisodeInv, Working, Held
<1>15. ASSUME NEW q \in Requests
       PROVE  /\ pc'[q] \in RequestLabels
              /\ pc'[q] = "forceRead" => task'[q].rec = NoJob
              /\ pc'[q] \notin {"idle", "forceRead"} => Ended(task'[q].rec)
  <2>1. CASE q = p
    <3>1. pc'[q] = l /\ task'[q].rec = r
      BY <1>3, <1>5, <2>1
    <3>2. (l = "forceRead" => r = NoJob) /\ (l # "forceRead" => Ended(r))
      BY DEF Begun
    <3> QED
      BY <3>1, <3>2
  <2>2. CASE q # p
    <3>1. pc'[q] = pc[q] /\ task'[q].rec = task[q].rec
      BY <1>2, <1>5, <2>2
    <3> QED
      BY <3>1 DEF EpisodeInv, Serving, Held
  <2> QED
    BY <2>1, <2>2
<1>16. Serving'
  BY <1>15 DEF Serving, Held
<1>17. InStore(jobs[j], submissions, bills[j], crashes)' /\ (GivenUp(w) \/ Low(jobs[j], crashes))'
  BY <1>10, <1>12 DEF EpisodeInv, GivenUp
<1>18. EpisodeInv(w, j)'
  BY <1>11, <1>13, <1>14, <1>16, <1>17 DEF EpisodeInv
<1> QED
  BY <1>10, <1>18, KeptAsItIs

LEMMA CancelEpisodeKeeps ==
    ASSUME NEW w, NEW j, One(w, j), EpisodeInv(w, j), NEW p, NEW jj \in Jobs, NEW i \in Instances,
           CancelEpisode(p, jj, i)
    PROVE  EpisodeInv(w, j)' /\ Kept(j)
<1> DEFINE r == Tomb(As(jobs[jj], "cancelled"))
           l == IF HasId(jobs[jj]) THEN "cancelRemote" ELSE "cancelPut"
<1>1. Take(p, jj, i, l, r) /\ UNCHANGED <<jobs, bills, instance, submissions>>
  BY DEF CancelEpisode, CancelAs, provider
<1>2. jj = j /\ jobs[j] \in EpisodeRecords
  BY Hands DEF One
<1>3. Ended(r)
  BY <1>2, CancelledIs
<1>4. l \in {"cancelRemote", "cancelPut"}
  OBVIOUS
<1> HIDE DEF r, l
<1>5. l \in RequestLabels /\ l # "idle" /\ Begun(l, r)
  BY <1>3, <1>4 DEF RequestLabels, Begun
<1> QED
  BY <1>1, <1>5, RequestBegins

LEMMA ForceFailKeeps ==
    ASSUME NEW w, NEW j, One(w, j), EpisodeInv(w, j), NEW p, NEW jj \in Jobs, NEW i \in Instances,
           ForceFail(p, jj, i)
    PROVE  EpisodeInv(w, j)' /\ Kept(j)
<1> DEFINE l == "forceRead"
           r == NoJob
<1>1. Take(p, jj, i, l, r) /\ UNCHANGED <<jobs, bills, instance, submissions>>
  BY DEF ForceFail
<1>2. l \in RequestLabels /\ l # "idle" /\ Begun(l, r)
  BY DEF RequestLabels, Begun
<1> HIDE DEF l, r
<1> QED
  BY <1>1, <1>2, RequestBegins

(* A step of the worker, and one of a request. *)
LEMMA StepKeeps ==
    ASSUME NEW w, NEW j, One(w, j), EpisodeInv(w, j), NEW p \in Procs, EpisodeStep(p)
    PROVE  EpisodeInv(w, j)' /\ Kept(j)
<1>1. p = w \/ p \in Requests
  BY Hands
<1>2. CASE p = w
  <2>1. EpisodeStep(w)
    BY <1>2
  <2>2. ~(CancelAtProvider(w) \/ CancelPut(w) \/ ForceReadAs(w, ForcedEpisode) \/ ForcePut(w))
    BY NotOfTheWorker DEF CancelAtProvider, CancelPut, ForceReadAs, ForcePut, Is
  <2> QED
    BY <2>1, <2>2, AdmitEpisodeKeeps, ReadShotKeeps, SubmitShotKeeps, GetShotKeeps, PutShotKeeps,
       StageKeeps, NarrateKeeps, CaptionKeeps, RenderKeeps, PutCompositionKeeps, CommitEpisodeKeeps,
       SettleEpisodeKeeps, PutEpisodeKeeps, SaveKeeps, DropKeeps, PutPolledKeeps, AgainKeeps,
       PutEndKeeps, EndBillKeeps DEF EpisodeStep
<1>3. CASE p \in Requests
  <2>1. pc[p] \in RequestLabels
    BY <1>3 DEF EpisodeInv, Serving
  <2>2. ~(AdmitEpisode(p) \/ ReadShot(p) \/ SubmitShot(p) \/ GetShot(p) \/ PutShot(p))
    BY <2>1 DEF AdmitEpisode, ReadShot, SubmitShot, GetShot, PutShot, Is, RequestLabels
  <2>3. ~(Stage(p) \/ Narrate(p) \/ Caption(p) \/ Render(p) \/ PutComposition(p))
    BY <2>1 DEF Stage, Narrate, Caption, Render, PutComposition, Is, RequestLabels
  <2>4. ~(CommitEpisode(p) \/ SettleEpisode(p) \/ PutEpisode(p))
    BY <2>1 DEF CommitEpisode, SettleEpisode, PutEpisode, Is, RequestLabels
  <2>5. ~(Save(p) \/ Drop(p) \/ PutPolled(p) \/ Again(p) \/ PutEnd(p))
    BY <2>1 DEF Save, Drop, PutPolled, Again, PutEnd, Is, RequestLabels
  <2>6. EndBill(p) \/ CancelAtProvider(p) \/ CancelPut(p) \/ ForceReadAs(p, ForcedEpisode) \/ ForcePut(p)
    BY <2>2, <2>3, <2>4, <2>5 DEF EpisodeStep
  <2> QED
    BY <1>3, <2>6, RequestKeeps
<1> QED
  BY <1>1, <1>2, <1>3
----------------------------------------------------------------------------
(* The process: a record with another lease is the same for all purposes. *)
Like(x, r) == Otherwise(x, r) /\ x.st = r.st /\ x.forced = r.forced

LEMMA OwnerIs ==
    ASSUME NEW r \in EpisodeRecords, NEW o \in Instances \cup {NoOwner, Former}
    PROVE  Like([r EXCEPT !.owner = o], r)
  BY DEF EpisodeRecords, Otherwise, Like

LEMMA LikeStored ==
    ASSUME NEW x, NEW r, Like(x, r), NEW sub, NEW b, NEW c, InStore(r, sub, b, c)
    PROVE  /\ InStore(x, sub, b, c) /\ (Low(r, c) => Low(x, c)) /\ Covers(x, r)
           /\ (IsTerminal(x) <=> IsTerminal(r)) /\ (AtRest(x) <=> AtRest(r))
<1>1. /\ x \in EpisodeRecords /\ x.shots = r.shots /\ x.st = r.st /\ x.forced = r.forced
      /\ x.subs = r.subs /\ x.narr = r.narr /\ x.comp = r.comp
  BY DEF Like, Otherwise
<1>2. (IsTerminal(x) <=> IsTerminal(r)) /\ (AtRest(x) <=> AtRest(r))
  BY <1>1 DEF IsTerminal, AtRest
<1>3. Made(r) /\ x.subs \in {0, x.narr} /\ (x.st \in {"composing", "completed"} => AllClips(r))
  BY <1>1 DEF InStore, Made
<1>4. /\ Made(x) /\ (Unsent(r, sub) => Unsent(x, sub)) /\ (Paid(r, b) => Paid(x, b))
      /\ Billed(r, b) => Billed(x, b)
  BY <1>1, <1>3, SameShots
<1>5. Covers(x, r)
  BY <1>1 DEF Covers
<1> QED
  BY <1>1, <1>2, <1>4, <1>5 DEF InStore, Low

LEMMA LikeWork ==
    ASSUME NEW l, NEW h, NEW s, NEW sub, NEW b, NEW c, AtWork(l, h, s, sub, b, c), NEW x, NEW z,
           Like(x, h), Like(z, s)
    PROVE  AtWork(l, x, z, sub, b, c)
<1>1. /\ x \in EpisodeRecords /\ x.shots = h.shots /\ x.st = h.st /\ x.cur = h.cur
      /\ x.subs = h.subs /\ x.narr = h.narr /\ x.comp = h.comp
      /\ z.shots = s.shots /\ z.st = s.st /\ z.forced = s.forced
  BY DEF Like, Otherwise
<1>2. Sound(h, s, sub, b) /\ Made(h) /\ Counts(l, h, c) /\ Placed(l, h, sub, b) /\ (~IsTerminal(s) => Behind(l, h, s))
  BY DEF AtWork, Sound
<1>3. x.subs \in {0, x.narr} /\ (x.st \in {"composing", "completed"} => AllClips(h))
  BY <1>1, <1>2 DEF Made
<1>4. /\ Made(x) /\ (Unsent(h, sub) => Unsent(x, sub)) /\ (Paid(h, b) => Paid(x, b))
      /\ (Covers(h, s) => Covers(x, s)) /\ (Billed(h, b) => Billed(x, b))
  BY <1>1, <1>2, <1>3, SameShots
<1>5. IsTerminal(z) <=> IsTerminal(s)
  BY <1>1 DEF IsTerminal
<1>6. Covers(x, s) => Covers(x, z)
  BY <1>1 DEF Covers
<1>7. Sound(x, z, sub, b)
  BY <1>1, <1>2, <1>4, <1>5, <1>6 DEF Sound
<1>8. Counts(l, x, c)
  BY <1>1, <1>2 DEF Counts
<1>9. Placed(l, x, sub, b)
  BY <1>1, <1>2, <1>4 DEF Placed, ClipsUpTo, AllClips
<1>10. Behind(l, h, s) => Behind(l, x, z)
  BY <1>1 DEF Behind, ClipsUpTo
<1> QED
  BY <1>2, <1>5, <1>7, <1>8, <1>9, <1>10 DEF AtWork

LEMMA LikeEnded ==
    ASSUME NEW h, NEW x, Like(x, h), Ended(h)
    PROVE  Ended(x)
<1>1. /\ x \in EpisodeRecords /\ x.shots = h.shots /\ x.st = h.st /\ x.forced = h.forced
      /\ x.subs = h.subs /\ x.narr = h.narr /\ x.comp = h.comp /\ Made(h)
  BY DEF Like, Otherwise, Ended
<1>2. Made(x)
  BY <1>1, SameShots DEF Made
<1> QED
  BY <1>1, <1>2 DEF Ended, IsTerminal

(* The process takes the episode from one hand to another, or out of it. *)
LEMMA HandsOver ==
    ASSUME NEW w, NEW j, One(w, j), EpisodeInv(w, j), UNCHANGED <<pc, task, bills, submissions, crashes>>,
           jobs' = [x \in Jobs |-> jobs'[x]], jobs' = jobs \/ pc[w] = "idle",
           InStore(jobs'[j], submissions, bills[j], crashes),
           phase' \in [Instances -> {"up", "down", "recovering"}],
           todo' = [i \in Instances |-> todo'[i]], queue' \in [Instances -> {<<>>, <<j>>}],
           retry' \in [Instances -> SUBSET Jobs], OneHand(w, j)',
           GivenUp(w)' \/ Low(jobs'[j], crashes)
    PROVE  EpisodeInv(w, j)'
<1>1. Shape(w, j)'
  BY DEF EpisodeInv, Shape
<1>2. Working(w, j)'
  BY DEF EpisodeInv, Working, Held
<1>3. Serving'
  BY DEF EpisodeInv, Serving, Held
<1> QED
  BY <1>1, <1>2, <1>3 DEF EpisodeInv

LEMMA RetryFiresKeeps ==
    ASSUME NEW w, NEW j, One(w, j), EpisodeInv(w, j), RetryFires(w)
    PROVE  EpisodeInv(w, j)' /\ Kept(j)
<1>1. /\ jobs' = jobs /\ bills' = bills /\ phase' = phase /\ todo' = todo /\ pc' = pc /\ task' = task
      /\ submissions' = submissions /\ crashes' = crashes
  BY DEF RetryFires, provider
<1>2. PICK jj \in retry[w] : Enqueue(w, jj) /\ retry' = [retry EXCEPT ![w] = @ \ {jj}]
  BY DEF RetryFires
<1>3. /\ jobs = [x \in Jobs |-> jobs[x]] /\ phase \in [Instances -> {"up", "down", "recovering"}]
      /\ todo = [i \in Instances |-> todo[i]] /\ queue \in [Instances -> {<<>>, <<j>>}]
      /\ retry \in [Instances -> SUBSET Jobs] /\ w \in Instances /\ Instances = {w} /\ Jobs = {j}
  BY DEF EpisodeInv, Shape, One
<1>4. retry[w] # {} /\ jj = j
  BY <1>2, <1>3
<1>5. pc[w] = "idle" /\ queue[w] = <<>> /\ todo[w] = {} /\ phase[w] # "down"
  BY <1>4 DEF EpisodeInv, OneHand
<1>6. retry' \in [Instances -> SUBSET Jobs] /\ retry'[w] = {}
  BY <1>2, <1>3, <1>4
<1>7. queue' \in [Instances -> {<<>>, <<j>>}] /\ queue'[w] = <<j>>
  <2>1. Append(queue[w], jj) = <<j>>
    BY <1>4, <1>5, SMT
  <2>2. queue' = [queue EXCEPT ![w] = Append(queue[w], jj)]
    BY <1>2 DEF Enqueue
  <2> QED
    BY <1>3, <2>1, <2>2
<1>8. OneHand(w, j)'
  BY <1>1, <1>5, <1>6, <1>7 DEF EpisodeInv, OneHand
<1>9. Low(jobs[j], crashes) /\ InStore(jobs[j], submissions, bills[j], crashes)
  BY <1>4 DEF EpisodeInv, GivenUp
<1>10. EpisodeInv(w, j)'
  BY <1>1, <1>3, <1>6, <1>7, <1>8, <1>9, HandsOver
<1> QED
  BY <1>1, <1>10, KeptAsItIs

LEMMA ServeKeeps ==
    ASSUME NEW w, NEW j, One(w, j), EpisodeInv(w, j), Serve(w)
    PROVE  EpisodeInv(w, j)' /\ Kept(j)
<1>1. /\ jobs' = jobs /\ bills' = bills /\ todo' = todo /\ pc' = pc /\ task' = task
      /\ queue' = queue /\ retry' = retry /\ submissions' = submissions /\ crashes' = crashes
      /\ todo[w] = {} /\ phase[w] = "recovering" /\ phase' = [phase EXCEPT ![w] = "up"]
  BY DEF Serve, provider
<1>2. /\ jobs = [x \in Jobs |-> jobs[x]] /\ phase \in [Instances -> {"up", "down", "recovering"}]
      /\ todo = [i \in Instances |-> todo[i]] /\ queue \in [Instances -> {<<>>, <<j>>}]
      /\ retry \in [Instances -> SUBSET Jobs] /\ w \in Instances
  BY DEF EpisodeInv, Shape, One
<1>3. phase' \in [Instances -> {"up", "down", "recovering"}] /\ phase'[w] = "up"
  BY <1>1, <1>2
<1>4. OneHand(w, j)'
  BY <1>1, <1>3 DEF EpisodeInv, OneHand
<1>5. /\ InStore(jobs[j], submissions, bills[j], crashes)
      /\ GivenUp(w)' \/ Low(jobs[j], crashes)
  BY <1>1, <1>3 DEF EpisodeInv, GivenUp
<1>6. EpisodeInv(w, j)'
  BY <1>1, <1>2, <1>3, <1>4, <1>5, HandsOver
<1> QED
  BY <1>1, <1>6, KeptAsItIs

LEMMA RemoteEndsKeeps ==
    ASSUME NEW w, NEW j, One(w, j), EpisodeInv(w, j), NEW k, RemoteEnds(k)
    PROVE  EpisodeInv(w, j)' /\ Kept(j)
<1>1. /\ jobs' = jobs /\ bills' = bills /\ phase' = phase /\ todo' = todo /\ pc' = pc /\ task' = task
      /\ queue' = queue /\ retry' = retry /\ submissions' = submissions /\ crashes' = crashes
  BY DEF RemoteEnds, instance
<1>2. EpisodeInv(w, j)'
  BY <1>1 DEF EpisodeInv, Shape, OneHand, Working, Serving, GivenUp, Held
<1> QED
  BY <1>1, <1>2, KeptAsItIs

LEMMA RecoverNextKeeps ==
    ASSUME NEW w, NEW j, One(w, j), EpisodeInv(w, j), RecoverNext(w, Unknown)
    PROVE  EpisodeInv(w, j)' /\ Kept(j)
<1> DEFINE s == jobs[j]
           T == [id |-> j, rec |-> s]
           manual == As(s, "manual")
<1>1. /\ bills' = bills /\ phase' = phase /\ retry' = retry /\ pc' = pc /\ task' = task
      /\ submissions' = submissions /\ crashes' = crashes
  BY DEF RecoverNext, provider
<1>2. PICK t \in todo[w] :
        /\ todo' = [todo EXCEPT ![w] = @ \ {t}]
        /\ \/ AtRest(t.rec) /\ UNCHANGED <<jobs, queue>>
           \/ ~AtRest(t.rec) /\ Enqueue(w, t.id) /\ UNCHANGED jobs
           \/ ~AtRest(t.rec) /\ jobs' = [jobs EXCEPT ![t.id] = As(t.rec, "manual")] /\ UNCHANGED queue
  BY DEF RecoverNext
<1>3. /\ jobs = [x \in Jobs |-> jobs[x]] /\ phase \in [Instances -> {"up", "down", "recovering"}]
      /\ todo = [i \in Instances |-> todo[i]] /\ queue \in [Instances -> {<<>>, <<j>>}]
      /\ retry \in [Instances -> SUBSET Jobs] /\ w \in Instances /\ j \in Jobs
      /\ InStore(s, submissions, bills[j], crashes) /\ crashes \in Nat
  BY DEF EpisodeInv, Shape, One
<1>4. t = T /\ todo[w] = {T}
  BY <1>2 DEF EpisodeInv, OneHand
<1>5. t.id = j /\ t.rec = s
  BY <1>4
<1>6. /\ pc[w] = "idle" /\ queue[w] = <<>> /\ retry[w] = {} /\ phase[w] = "recovering"
      /\ \A q \in Requests : pc[q] = "idle"
  BY <1>4 DEF EpisodeInv, OneHand
<1>7. Low(s, crashes)
  BY <1>4 DEF EpisodeInv, GivenUp
<1> HIDE DEF T
<1>8. todo' = [i \in Instances |-> todo'[i]] /\ todo'[w] = {}
  BY <1>2, <1>3, <1>4
<1>9. CASE UNCHANGED <<jobs, queue>>
  <2>1. OneHand(w, j)'
    BY <1>1, <1>6, <1>8, <1>9 DEF OneHand
  <2>2. EpisodeInv(w, j)'
    BY <1>1, <1>3, <1>7, <1>8, <1>9, <2>1, HandsOver
  <2> QED
    BY <1>9, <2>2, KeptAsItIs
<1>10. CASE Enqueue(w, t.id) /\ UNCHANGED jobs
  <2>1. Append(queue[w], t.id) = <<j>>
    BY <1>5, <1>6, Singles
  <2>2. queue' = [queue EXCEPT ![w] = Append(queue[w], t.id)]
    BY <1>10 DEF Enqueue
  <2>3. queue' \in [Instances -> {<<>>, <<j>>}]
    BY <1>3, <2>1, <2>2
  <2>4. OneHand(w, j)'
    BY <1>1, <1>6, <1>8 DEF OneHand
  <2>5. EpisodeInv(w, j)'
    BY <1>1, <1>3, <1>7, <1>8, <1>10, <2>3, <2>4, HandsOver
  <2> QED
    BY <1>10, <2>5, KeptAsItIs
<1>11. CASE ~AtRest(t.rec) /\ jobs' = [jobs EXCEPT ![t.id] = As(t.rec, "manual")] /\ UNCHANGED queue
  <2>1. jobs' = [jobs EXCEPT ![j] = manual]
    BY <1>5, <1>11
  <2>2. s \in EpisodeRecords /\ Made(s)
    BY <1>3 DEF InStore, Made
  <2>3. Otherwise(manual, s) /\ manual.st = "manual"
    BY <2>2, AsIs DEF JobStates
  <2> HIDE DEF manual
  <2>4. jobs'[j] = manual /\ jobs' = [x \in Jobs |-> jobs'[x]]
    BY <1>3, <2>1
  <2>5. /\ manual \in EpisodeRecords /\ manual.shots = s.shots /\ manual.subs \in {0, manual.narr}
        /\ manual.comp = s.comp
    BY <2>2, <2>3 DEF Otherwise, Made
  <2>6. ~IsTerminal(s)
    BY <1>5, <1>11 DEF AtRest
  <2>7. Made(manual) /\ Unsent(manual, submissions) /\ Paid(manual, bills[j])
    <3>1. manual.st \in {"composing", "completed"} => AllClips(s)
      BY <2>3
    <3>2. /\ Made(manual) /\ (Unsent(s, submissions) => Unsent(manual, submissions))
          /\ (Paid(s, bills[j]) => Paid(manual, bills[j]))
      BY <2>2, <2>5, <3>1, SameShots
    <3> QED
      BY <1>3, <2>6, <3>2 DEF InStore
  <2>8. InStore(manual, submissions, bills[j], crashes) /\ Low(manual, crashes)
    BY <1>3, <1>7, <2>3, <2>5, <2>6, <2>7 DEF InStore, Low
  <2>9. OneHand(w, j)'
    BY <1>1, <1>6, <1>8, <1>11 DEF OneHand
  <2>10. EpisodeInv(w, j)'
    BY <1>1, <1>3, <1>6, <1>8, <1>11, <2>4, <2>8, <2>9, HandsOver
  <2>11. Kept(j)
    BY <2>3, <2>4 DEF Kept, AtRest
  <2> QED
    BY <2>10, <2>11
<1> QED
  BY <1>2, <1>9, <1>10, <1>11

(* The process is gone, and with it everything that was in hand. *)
LEMMA StopKeeps ==
    ASSUME NEW w, NEW j, One(w, j), EpisodeInv(w, j), Stop(w), crashes' \in Nat, crashes <= crashes',
           Low(jobs[j], crashes')
    PROVE  EpisodeInv(w, j)' /\ Kept(j)
<1>1. /\ jobs' = jobs /\ bills' = bills /\ submissions' = submissions
      /\ phase' = [phase EXCEPT ![w] = "down"] /\ todo' = [todo EXCEPT ![w] = {}]
      /\ queue' = [queue EXCEPT ![w] = <<>>] /\ retry' = [retry EXCEPT ![w] = {}]
      /\ pc' = [p \in Procs |-> IF task[p].home = w THEN "idle" ELSE pc[p]]
      /\ task' = [p \in Procs |-> IF task[p].home = w THEN NoTask ELSE task[p]]
  BY DEF Stop, provider
<1>2. /\ phase \in [Instances -> {"up", "down", "recovering"}] /\ todo = [i \in Instances |-> todo[i]]
      /\ queue \in [Instances -> {<<>>, <<j>>}] /\ retry \in [Instances -> SUBSET Jobs]
      /\ w \in Instances /\ crashes \in Nat /\ submissions \in [1..Shots -> {0, 1}]
      /\ jobs = [x \in Jobs |-> jobs[x]]
      /\ bills = [x \in Jobs |-> [state |-> bills[x].state, actual |-> bills[x].actual]]
      /\ \A p \in Procs : /\ pc[p] = "idle" => task[p] = NoTask
                          /\ pc[p] # "idle" => task[p].home = w
  BY DEF EpisodeInv, Shape, One
<1>3. \A p \in Procs : pc'[p] = "idle" /\ task'[p] = NoTask
  <2>1. ASSUME NEW p \in Procs
        PROVE  pc'[p] = "idle" /\ task'[p] = NoTask
    <3>1. CASE task[p].home = w
      BY <1>1, <3>1
    <3>2. CASE task[p].home # w
      <4>1. pc[p] = "idle" /\ task[p] = NoTask
        BY <1>2, <3>2
      <4> QED
        BY <1>1, <3>2, <4>1
    <3> QED
      BY <3>1, <3>2
  <2> QED
    BY <2>1
<1>4. pc' = [p \in Procs |-> pc'[p]] /\ task' = [p \in Procs |-> task'[p]]
  BY <1>1
<1>5. NoTask = [id |-> NoTask.id, rec |-> NoTask.rec, home |-> NoTask.home]
  BY DEF NoTask
<1>6. task' = [p \in Procs |-> [id |-> task'[p].id, rec |-> task'[p].rec, home |-> task'[p].home]]
  BY <1>3, <1>4, <1>5
<1>7. /\ phase' \in [Instances -> {"up", "down", "recovering"}] /\ todo' = [i \in Instances |-> todo'[i]]
      /\ queue' \in [Instances -> {<<>>, <<j>>}] /\ retry' \in [Instances -> SUBSET Jobs]
      /\ phase'[w] = "down" /\ todo'[w] = {} /\ queue'[w] = <<>> /\ retry'[w] = {}
  BY <1>1, <1>2
<1>8. Shape(w, j)'
  <2>1. jobs' = jobs /\ bills' = bills /\ submissions' = submissions
    BY <1>1
  <2>2. /\ jobs' = [x \in Jobs |-> jobs'[x]] /\ submissions' \in [1..Shots -> {0, 1}]
        /\ bills' = [x \in Jobs |-> [state |-> bills'[x].state, actual |-> bills'[x].actual]]
    BY <1>2, <2>1
  <2>3. \A p \in Procs : /\ pc'[p] = "idle" => task'[p] = NoTask
                         /\ pc'[p] # "idle" => task'[p].id = j /\ task'[p].home = w
    BY <1>3
  <2> QED
    BY <1>4, <1>6, <1>7, <2>2, <2>3 DEF Shape
<1>9. w \in Procs /\ \A p \in Requests : p \in Procs
  BY Hands
<1>10. OneHand(w, j)'
  BY <1>3, <1>7, <1>9 DEF OneHand
<1>11. Working(w, j)' /\ Serving'
  BY <1>3, <1>9 DEF Working, Serving, WorkerLabels, RequestLabels
<1>12. InStore(jobs[j], submissions, bills[j], crashes')
  <2>1. InStore(jobs[j], submissions, bills[j], crashes) /\ jobs[j].comp \in Nat
    BY DEF EpisodeInv, InStore, Made, EpisodeRecords
  <2>2. jobs[j].comp <= 3 + crashes
    BY <2>1 DEF InStore
  <2>3. jobs[j].comp <= 3 + crashes'
    BY <1>2, <2>1, <2>2, SMT
  <2> QED
    BY <2>1, <2>3 DEF InStore
<1>13. EpisodeInv(w, j)'
  BY <1>1, <1>8, <1>10, <1>11, <1>12 DEF EpisodeInv
<1> QED
  BY <1>1, <1>13, KeptAsItIs

LEMMA CrashKeeps ==
    ASSUME NEW w, NEW j, One(w, j), EpisodeInv(w, j), Crash(w)
    PROVE  EpisodeInv(w, j)' /\ Kept(j)
<1>1. Stop(w) /\ crashes' = crashes + 1
  BY DEF Crash
<1>2. crashes \in Nat /\ InStore(jobs[j], submissions, bills[j], crashes)
  BY DEF EpisodeInv, Shape
<1>3. jobs[j].comp \in Nat /\ jobs[j].comp <= 3 + crashes
  BY <1>2 DEF InStore, Made, EpisodeRecords
<1>4. crashes' \in Nat /\ crashes <= crashes' /\ jobs[j].comp <= 2 + crashes'
  BY <1>1, <1>2, <1>3, Numbers
<1> QED
  BY <1>1, <1>4, StopKeeps DEF Low

LEMMA RecoverStopsKeeps ==
    ASSUME NEW w, NEW j, One(w, j), EpisodeInv(w, j), RecoverStops(w, Unknown)
    PROVE  EpisodeInv(w, j)' /\ Kept(j)
<1>1. Stop(w) /\ crashes' = crashes /\ todo[w] # {}
  BY DEF RecoverStops
<1>2. crashes \in Nat /\ Low(jobs[j], crashes)
  BY <1>1 DEF EpisodeInv, Shape, GivenUp
<1>3. crashes' \in Nat /\ crashes <= crashes'
  BY <1>1, <1>2, Numbers
<1> QED
  BY <1>1, <1>2, <1>3, StopKeeps

(* Every copy of the record gets another lease. *)
LEMMA Relabelled ==
    ASSUME NEW w, NEW j, One(w, j), EpisodeInv(w, j), UNCHANGED <<bills, queue, retry, pc, submissions, crashes>>,
           jobs' = [x \in Jobs |-> jobs'[x]], task' = [p \in Procs |-> task'[p]],
           \A p \in Procs : task'[p] = [id |-> task[p].id, rec |-> task'[p].rec, home |-> task[p].home],
           \A p \in Procs : Held(p) = NoJob => task'[p].rec = NoJob,
           \A p \in Procs : Held(p) \in EpisodeRecords => Like(task'[p].rec, Held(p)),
           Like(jobs'[j], jobs[j]),
           phase' \in [Instances -> {"up", "down", "recovering"}], todo' = [i \in Instances |-> todo'[i]],
           OneHand(w, j)', GivenUp(w)' \/ Low(jobs[j], crashes)
    PROVE  EpisodeInv(w, j)' /\ Kept(j)
<1>1. \A p \in Procs : task'[p].id = task[p].id /\ task'[p].home = task[p].home
  BY SMTT(30)
<1>2. ASSUME NEW p \in Procs, task[p] = NoTask
      PROVE  task'[p] = NoTask
  <2>1. NoTask.id = NoJob /\ NoTask.rec = NoJob /\ NoTask.home = NoOwner
    BY DEF NoTask
  <2>2. task'[p].rec = NoJob
    BY <1>2, <2>1 DEF Held
  <2>3. task'[p] = [id |-> NoTask.id, rec |-> task'[p].rec, home |-> NoTask.home]
    BY <1>2
  <2> QED
    BY <2>1, <2>2, <2>3 DEF NoTask
<1>3. task' = [p \in Procs |-> [id |-> task'[p].id, rec |-> task'[p].rec, home |-> task'[p].home]]
  BY <1>1
<1>4. /\ InStore(jobs[j], submissions, bills[j], crashes)
      /\ \A p \in Procs : /\ pc[p] = "idle" => task[p] = NoTask
                          /\ pc[p] # "idle" => task[p].id = j /\ task[p].home = w
  BY DEF EpisodeInv, Shape
<1>5. \A p \in Procs : /\ pc'[p] = "idle" => task'[p] = NoTask
                       /\ pc'[p] # "idle" => task'[p].id = j /\ task'[p].home = w
  BY <1>1, <1>2, <1>4
<1>6. Shape(w, j)'
  BY <1>3, <1>5 DEF EpisodeInv, Shape
<1>7. w \in Procs /\ \A p \in Requests : p \in Procs
  BY Hands
<1>8. /\ InStore(jobs'[j], submissions, bills[j], crashes) /\ (Low(jobs[j], crashes) => Low(jobs'[j], crashes))
      /\ Covers(jobs'[j], jobs[j])
  BY <1>4, LikeStored
<1>9. Working(w, j)'
  <2>1. CASE pc[w] = "idle"
    BY <2>1 DEF Working, WorkerLabels
  <2>2. CASE pc[w] # "idle"
    <3>1. AtWork(pc[w], Held(w), jobs[j], submissions, bills[j], crashes) /\ pc[w] \in WorkerLabels
      BY <2>2 DEF EpisodeInv, Working
    <3>2. Held(w) \in EpisodeRecords
      BY <3>1 DEF AtWork, Sound, Made
    <3>3. AtWork(pc[w], task'[w].rec, jobs'[j], submissions, bills[j], crashes)
      BY <1>7, <3>1, <3>2, LikeWork
    <3> QED
      BY <3>1, <3>3 DEF Working, Held
  <2> QED
    BY <2>1, <2>2
<1>10. ASSUME NEW p \in Requests
       PROVE  /\ pc'[p] \in RequestLabels
              /\ pc'[p] = "forceRead" => task'[p].rec = NoJob
              /\ pc'[p] \notin {"idle", "forceRead"} => Ended(task'[p].rec)
  <2>1. /\ pc[p] \in RequestLabels /\ (pc[p] = "forceRead" => Held(p) = NoJob)
        /\ (pc[p] \notin {"idle", "forceRead"} => Ended(Held(p)))
    BY DEF EpisodeInv, Serving
  <2>2. Ended(Held(p)) => Held(p) \in EpisodeRecords
    BY DEF Ended, Made
  <2>3. Ended(Held(p)) => Ended(task'[p].rec)
    BY <1>7, <2>2, LikeEnded
  <2> QED
    BY <1>7, <2>1, <2>3
<1>11. Serving'
  BY <1>10 DEF Serving, Held
<1>12. EpisodeInv(w, j)'
  BY <1>6, <1>8, <1>9, <1>11 DEF EpisodeInv
<1> QED
  BY <1>8, <1>12 DEF Kept

Relabel(r, o, v) == IF r # NoJob /\ r.owner = o THEN [r EXCEPT !.owner = v] ELSE r
LEMMA RelabelIs ==
    ASSUME NEW o, NEW v \in Instances \cup {NoOwner, Former}
    PROVE  Relabel(NoJob, o, v) = NoJob /\ \A r \in EpisodeRecords : Like(Relabel(r, o, v), r)
<1>1. Relabel(NoJob, o, v) = NoJob
  BY DEF Relabel
<1>2. ASSUME NEW r \in EpisodeRecords
      PROVE  Like(Relabel(r, o, v), r)
  <2>1. Like(r, r)
    BY DEF Like, Otherwise
  <2>2. Like([r EXCEPT !.owner = v], r)
    BY OwnerIs
  <2>3. CASE r # NoJob /\ r.owner = o
    BY <2>2, <2>3 DEF Relabel
  <2>4. CASE ~(r # NoJob /\ r.owner = o)
    BY <2>1, <2>4 DEF Relabel
  <2> QED
    BY <2>3, <2>4
<1> QED
  BY <1>1, <1>2

(* Every copy of a record, in the store and in the hands, gets the owner. *)
Spread(o, v) ==
    /\ jobs' = [x \in Jobs |-> Relabel(jobs[x], o, v)]
    /\ task' = [p \in Procs |-> [task[p] EXCEPT !.rec = Relabel(task[p].rec, o, v)]]
LEMMA Copies ==
    ASSUME NEW w, NEW j, One(w, j), EpisodeInv(w, j), NEW o, NEW v \in Instances \cup {NoOwner, Former}, Spread(o, v)
    PROVE  /\ jobs' = [x \in Jobs |-> jobs'[x]] /\ task' = [p \in Procs |-> task'[p]]
           /\ \A p \in Procs : task'[p] = [id |-> task[p].id, rec |-> task'[p].rec, home |-> task[p].home]
           /\ \A p \in Procs : Held(p) = NoJob => task'[p].rec = NoJob
           /\ \A p \in Procs : Held(p) \in EpisodeRecords => Like(task'[p].rec, Held(p))
           /\ Like(jobs'[j], jobs[j]) /\ jobs'[j] = Relabel(jobs[j], o, v)
<1>1. Relabel(NoJob, o, v) = NoJob /\ \A r \in EpisodeRecords : Like(Relabel(r, o, v), r)
  BY RelabelIs
<1>2. jobs' = [x \in Jobs |-> jobs'[x]] /\ task' = [p \in Procs |-> task'[p]]
  BY DEF Spread
<1>3. jobs[j] \in EpisodeRecords /\ j \in Jobs
  BY Hands
<1>4. jobs'[j] = Relabel(jobs[j], o, v)
  BY <1>3 DEF Spread
<1>5. ASSUME NEW p \in Procs
      PROVE  /\ task'[p] = [id |-> task[p].id, rec |-> Relabel(Held(p), o, v), home |-> task[p].home]
             /\ task'[p].rec = Relabel(Held(p), o, v)
  <2> DEFINE y == Relabel(Held(p), o, v)
             a == task[p].id
             b == task[p].rec
             c == task[p].home
  <2>1. task[p] = [id |-> a, rec |-> b, home |-> c]
    BY DEF EpisodeInv, Shape
  <2>2. task'[p] = [task[p] EXCEPT !.rec = y]
    BY DEF Held, Spread
  <2> HIDE DEF y, a, b, c
  <2>3. task'[p] = [id |-> a, rec |-> y, home |-> c]
    BY <2>1, <2>2, SMTT(30)
  <2>4. task'[p].rec = y
    BY <2>3, SMTT(30)
  <2> QED
    BY <2>3, <2>4 DEF y, a, c
<1> QED
  BY <1>1, <1>2, <1>3, <1>4, <1>5

LEMMA LeasesExpireKeeps ==
    ASSUME NEW w, NEW j, One(w, j), EpisodeInv(w, j), NEW o, EpisodeLeasesExpire(o)
    PROVE  EpisodeInv(w, j)' /\ Kept(j)
<1> DEFINE T == [id |-> j, rec |-> jobs[j]]
<1>1. /\ Spread(o, NoOwner)
      /\ todo' = [i \in Instances |-> {[t EXCEPT !.rec = Relabel(t.rec, o, NoOwner)] : t \in todo[i]}]
  BY DEF EpisodeLeasesExpire, LeasesExpire, Everywhere, Relabel, Spread
<1>2. UNCHANGED <<bills, queue, retry, pc, submissions, crashes, phase>>
  BY DEF EpisodeLeasesExpire, LeasesExpire, provider
<1>3. /\ jobs' = [x \in Jobs |-> jobs'[x]] /\ task' = [p \in Procs |-> task'[p]]
      /\ \A p \in Procs : task'[p] = [id |-> task[p].id, rec |-> task'[p].rec, home |-> task[p].home]
      /\ \A p \in Procs : Held(p) = NoJob => task'[p].rec = NoJob
      /\ \A p \in Procs : Held(p) \in EpisodeRecords => Like(task'[p].rec, Held(p))
      /\ Like(jobs'[j], jobs[j]) /\ jobs'[j] = Relabel(jobs[j], o, NoOwner)
  <2>1. NoOwner \in Instances \cup {NoOwner, Former}
    OBVIOUS
  <2> QED
    BY <1>1, <2>1, Copies
<1>4. todo[w] \subseteq {T} /\ w \in Instances /\ phase \in [Instances -> {"up", "down", "recovering"}]
  BY DEF EpisodeInv, OneHand, Shape, One
<1>5. todo' = [i \in Instances |-> todo'[i]] /\ todo'[w] \subseteq {[id |-> j, rec |-> jobs'[j]]}
      /\ (todo'[w] # {} => todo[w] # {}) /\ (todo[w] = {} => todo'[w] = {})
  <2>1. todo'[w] = {[t EXCEPT !.rec = Relabel(t.rec, o, NoOwner)] : t \in todo[w]}
    BY <1>1, <1>4
  <2>2. T.rec = jobs[j]
    OBVIOUS
  <2>3. [T EXCEPT !.rec = jobs'[j]] = [id |-> j, rec |-> jobs'[j]]
    BY SMTT(30)
  <2> HIDE DEF T
  <2>4. \A t \in todo[w] : [t EXCEPT !.rec = Relabel(t.rec, o, NoOwner)] = [id |-> j, rec |-> jobs'[j]]
    BY <1>3, <1>4, <2>2, <2>3
  <2>5. todo' = [i \in Instances |-> todo'[i]]
    BY <1>1
  <2> QED
    BY <2>1, <2>4, <2>5
<1> HIDE DEF T
<1>6. OneHand(w, j)'
  BY <1>2, <1>5 DEF EpisodeInv, OneHand
<1>7. GivenUp(w)' \/ Low(jobs[j], crashes)
  BY <1>2, <1>5 DEF EpisodeInv, GivenUp
<1> QED
  BY <1>2, <1>3, <1>4, <1>5, <1>6, <1>7, Relabelled

LEMMA StartKeeps ==
    ASSUME NEW w, NEW j, One(w, j), EpisodeInv(w, j), Start(w)
    PROVE  EpisodeInv(w, j)' /\ Kept(j)
<1>1. /\ phase[w] = "down" /\ phase' = [phase EXCEPT ![w] = "recovering"]
      /\ UNCHANGED <<bills, queue, retry, pc, submissions, crashes>>
      /\ todo' = [todo EXCEPT ![w] = {[id |-> x, rec |-> [k \in {k \in Jobs : Stored(k)} |-> jobs'[k]][x]] :
                                         x \in DOMAIN [k \in {k \in Jobs : Stored(k)} |-> jobs'[k]]}]
  BY DEF Start, provider
<1>2. \/ Spread(w, Former)
      \/ /\ jobs' = [x \in Jobs |-> jobs[x]]
         /\ task' = [p \in Procs |-> [task[p] EXCEPT !.rec = task[p].rec]]
  BY DEF Start, Everywhere, Relabel, Spread
<1>3. /\ jobs' = [x \in Jobs |-> jobs'[x]] /\ task' = [p \in Procs |-> task'[p]]
      /\ \A p \in Procs : task'[p] = [id |-> task[p].id, rec |-> task'[p].rec, home |-> task[p].home]
      /\ \A p \in Procs : Held(p) = NoJob => task'[p].rec = NoJob
      /\ \A p \in Procs : Held(p) \in EpisodeRecords => Like(task'[p].rec, Held(p))
      /\ Like(jobs'[j], jobs[j])
  <2>1. CASE Spread(w, Former)
    <3>1. Former \in Instances \cup {NoOwner, Former}
      OBVIOUS
    <3> QED
      BY <2>1, <3>1, Copies
  <2>2. CASE /\ jobs' = [x \in Jobs |-> jobs[x]]
             /\ task' = [p \in Procs |-> [task[p] EXCEPT !.rec = task[p].rec]]
    <3>1. \A p \in Procs : task[p] = [id |-> task[p].id, rec |-> task[p].rec, home |-> task[p].home]
      BY DEF EpisodeInv, Shape
    <3>2. ASSUME NEW p \in Procs
          PROVE  task'[p] = task[p]
      <4>1. task'[p] = [task[p] EXCEPT !.rec = task[p].rec]
        BY <2>2
      <4> DEFINE a == task[p].id
                 b == task[p].rec
                 c == task[p].home
      <4>2. task[p] = [id |-> a, rec |-> b, home |-> c]
        BY <3>1
      <4> HIDE DEF a, b, c
      <4>3. [task[p] EXCEPT !.rec = b] = [id |-> a, rec |-> b, home |-> c]
        BY <4>2, SMTT(30)
      <4> QED
        BY <4>1, <4>2, <4>3 DEF b
    <3>3. jobs'[j] = jobs[j] /\ jobs[j] \in EpisodeRecords
      BY <2>2, Hands
    <3>4. \A r \in EpisodeRecords : Like(r, r)
      BY DEF Like, Otherwise
    <3>5. jobs' = [x \in Jobs |-> jobs'[x]] /\ task' = [p \in Procs |-> task'[p]]
      BY <2>2
    <3> QED
      BY <3>1, <3>2, <3>3, <3>4, <3>5 DEF Held
  <2> QED
    BY <1>2, <2>1, <2>2
<1>4. /\ w \in Instances /\ Jobs = {j} /\ Stored(j) /\ phase \in [Instances -> {"up", "down", "recovering"}]
      /\ todo = [i \in Instances |-> todo[i]]
  BY Hands DEF EpisodeInv, Shape, One
<1>5. phase' \in [Instances -> {"up", "down", "recovering"}] /\ phase'[w] = "recovering"
  BY <1>1, <1>4
<1>6. todo' = [i \in Instances |-> todo'[i]] /\ todo'[w] = {[id |-> j, rec |-> jobs'[j]]}
  <2> DEFINE S == {k \in Jobs : Stored(k)}
             f == [k \in S |-> jobs'[k]]
             L == {[id |-> x, rec |-> f[x]] : x \in DOMAIN f}
  <2>1. S = {j}
    BY <1>4
  <2>2. DOMAIN f = {j} /\ f[j] = jobs'[j]
    BY <2>1
  <2>3. todo' = [todo EXCEPT ![w] = L]
    BY <1>1
  <2> HIDE DEF f
  <2>4. L = {[id |-> j, rec |-> jobs'[j]]}
    BY <2>2
  <2> HIDE DEF L
  <2> QED
    BY <1>4, <2>3, <2>4
<1>7. /\ pc[w] = "idle" /\ queue[w] = <<>> /\ retry[w] = {} /\ \A p \in Requests : pc[p] = "idle"
  BY <1>1 DEF EpisodeInv, OneHand
<1>8. OneHand(w, j)'
  BY <1>1, <1>5, <1>6, <1>7 DEF OneHand
<1>9. Low(jobs[j], crashes)
  BY <1>1 DEF EpisodeInv, GivenUp
<1>10. todo' = [i \in Instances |-> todo'[i]]
  BY <1>6
<1> QED
  BY <1>1, <1>3, <1>5, <1>8, <1>9, <1>10, Relabelled

(* The worker takes the episode out of the queue. *)
LEMMA WorkerBegins ==
    ASSUME NEW w, NEW j, One(w, j), EpisodeInv(w, j), pc[w] = "idle", queue[w] # <<>>, phase[w] # "down",
           NEW l \in WorkerLabels, l # "idle", NEW x,
           pc' = [pc EXCEPT ![w] = l], task' = [task EXCEPT ![w] = [id |-> j, rec |-> x, home |-> w]],
           jobs' = [k \in Jobs |-> jobs'[k]], queue' \in [Instances -> {<<>>, <<j>>}], queue'[w] = <<>>,
           UNCHANGED <<bills, submissions, crashes, phase, todo, retry>>,
           AtWork(l, x, jobs'[j], submissions, bills[j], crashes),
           InStore(jobs'[j], submissions, bills[j], crashes), Low(jobs'[j], crashes)
    PROVE  EpisodeInv(w, j)'
<1> DEFINE T == [id |-> j, rec |-> x, home |-> w]
<1>1. w \in Procs /\ \A q \in Requests : q \in Procs /\ q # w
  BY Hands
<1>2. /\ T = [id |-> T.id, rec |-> T.rec, home |-> T.home] /\ T.id = j /\ T.rec = x /\ T.home = w
  OBVIOUS
<1>3. task' = [task EXCEPT ![w] = T]
  OBVIOUS
<1> HIDE DEF T
<1>4. /\ pc = [q \in Procs |-> pc[q]] /\ task = [q \in Procs |-> task[q]]
      /\ \A q \in Procs : task[q] = [id |-> task[q].id, rec |-> task[q].rec, home |-> task[q].home]
  BY DEF EpisodeInv, Shape
<1>5. pc'[w] = l /\ task'[w] = T /\ \A q \in Procs : q # w => pc'[q] = pc[q] /\ task'[q] = task[q]
  BY <1>1, <1>3, <1>4
<1>6. pc' = [q \in Procs |-> pc'[q]] /\ task' = [q \in Procs |-> task'[q]]
  BY <1>3, <1>4
<1>7. \A q \in Procs : task'[q] = [id |-> task'[q].id, rec |-> task'[q].rec, home |-> task'[q].home]
  BY <1>2, <1>4, <1>5
<1>8. task' = [q \in Procs |-> [id |-> task'[q].id, rec |-> task'[q].rec, home |-> task'[q].home]]
  BY <1>6, <1>7
<1>9. \A q \in Procs : /\ pc'[q] = "idle" => task'[q] = NoTask
                       /\ pc'[q] # "idle" => task'[q].id = j /\ task'[q].home = w
  BY <1>2, <1>5 DEF EpisodeInv, Shape
<1>10. Shape(w, j)'
  BY <1>6, <1>8, <1>9 DEF EpisodeInv, Shape
<1>11. retry[w] = {} /\ todo[w] = {} /\ (phase[w] # "up" => \A q \in Requests : pc[q] = "idle")
  BY DEF EpisodeInv, OneHand
<1>12. OneHand(w, j)'
  BY <1>1, <1>5, <1>11 DEF OneHand
<1>13. Working(w, j)'
  BY <1>2, <1>5 DEF Working, Held
<1>14. \A q \in Requests : pc'[q] = pc[q] /\ task'[q].rec = task[q].rec
  BY <1>1, <1>5
<1>15. Serving'
  BY <1>14 DEF EpisodeInv, Serving, Held
<1> QED
  BY <1>10, <1>12, <1>13, <1>15 DEF EpisodeInv

LEMMA RunEpisodeKeeps ==
    ASSUME NEW w, NEW j, One(w, j), EpisodeInv(w, j), RunEpisode(w)
    PROVE  EpisodeInv(w, j)' /\ Kept(j)
<1> DEFINE s == jobs[j]
           z == Leased(s, w)
           x == [z EXCEPT !.cur = 0]
           y == As(z, "failed")
           Task(r) == [id |-> Head(queue[w]), rec |-> r, home |-> w]
<1>1. /\ phase[w] # "down" /\ pc[w] = "idle" /\ queue[w] # <<>>
      /\ queue' = [queue EXCEPT ![w] = Tail(queue[w])]
      /\ bills' = bills /\ phase' = phase /\ todo' = todo /\ submissions' = submissions /\ crashes' = crashes
  BY DEF RunEpisode, ClaimNext, provider, Is
<1>2. /\ w \in Instances /\ jobs = [k \in Jobs |-> jobs[k]] /\ todo = [i \in Instances |-> todo[i]]
      /\ phase \in [Instances -> {"up", "down", "recovering"}] /\ queue \in [Instances -> {<<>>, <<j>>}]
      /\ retry \in [Instances -> SUBSET Jobs] /\ crashes \in Nat
  BY DEF EpisodeInv, Shape, One
<1>3. queue[w] = <<j>> /\ Head(queue[w]) = j /\ Tail(queue[w]) = <<>>
  <2>1. queue[w] = <<j>>
    BY <1>1, <1>2
  <2> QED
    BY <2>1, Singles
<1>4. queue' \in [Instances -> {<<>>, <<j>>}] /\ queue'[w] = <<>>
  BY <1>1, <1>2, <1>3
<1>5. Stored(j) /\ s \in EpisodeRecords /\ j \in Jobs
  BY Hands
<1>6. InStore(s, submissions, bills[j], crashes) /\ Low(s, crashes)
  BY <1>1 DEF EpisodeInv, GivenUp
<1>7. Like(z, s)
  BY <1>2, <1>5, OwnerIs DEF Leased
<1>8. InStore(z, submissions, bills[j], crashes) /\ Low(z, crashes) /\ Covers(z, s)
  BY <1>6, <1>7, LikeStored
<1>9. \/ retry' = [retry EXCEPT ![w] = @ \cup {j}] /\ jobs' = jobs /\ pc' = pc /\ task' = task
      \/ jobs' = jobs /\ pc' = pc /\ task' = task /\ retry' = retry
      \/ jobs' = [jobs EXCEPT ![j] = z] /\ pc' = pc /\ task' = task /\ retry' = retry
      \/ jobs' = [jobs EXCEPT ![j] = z] /\ retry' = retry /\ EpisodeResume(w, z)
  BY <1>3, <1>5 DEF RunEpisode, ClaimNext, ScheduleRetry
<1>10. retry[w] = {} /\ todo[w] = {} /\ (phase[w] # "up" => \A q \in Requests : pc[q] = "idle")
  BY <1>1 DEF EpisodeInv, OneHand
<1>11. CASE jobs' = jobs /\ pc' = pc /\ task' = task
  <2>1. retry' \in [Instances -> SUBSET Jobs]
    BY <1>2, <1>5, <1>9, <1>11
  <2>2. OneHand(w, j)'
    BY <1>1, <1>4, <1>10, <1>11 DEF OneHand
  <2>3. EpisodeInv(w, j)'
    BY <1>1, <1>2, <1>4, <1>6, <1>11, <2>1, <2>2, HandsOver
  <2> QED
    BY <1>11, <2>3, KeptAsItIs
<1>12. ASSUME jobs' = [jobs EXCEPT ![j] = z]
       PROVE  jobs'[j] = z /\ jobs' = [k \in Jobs |-> jobs'[k]] /\ Kept(j)
  <2> HIDE DEF z
  <2>1. jobs'[j] = z /\ jobs' = [k \in Jobs |-> jobs'[k]]
    BY <1>2, <1>5, <1>12
  <2> QED
    BY <1>8, <2>1 DEF Kept
<1>13. CASE jobs' = [jobs EXCEPT ![j] = z] /\ pc' = pc /\ task' = task /\ retry' = retry
  <2>1. jobs'[j] = z /\ jobs' = [k \in Jobs |-> jobs'[k]] /\ Kept(j)
    BY <1>12, <1>13
  <2> HIDE DEF z
  <2>2. OneHand(w, j)'
    BY <1>1, <1>4, <1>10, <1>13 DEF OneHand
  <2>3. InStore(jobs'[j], submissions, bills[j], crashes) /\ Low(jobs'[j], crashes)
    BY <1>8, <2>1
  <2>4. retry' \in [Instances -> SUBSET Jobs]
    BY <1>2, <1>13
  <2> QED
    BY <1>1, <1>2, <1>4, <1>13, <2>1, <2>2, <2>3, <2>4, HandsOver
<1>14. CASE jobs' = [jobs EXCEPT ![j] = z] /\ retry' = retry /\ EpisodeResume(w, z)
  <2>1. CASE AtRest(z)
    <3>1. pc' = pc /\ task' = task
      BY <1>14, <2>1 DEF EpisodeResume
    <3> QED
      BY <1>13, <1>14, <3>1
  <2>2. CASE ~AtRest(z)
    <3>1. \/ \E l \in {"admitEpisode", "shot"} : pc' = [pc EXCEPT ![w] = l] /\ task' = [task EXCEPT ![w] = Task(x)]
          \/ pc' = [pc EXCEPT ![w] = "fail"] /\ task' = [task EXCEPT ![w] = Task(y)]
      <4> HIDE DEF z
      <4>1. PICK next \in {<<IF z.st = "queued" THEN "admitEpisode" ELSE "shot", x>>}
                          \cup (IF AllClips(z) THEN {} ELSE {<<"fail", y>>}) :
                /\ pc' = [pc EXCEPT ![w] = next[1]] /\ task' = [task EXCEPT ![w] = Task(next[2])]
        BY <1>14, <2>2 DEF EpisodeResume
      <4> HIDE DEF x, y, Task
      <4>2. \/ next = <<"admitEpisode", x>> \/ next = <<"shot", x>> \/ next = <<"fail", y>>
        <5>1. CASE AllClips(z)
          BY <4>1, <5>1
        <5>2. CASE ~AllClips(z)
          BY <4>1, <5>2
        <5> QED
          BY <5>1, <5>2
      <4>3. \/ next[1] = "admitEpisode" /\ next[2] = x
            \/ next[1] = "shot" /\ next[2] = x
            \/ next[1] = "fail" /\ next[2] = y
        BY <4>2, SMTT(30)
      <4> QED
        BY <4>1, <4>3
    <3>2. /\ \A l \in {"admitEpisode", "shot"} : AtWork(l, x, z, submissions, bills[j], crashes)
          /\ AtWork("fail", y, z, submissions, bills[j], crashes)
      BY <1>2, <1>8, <2>2, BeginsWith
    <3>3. jobs'[j] = z /\ jobs' = [k \in Jobs |-> jobs'[k]] /\ Kept(j)
      BY <1>12, <1>14
    <3>4. {"admitEpisode", "shot", "fail"} \subseteq WorkerLabels \ {"idle"}
      BY DEF WorkerLabels
    <3> HIDE DEF x, y, z
    <3>5. InStore(jobs'[j], submissions, bills[j], crashes) /\ Low(jobs'[j], crashes)
      BY <1>8, <3>3
    <3>6. ASSUME NEW l \in {"admitEpisode", "shot", "fail"}, NEW r, pc' = [pc EXCEPT ![w] = l],
                 task' = [task EXCEPT ![w] = Task(r)], AtWork(l, r, z, submissions, bills[j], crashes)
          PROVE  EpisodeInv(w, j)'
      <4>1. task' = [task EXCEPT ![w] = [id |-> j, rec |-> r, home |-> w]]
        BY <1>3, <3>6
      <4>2. l \in WorkerLabels /\ l # "idle" /\ AtWork(l, r, jobs'[j], submissions, bills[j], crashes)
        BY <3>3, <3>4, <3>6
      <4> QED
        BY <1>1, <1>4, <1>14, <3>3, <3>5, <3>6, <4>1, <4>2, WorkerBegins
    <3> HIDE DEF Task
    <3> QED
      BY <3>1, <3>2, <3>3, <3>6
  <2> QED
    BY <2>1, <2>2
<1> QED
  BY <1>9, <1>11, <1>13, <1>14
(* Every step keeps the invariant, and the checkpoints of an episode that *)
(* can still go on.                                                       *)
LEMMA NextKeeps ==
    ASSUME NEW w, NEW j, One(w, j), EpisodeInv(w, j), [EpisodeNext]_vars
    PROVE  EpisodeInv(w, j)' /\ Kept(j)
<1>1. Instances = {w} /\ Jobs = {j}
  BY DEF One
<1>2. ASSUME NEW p \in Procs, EpisodeStep(p)
      PROVE  EpisodeInv(w, j)' /\ Kept(j)
  BY <1>2, StepKeeps
<1>3. ASSUME NEW p \in Requests, NEW jj \in Jobs, NEW i \in Instances,
             CancelEpisode(p, jj, i) \/ ForceFail(p, jj, i)
      PROVE  EpisodeInv(w, j)' /\ Kept(j)
  BY <1>3, CancelEpisodeKeeps, ForceFailKeeps
<1>4. ASSUME EpisodeRuntime(w)
      PROVE  EpisodeInv(w, j)' /\ Kept(j)
  BY <1>4, RunEpisodeKeeps, RetryFiresKeeps, StartKeeps, RecoverNextKeeps, RecoverStopsKeeps, ServeKeeps
     DEF EpisodeRuntime
<1>5. ASSUME Crash(w)
      PROVE  EpisodeInv(w, j)' /\ Kept(j)
  BY <1>5, CrashKeeps
<1>6. ASSUME NEW o, EpisodeLeasesExpire(o)
      PROVE  EpisodeInv(w, j)' /\ Kept(j)
  BY <1>6, LeasesExpireKeeps
<1>7. ASSUME NEW k, RemoteEnds(k)
      PROVE  EpisodeInv(w, j)' /\ Kept(j)
  BY <1>7, RemoteEndsKeeps
<1>8. ASSUME UNCHANGED vars
      PROVE  EpisodeInv(w, j)' /\ Kept(j)
  <2>1. /\ jobs' = jobs /\ bills' = bills /\ phase' = phase /\ todo' = todo /\ queue' = queue /\ retry' = retry
        /\ pc' = pc /\ task' = task /\ submissions' = submissions /\ crashes' = crashes
    BY <1>8 DEF vars
  <2>2. Shape(w, j)' /\ OneHand(w, j)' /\ GivenUp(w)' = GivenUp(w)
    BY <2>1 DEF EpisodeInv, Shape, OneHand, GivenUp
  <2>3. Working(w, j)' /\ Serving'
    BY <2>1 DEF EpisodeInv, Working, Serving, Held
  <2>4. EpisodeInv(w, j)'
    BY <2>1, <2>2, <2>3 DEF EpisodeInv
  <2> QED
    BY <2>1, <2>4, KeptAsItIs
<1>9. CASE EpisodeNext
  BY <1>1, <1>2, <1>3, <1>4, <1>5, <1>6, <1>7, <1>9 DEF EpisodeNext
<1> QED
  BY <1>8, <1>9

-----------------------------------------------------------------------------
(* The theorems are about one process of the gateway that runs one        *)
(* episode, for any number of shots, requests, crashes, failing calls,    *)
(* costs and lengths of the narration.                                    *)
(* Type correctness: every shot names its own provider job or none, the   *)
(* captions are timed for the saved narration or missing, and the failed  *)
(* compositions are at most MaxCompositions (the code's limit of three)   *)
(* more than the process has crashed.                                     *)
THEOREM EpisodeTypes ==
    ASSUME NEW w, NEW j, One(w, j)
    PROVE  EpisodeSpec => []EpisodeTypeOK
<1>1. EpisodeInit => EpisodeInv(w, j)
  BY EpisodeBegins
<1>2. EpisodeInv(w, j) /\ [EpisodeNext]_vars => EpisodeInv(w, j)'
  BY NextKeeps
<1>3. EpisodeInv(w, j) => EpisodeTypeOK
  BY InvGives
<1> QED
  BY <1>1, <1>2, <1>3, PTL DEF EpisodeSpec

(* runEpisodeJob never has the provider accept a shot twice: the intent   *)
(* is stored before the call, and a restart that finds an intent without  *)
(* a provider job leaves the episode to an operator.                      *)
THEOREM ShotsAreSubmittedOnce ==
    ASSUME NEW w, NEW j, One(w, j)
    PROVE  EpisodeSpec => []EachShotSubmittedOnce
<1>1. EpisodeInit => EpisodeInv(w, j)
  BY EpisodeBegins
<1>2. EpisodeInv(w, j) /\ [EpisodeNext]_vars => EpisodeInv(w, j)'
  BY NextKeeps
<1>3. EpisodeInv(w, j) => EachShotSubmittedOnce
  BY InvGives
<1> QED
  BY <1>1, <1>2, <1>3, PTL DEF EpisodeSpec

(* The loop of runEpisodeJob begins a shot only after the clip of the     *)
(* shot before it is in the store, and composes with all clips.           *)
THEOREM ShotsFollowEachOther ==
    ASSUME NEW w, NEW j, One(w, j)
    PROVE  EpisodeSpec => []ShotsInOrder
<1>1. EpisodeInit => EpisodeInv(w, j)
  BY EpisodeBegins
<1>2. EpisodeInv(w, j) /\ [EpisodeNext]_vars => EpisodeInv(w, j)'
  BY NextKeeps
<1>3. EpisodeInv(w, j) => ShotsInOrder
  BY InvGives
<1> QED
  BY <1>1, <1>2, <1>3, PTL DEF EpisodeSpec

(* A completed episode was settled with the sum of the costs of its shots *)
(* if all reported one, else with the estimate, also when a crash came    *)
(* between settling and storing the completion and both were repeated.    *)
THEOREM CompletedEpisodesAreBilled ==
    ASSUME NEW w, NEW j, One(w, j)
    PROVE  EpisodeSpec => []EpisodeIsBilled
<1>1. EpisodeInit => EpisodeInv(w, j)
  BY EpisodeBegins
<1>2. EpisodeInv(w, j) /\ [EpisodeNext]_vars => EpisodeInv(w, j)'
  BY NextKeeps
<1>3. EpisodeInv(w, j) => EpisodeIsBilled
  BY InvGives
<1> QED
  BY <1>1, <1>2, <1>3, PTL DEF EpisodeSpec

(* No update of an episode that can still go on loses the clip or the     *)
(* provider job of a shot, although every update writes a whole record    *)
(* that was read earlier.                                                 *)
THEOREM CheckpointsSurvive ==
    ASSUME NEW w, NEW e, One(w, e)
    PROVE  EpisodeSpec => CheckpointsAreKept
<1>1. EpisodeInit => EpisodeInv(w, e)
  BY EpisodeBegins
<1>2. EpisodeInv(w, e) /\ [EpisodeNext]_vars => EpisodeInv(w, e)'
  BY NextKeeps
<1>3. ASSUME EpisodeInv(w, e), [EpisodeNext]_vars
      PROVE  [\A j \in Jobs, k \in 1..Shots :
                 ~AtRest(jobs'[j]) =>
                     /\ jobs[j].shots[k].clip => jobs'[j].shots[k].clip
                     /\ jobs[j].shots[k].pid # NoJob => jobs'[j].shots[k].pid # NoJob]_vars
  <2>1. Jobs = {e}
    BY DEF One
  <2>2. Kept(e)
    BY <1>3, NextKeeps
  <2> QED
    BY <2>1, <2>2 DEF Kept, Covers
<1> QED
  BY <1>1, <1>2, <1>3, PTL DEF EpisodeSpec, CheckpointsAreKept
=============================================================================
