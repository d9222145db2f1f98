---------------------- MODULE VideoEpisodeWorkerProofs ----------------------
(***************************************************************************)
(* The invariant of VideoEpisode for one gateway process and one episode,  *)
(* and the steps of the worker up to the commit that preserve it;          *)
(* VideoEpisodeProofs has the other steps and the theorems.                *)
(*                                                                         *)
(* The invariant (EpisodeInv) relates the record in the worker's hand to   *)
(* the stored one, to what the provider has accepted and to the bill, as   *)
(* far as the place of the worker tells (AtWork).  The episode is in one   *)
(* hand of the process only: the worker's, the queue's, a timer's or       *)
(* Recover's (OneHand); this is what a second process over the store would *)
(* break.                                                                  *)
(*                                                                         *)
(* A step either moves the worker, or a request, or the process itself.    *)
(* WorkerGoes, WorkerUpdates and RequestGoes say once what such a step     *)
(* must bring along; the actions then are about the record in hand only.   *)
(***************************************************************************)
EXTENDS VideoEpisode, TLAPS

(* Zenon proves the steps that name no prover; those with arithmetic or *)
(* records name SMT.                                                    *)
USE ZenonT(30)

(* The places of the worker.  At those of Sent the shot it is at has a    *)
(* provider job, at those of Composing every shot has its clip.           *)
Sent == {"shotSave", "saveOdd", "shotPoll", "shotKeep", "shotDone", "shotUpload", "clip"}
Composing ==
    {"stage", "narrate", "caption", "render", "narrDrop", "narrSave", "capDrop", "capSave",
     "tryAgain", "giveUp", "workspace", "commitEpisode", "settleEpisode", "unsettledEpisode",
     "completeEpisode"}
WorkerLabels ==
    {"idle", "admitEpisode", "shot", "intent", "shotSubmit", "later", "again", "odd", "drop", "gone",
     "manual", "fail", "bill", "release"} \cup Sent \cup Composing
RequestLabels ==
    {"idle", "cancelRemote", "cancelPut", "forceRead", "forcePut", "forceRelease", "bill", "release"}

ClipsUpTo(r, n) == \A k \in 1..n : r.shots[k].clip

(* A shot in place k of a record, and a record: a shot has a provider job *)
(* from its submission on, and is begun only after the clip before it.    *)
ShotMade(s, k) ==
    /\ s.pid \in {k, NoJob}
    /\ s.pid = NoJob <=> s.st \in {"queued", "planning"}
    /\ s.clip => s.pid # NoJob
Made(r) ==
    /\ r \in EpisodeRecords
    /\ \A k \in 1..Shots : ShotMade(r.shots[k], k)
    /\ \A k \in 2..Shots : r.shots[k].st # "queued" => r.shots[k - 1].clip
    /\ r.st \in {"composing", "completed"} => AllClips(r)
    /\ r.subs \in {0, r.narr}

(* What the provider and the ledger know fits the record. *)
Unsent(r, sub) == \A k \in 1..Shots : r.shots[k].st = "queued" => sub[k] = 0
Paid(r, b) == b.state = "actual" => AllClips(r) /\ Reported(r) /\ b.actual = Total(r)
Billed(r, b) ==
    IF Reported(r) THEN b = [state |-> "actual", actual |-> Total(r)] ELSE b.state = "estimate"

(* Nothing that s has is missing in h. *)
Covers(h, s) ==
    \A k \in 1..Shots : /\ s.shots[k].clip => h.shots[k].clip
                        /\ s.shots[k].pid # NoJob => h.shots[k].pid # NoJob

(* The record h that a worker holds while s is stored, sub submissions    *)
(* were accepted and the bill is b; and at the place l, after c crashes.  *)
Sound(h, s, sub, b) ==
    /\ Made(h) /\ Unsent(h, sub) /\ Paid(h, b) /\ s.st # "completed"
    /\ ~IsTerminal(s) => Covers(h, s)
Behind(l, h, s) ==
    /\ l = "shot" => ClipsUpTo(s, h.cur)
    /\ l = "shotSubmit" => s.shots[h.cur].st # "queued"
    /\ l \in Composing => s.shots = h.shots
Counts(l, h, c) == h.comp <= 3 + c /\ (l \notin {"tryAgain", "giveUp", "bill"} => h.comp <= 2 + c)
Placed(l, h, sub, b) ==
    /\ l = "admitEpisode" => h.cur = 0
    /\ l = "shot" => h.cur < Shots
    /\ l \in {"intent", "shotSubmit"} \cup Sent =>
          h.cur \in 1..Shots /\ ~h.shots[h.cur].clip /\ ClipsUpTo(h, h.cur - 1)
    /\ l \in {"intent", "shotSubmit"} => h.shots[h.cur].st = "planning" /\ sub[h.cur] = 0
    /\ l \in Sent => h.shots[h.cur].pid = h.cur
    /\ l \in Composing => AllClips(h)
    /\ IF l = "completeEpisode" THEN Billed(h, b) ELSE h.st # "completed"
AtWork(l, h, s, sub, b, c) ==
    /\ Sound(h, s, sub, b) /\ Counts(l, h, c) /\ Placed(l, h, sub, b)
    /\ ~IsTerminal(s) => Behind(l, h, s)

(* The stored record, and the record of a request that ends the episode. *)
Low(s, c) == IsTerminal(s) \/ s.comp <= 2 + c
InStore(s, sub, b, c) ==
    /\ Made(s) /\ s.comp <= 3 + c
    /\ ~IsTerminal(s) => Unsent(s, sub) /\ Paid(s, b)
    /\ s.st = "completed" => Billed(s, b)
Ended(h) == Made(h) /\ IsTerminal(h) /\ h.st # "completed" /\ h.comp = 0

One(w, j) == Instances = {w} /\ Jobs = {j}
Shape(w, j) ==
    /\ jobs = [x \in Jobs |-> jobs[x]]
    /\ bills = [x \in Jobs |-> [state |-> bills[x].state, actual |-> bills[x].actual]]
    /\ submissions \in [1..Shots -> {0, 1}]
    /\ crashes \in Nat
    /\ phase \in [Instances -> {"up", "down", "recovering"}]
    /\ todo = [i \in Instances |-> todo[i]]
    /\ queue \in [Instances -> {<<>>, <<j>>}]
    /\ retry \in [Instances -> SUBSET Jobs]
    /\ pc = [p \in Procs |-> pc[p]]
    /\ task = [p \in Procs |-> [id |-> task[p].id, rec |-> task[p].rec, home |-> task[p].home]]
    /\ \A p \in Procs : /\ pc[p] = "idle" => task[p] = NoTask
                        /\ pc[p] # "idle" => task[p].id = j /\ task[p].home = w

(* The episode is in one hand: the worker's, the queue's, a timer's or    *)
(* Recover's, whose copy is the stored record.                            *)
OneHand(w, j) ==
    /\ pc[w] # "idle" => queue[w] = <<>> /\ retry[w] = {} /\ todo[w] = {}
    /\ queue[w] # <<>> => retry[w] = {} /\ todo[w] = {}
    /\ retry[w] # {} => todo[w] = {}
    /\ todo[w] \subseteq {[id |-> j, rec |-> jobs[j]]}
    /\ todo[w] # {} => phase[w] = "recovering"
    /\ phase[w] # "up" => \A p \in Requests : pc[p] = "idle"
    /\ phase[w] = "down" => pc[w] = "idle" /\ queue[w] = <<>> /\ retry[w] = {} /\ todo[w] = {}

(* A record with as many failed compositions as crashes allow is in the   *)
(* store only if nobody but a restart will compose it again.              *)
GivenUp(w) ==
    /\ phase[w] # "down" /\ queue[w] = <<>> /\ retry[w] = {} /\ todo[w] = {}
    /\ pc[w] \in {"idle", "giveUp", "bill"}
Working(w, j) ==
    /\ pc[w] \in WorkerLabels
    /\ pc[w] # "idle" => AtWork(pc[w], Held(w), jobs[j], submissions, bills[j], crashes)
Serving ==
    \A p \in Requests :
        /\ pc[p] \in RequestLabels
        /\ pc[p] = "forceRead" => Held(p) = NoJob
        /\ pc[p] \notin {"idle", "forceRead"} => Ended(Held(p))
EpisodeInv(w, j) ==
    /\ Shape(w, j) /\ OneHand(w, j) /\ Working(w, j) /\ Serving
    /\ InStore(jobs[j], submissions, bills[j], crashes)
    /\ GivenUp(w) \/ Low(jobs[j], crashes)
----------------------------------------------------------------------------
LEMMA ShotRange == Shots \in Nat /\ Shots >= 2 /\ NoJob \notin 1..Shots /\ NoJob \notin EpisodeRecords /\ 0 \notin Takes
  BY EpisodeAssumption

LEMMA Ranges ==
    /\ 0 \in 0..Shots /\ 0 \in Nat /\ 0 < Shots /\ 1..0 = {} /\ 0 \in {0, 1} /\ \A n \in {0, 1} : n <= 1
    /\ \A k \in 2..Shots : k \in 1..Shots
  BY ShotRange, SMT

LEMMA Numbers ==
    ASSUME NEW a \in Nat, NEW c \in Nat
    PROVE  /\ a <= 2 + c => a <= 3 + c /\ a + 1 <= 3 + c
           /\ a + 1 \in Nat
           /\ a <= 3 + c => a <= 3 + (c + 1) /\ a <= 2 + (c + 1) /\ a \in 0..3 + c
           /\ ~(a >= 3) => a <= 2 + c
           /\ c + 1 \in Nat /\ c <= c + 1 /\ c <= c /\ 0 <= 2 + c /\ 0 <= 3 + c
  BY SMT

LEMMA Singles ==
    ASSUME NEW x
    PROVE  Append(<<>>, x) = <<x>> /\ Head(<<x>>) = x /\ Tail(<<x>>) = <<>> /\ <<x>> # <<>>
  BY SMT

(* What a record says of its shots alone. *)
LEMMA Alike ==
    ASSUME NEW x, NEW r, x.shots = r.shots
    PROVE  /\ Total(x) = Total(r) /\ (Reported(x) <=> Reported(r)) /\ (AllClips(x) <=> AllClips(r))
           /\ \A n : ClipsUpTo(x, n) <=> ClipsUpTo(r, n)
<1>1. Costs(x) = Costs(r)
  BY DEF Costs
<1> QED
  BY <1>1 DEF Total, Reported, AllClips, ClipsUpTo

LEMMA SameShots ==
    ASSUME NEW x \in EpisodeRecords, NEW r, x.shots = r.shots, NEW s, NEW sub, NEW b, Made(r),
           x.st \in {"composing", "completed"} => AllClips(r),
           x.subs \in {0, x.narr}
    PROVE  /\ Made(x) /\ (Unsent(r, sub) => Unsent(x, sub)) /\ (Paid(r, b) => Paid(x, b))
           /\ Covers(r, s) => Covers(x, s)
           /\ Billed(r, b) => Billed(x, b)
<1>1. Made(x)
  BY Alike DEF Made
<1>2. Paid(r, b) => Paid(x, b)
  BY Alike DEF Paid
<1>3. Billed(r, b) => Billed(x, b)
  BY Alike DEF Billed
<1> QED
  BY <1>1, <1>2, <1>3 DEF Unsent, Covers

(* The worker goes on with the shot k it is at. *)
LEMMA ShotGoesOn ==
    ASSUME NEW x \in EpisodeRecords, NEW r, NEW k \in 1..Shots, NEW s, NEW sub, NEW b, Made(r),
           ClipsUpTo(r, k - 1), ~r.shots[k].clip,
           \A m \in 1..Shots : m # k => x.shots[m] = r.shots[m],
           ShotMade(x.shots[k], k), x.shots[k].st # "queued",
           r.shots[k].pid # NoJob => x.shots[k].pid # NoJob,
           x.st \in {"composing", "completed"} => AllClips(x),
           x.subs \in {0, x.narr}
    PROVE  /\ Made(x) /\ (Unsent(r, sub) => Unsent(x, sub)) /\ (Paid(r, b) => Paid(x, b))
           /\ Covers(r, s) => Covers(x, s)
           /\ ClipsUpTo(x, k - 1)
<1>1. ASSUME NEW m \in 2..Shots, x.shots[m].st # "queued"
      PROVE  x.shots[m - 1].clip
  <2>1. m \in 1..Shots /\ m - 1 \in 1..Shots /\ m - 1 # m
    BY ShotRange, SMT
  <2>2. CASE m = k
    <3>1. k - 1 \in 1..(k - 1)
      BY <2>1, <2>2, ShotRange, SMT
    <3> QED
      BY <2>1, <2>2, <3>1 DEF ClipsUpTo
  <2>3. CASE m # k
    <3>1. r.shots[m - 1].clip
      BY <1>1, <2>1, <2>3 DEF Made
    <3> QED
      BY <2>1, <2>3, <3>1
  <2> QED
    BY <2>2, <2>3
<1>2. \A m \in 1..Shots : ShotMade(x.shots[m], m)
  BY DEF Made
<1>3. Made(x)
  BY <1>1, <1>2 DEF Made
<1>4. Paid(r, b) => Paid(x, b)
  BY DEF Paid, AllClips
<1>5. ClipsUpTo(x, k - 1)
  <2>1. \A m \in 1..(k - 1) : m \in 1..Shots /\ m # k
    BY ShotRange, SMT
  <2> QED
    BY <2>1 DEF ClipsUpTo
<1>6. Unsent(r, sub) => Unsent(x, sub)
  BY DEF Unsent
<1>7. Covers(r, s) => Covers(x, s)
  BY DEF Covers
<1> QED
  BY <1>3, <1>4, <1>5, <1>6, <1>7
----------------------------------------------------------------------------
(* What the invariant says of the processes. *)
LEMMA Hands ==
    ASSUME NEW w, NEW j, One(w, j), EpisodeInv(w, j)
    PROVE  /\ w \in Instances /\ w \in Procs /\ w \notin Requests /\ j \in Jobs
           /\ \A p \in Requests : p \in Procs /\ p # w
           /\ \A p \in Procs : p = w \/ p \in Requests
           /\ Stored(j) /\ jobs[j] \in EpisodeRecords
           /\ pc[w] # "idle" => Id(w) = j
           /\ \A p \in Requests : pc[p] # "idle" => Id(p) = j
<1>1. w \in Instances /\ j \in Jobs /\ w \in Procs
  BY DEF One, Procs
<1>2. \A p \in Requests : p \in Procs /\ p # w
  BY <1>1, VideoAssumption DEF Procs
<1>3. \A p \in Procs : p = w \/ p \in Requests
  BY DEF One, Procs
<1>4. Stored(j) /\ jobs[j] \in EpisodeRecords
  BY ShotRange DEF EpisodeInv, InStore, Made, Stored
<1>5. \A p \in Procs : pc[p] # "idle" => Id(p) = j
  BY DEF EpisodeInv, Shape, Id
<1> QED
  BY <1>1, <1>2, <1>3, <1>4, <1>5

(* Where a process p goes, the others stay. *)
Moved(w, j, p, l, r) ==
    /\ pc'[p] = l /\ (l # "idle" => task'[p].rec = r)
    /\ \A q \in Procs : q # p => pc'[q] = pc[q] /\ task'[q] = task[q]
    /\ pc' = [q \in Procs |-> pc'[q]]
    /\ task' = [q \in Procs |-> [id |-> task'[q].id, rec |-> task'[q].rec, home |-> task'[q].home]]
    /\ \A q \in Procs : /\ pc'[q] = "idle" => task'[q] = NoTask
                        /\ pc'[q] # "idle" => task'[q].id = j /\ task'[q].home = w
LEMMA Moves ==
    ASSUME NEW w, NEW j, One(w, j), EpisodeInv(w, j), NEW p \in Procs, pc[p] # "idle",
           NEW l, NEW r, Move(p, l, r)
    PROVE  Moved(w, j, p, l, r)
<1> DEFINE T == IF l = "idle" THEN NoTask ELSE [id |-> j, rec |-> r, home |-> w]
<1>1. pc = [q \in Procs |-> pc[q]] /\ task = [q \in Procs |-> task[q]]
  BY DEF EpisodeInv, Shape
<1>2. task[p] = [id |-> j, rec |-> task[p].rec, home |-> w]
  BY DEF EpisodeInv, Shape
<1>3. [task[p] EXCEPT !.rec = r] = [id |-> j, rec |-> r, home |-> w]
  BY <1>2, SMTT(30)
<1>4. pc' = [pc EXCEPT ![p] = l] /\ task' = [task EXCEPT ![p] = T]
  BY <1>1, <1>3 DEF Move
<1>5. pc'[p] = l /\ task'[p] = T /\ \A q \in Procs : q # p => pc'[q] = pc[q] /\ task'[q] = task[q]
  BY <1>1, <1>4
<1>6. T = [id |-> T.id, rec |-> T.rec, home |-> T.home]
  BY DEF NoTask
<1>7. \A q \in Procs : task[q] = [id |-> task[q].id, rec |-> task[q].rec, home |-> task[q].home]
  BY DEF EpisodeInv, Shape
<1>8. \A q \in Procs : task'[q] = [id |-> task'[q].id, rec |-> task'[q].rec, home |-> task'[q].home]
  BY <1>5, <1>6, <1>7
<1>9. task' = [q \in Procs |-> task'[q]] /\ pc' = [q \in Procs |-> pc'[q]]
  BY <1>1, <1>4
<1>10. \A q \in Procs : /\ pc'[q] = "idle" => task'[q] = NoTask
                        /\ pc'[q] # "idle" => task'[q].id = j /\ task'[q].home = w
  <2>1. /\ l = "idle" => task'[p] = NoTask
        /\ l # "idle" => task'[p].id = j /\ task'[p].home = w
    BY <1>5, SMTT(30)
  <2> QED
    BY <1>5, <2>1 DEF EpisodeInv, Shape
<1>11. task' = [q \in Procs |-> [id |-> task'[q].id, rec |-> task'[q].rec, home |-> task'[q].home]]
  BY <1>8, <1>9
<1>12. l # "idle" => task'[p].rec = r
  BY <1>5, SMTT(30)
<1> QED
  BY <1>5, <1>9, <1>10, <1>11, <1>12 DEF Moved

(* The worker is done with a call and goes on at l with r. *)
LEMMA WorkerGoes ==
    ASSUME NEW w, NEW j, One(w, j), EpisodeInv(w, j), pc[w] # "idle",
           NEW l \in WorkerLabels, NEW r, Move(w, l, r),
           UNCHANGED <<phase, todo, queue, crashes>>,
           jobs' = [x \in Jobs |-> jobs'[x]],
           bills' = [x \in Jobs |-> [state |-> bills'[x].state, actual |-> bills'[x].actual]],
           submissions' \in [1..Shots -> {0, 1}],
           retry' \in [Instances -> SUBSET Jobs],
           InStore(jobs'[j], submissions', bills'[j], crashes),
           l # "idle" => AtWork(l, r, jobs'[j], submissions', bills'[j], crashes),
           l \in {"idle", "giveUp", "bill"} \/ Low(jobs'[j], crashes),
           retry'[w] # {} => l = "idle" /\ Low(jobs'[j], crashes)
    PROVE  EpisodeInv(w, j)'
<1>0. /\ pc'[w] = l /\ (l # "idle" => task'[w].rec = r)
      /\ \A p \in Requests : pc'[p] = pc[p] /\ task'[p] = task[p]
      /\ Moved(w, j, w, l, r)
  <2>1. w \in Procs /\ \A p \in Requests : p \in Procs /\ p # w
    BY Hands
  <2>2. Moved(w, j, w, l, r)
    BY <2>1, Moves
  <2> QED
    BY <2>1, <2>2 DEF Moved
<1>1. Shape(w, j)'
  BY <1>0 DEF Shape, EpisodeInv, Moved
<1>2. queue[w] = <<>> /\ retry[w] = {} /\ todo[w] = {} /\ phase[w] # "down"
  BY DEF EpisodeInv, OneHand
<1>3. phase[w] # "up" => \A p \in Requests : pc[p] = "idle"
  BY DEF EpisodeInv, OneHand
<1>4. OneHand(w, j)'
  BY <1>0, <1>2, <1>3 DEF OneHand
<1>5. Working(w, j)'
  BY <1>0 DEF Working, Held
<1>6. Serving'
  BY <1>0 DEF EpisodeInv, Serving, Held
<1>7. (GivenUp(w) \/ Low(jobs[j], crashes))'
  BY <1>0, <1>2 DEF GivenUp
<1> QED
  BY <1>1, <1>4, <1>5, <1>6, <1>7 DEF EpisodeInv

(* A request goes on: it writes only what ends the episode, and the       *)
(* ledger never changes a row that is settled for it.                     *)
LEMMA RequestGoes ==
    ASSUME NEW w, NEW j, One(w, j), EpisodeInv(w, j), NEW p \in Requests, pc[p] # "idle",
           NEW l \in RequestLabels \ {"forceRead"}, NEW r, Move(p, l, r), l # "idle" => Ended(r),
           UNCHANGED <<instance, submissions>>,
           jobs' = [x \in Jobs |-> jobs'[x]],
           bills' = [x \in Jobs |-> [state |-> bills'[x].state, actual |-> bills'[x].actual]],
           jobs'[j] = jobs[j] \/ Ended(jobs'[j]),
           Settled(bills[j]) \/ bills'[j].state = "actual" => bills'[j] = bills[j]
    PROVE  EpisodeInv(w, j)'
<1>0. /\ pc'[p] = l /\ (l # "idle" => task'[p].rec = r)
      /\ \A q \in Procs : q # p => pc'[q] = pc[q] /\ task'[q] = task[q]
      /\ p # w /\ p \in Procs /\ w \in Procs /\ \A q \in Requests : q \in Procs
      /\ Moved(w, j, p, l, r)
  <2>1. w \in Procs /\ p \in Procs /\ \A q \in Requests : q \in Procs /\ q # w
    BY Hands
  <2>2. Moved(w, j, p, l, r)
    BY <2>1, Moves
  <2> QED
    BY <2>1, <2>2 DEF Moved
<1>1. Shape(w, j)'
  <2>1. /\ phase' = phase /\ todo' = todo /\ queue' = queue /\ retry' = retry /\ crashes' = crashes
        /\ submissions' = submissions
    BY DEF instance
  <2> QED
    BY <1>0, <2>1 DEF Shape, EpisodeInv, Moved
<1>2. phase[w] = "up"
  <2>1. phase[w] # "up" => \A q \in Requests : pc[q] = "idle"
    BY DEF EpisodeInv, OneHand
  <2> QED
    BY <2>1
<1>3. OneHand(w, j)'
  <2>1. todo[w] = {}
    BY <1>2 DEF EpisodeInv, OneHand
  <2> QED
    BY <1>0, <1>2, <2>1 DEF EpisodeInv, OneHand, instance
<1>4. ASSUME NEW h
      PROVE  /\ Paid(h, bills[j]) => Paid(h, bills'[j])
             /\ Billed(h, bills[j]) => Billed(h, bills'[j])
  <2>1. Paid(h, bills[j]) => Paid(h, bills'[j])
    BY DEF Paid
  <2>2. Billed(h, bills[j]) => bills[j].state \in {"estimate", "actual"}
    BY SMTT(30) DEF Billed
  <2> QED
    BY <2>1, <2>2 DEF Settled
<1>5. Working(w, j)'
  <2>1. CASE pc[w] # "idle"
    <3> DEFINE h == Held(w)
               s == jobs[j]
    <3>1. AtWork(pc[w], h, s, submissions, bills[j], crashes)
      BY <2>1 DEF EpisodeInv, Working
    <3>2. jobs'[j].st # "completed" /\ (~IsTerminal(jobs'[j]) => jobs'[j] = s)
      BY <3>1 DEF AtWork, Sound, Ended
    <3>3. Sound(h, jobs'[j], submissions, bills'[j])
      BY <1>4, <3>1, <3>2 DEF AtWork, Sound
    <3>4. Placed(pc[w], h, submissions, bills'[j])
      BY <1>4, <3>1 DEF AtWork, Placed
    <3>5. AtWork(pc[w], h, jobs'[j], submissions, bills'[j], crashes)
      BY <3>1, <3>2, <3>3, <3>4 DEF AtWork
    <3>6. h' = h /\ pc'[w] = pc[w] /\ pc[w] \in WorkerLabels
      BY <1>0 DEF Held, EpisodeInv, Working
    <3> QED
      BY <3>5, <3>6 DEF Working, instance
  <2>2. CASE pc[w] = "idle"
    BY <1>0, <2>2 DEF Working, WorkerLabels
  <2> QED
    BY <2>1, <2>2
<1>6. Serving'
  BY <1>0 DEF EpisodeInv, Serving, Held
<1>7. InStore(jobs[j], submissions, bills[j], crashes)'
  <2>1. CASE jobs'[j] = jobs[j]
    BY <1>4, <2>1 DEF EpisodeInv, InStore, instance
  <2>2. CASE Ended(jobs'[j])
    <3>1. crashes \in Nat
      BY DEF EpisodeInv, Shape
    <3>2. 0 <= 3 + crashes
      BY <3>1, SMT
    <3> QED
      BY <2>2, <3>2 DEF Ended, InStore, instance
  <2> QED
    BY <2>1, <2>2
<1>8. (GivenUp(w) \/ Low(jobs[j], crashes))'
  BY <1>0 DEF EpisodeInv, GivenUp, Low, Ended, instance
<1> QED
  BY <1>1, <1>3, <1>5, <1>6, <1>7, <1>8 DEF EpisodeInv

(* A step keeps the checkpoints of an episode that can go on. *)
Kept(j) == AtRest(jobs'[j]) \/ Covers(jobs'[j], jobs[j])

LEMMA KeptAsItIs ==
    ASSUME NEW j, UNCHANGED jobs
    PROVE  Kept(j)
  BY DEF Kept, Covers

(* A step of the worker that leaves the store and the process alone. *)
LEMMA WorkerTurns ==
    ASSUME NEW w, NEW j, One(w, j), EpisodeInv(w, j), pc[w] # "idle",
           NEW l \in WorkerLabels, NEW r, Move(w, l, r),
           UNCHANGED <<jobs, bills, instance, submissions>>,
           l # "idle" => AtWork(l, r, jobs[j], submissions, bills[j], crashes),
           l \in {"idle", "giveUp", "bill"} \/ Low(jobs[j], crashes)
    PROVE  EpisodeInv(w, j)' /\ Kept(j)
<1>1. /\ jobs' = jobs /\ bills' = bills /\ phase' = phase /\ todo' = todo /\ queue' = queue
      /\ retry' = retry /\ crashes' = crashes /\ submissions' = submissions
  BY DEF instance
<1>2. retry[w] = {}
  BY DEF EpisodeInv, OneHand
<1>3. /\ jobs = [x \in Jobs |-> jobs[x]]
      /\ bills = [x \in Jobs |-> [state |-> bills[x].state, actual |-> bills[x].actual]]
      /\ submissions \in [1..Shots -> {0, 1}] /\ retry \in [Instances -> SUBSET Jobs]
  BY DEF EpisodeInv, Shape
<1>4. InStore(jobs[j], submissions, bills[j], crashes)
  BY DEF EpisodeInv
<1>5. EpisodeInv(w, j)'
  BY <1>1, <1>2, <1>3, <1>4, WorkerGoes
<1> QED
  BY <1>1, <1>5, KeptAsItIs

(* Store.Update by the worker. *)
LEMMA WorkerUpdates ==
    ASSUME NEW w, NEW j, One(w, j), EpisodeInv(w, j), pc[w] # "idle",
           NEW r, NEW ok \in SUBSET WorkerLabels, NEW err, Update(w, r, ok, err), UNCHANGED Unmarked,
           err = "idle" \/ (err = "drop" /\ pc[w] \in Sent /\ r = Held(w)),
           Sound(r, jobs[j], submissions, bills[j]), r.comp <= 3 + crashes,
           r.st = "completed" => Billed(r, bills[j]),
           \A l \in ok : l # "idle" => AtWork(l, r, r, submissions, bills[j], crashes),
           ok \subseteq {"idle", "giveUp", "bill"} \/ r.comp <= 2 + crashes
    PROVE  EpisodeInv(w, j)' /\ Kept(j)
<1>1. /\ bills' = bills /\ phase' = phase /\ todo' = todo /\ queue' = queue
      /\ retry' = retry /\ crashes' = crashes /\ submissions' = submissions
  BY DEF Unmarked, instance, provider
<1>2. /\ jobs = [x \in Jobs |-> jobs[x]]
      /\ bills = [x \in Jobs |-> [state |-> bills[x].state, actual |-> bills[x].actual]]
      /\ submissions \in [1..Shots -> {0, 1}] /\ retry \in [Instances -> SUBSET Jobs] /\ retry[w] = {}
  BY DEF EpisodeInv, Shape, OneHand
<1>3. /\ InStore(jobs[j], submissions, bills[j], crashes) /\ InStore(r, submissions, bills[j], crashes)
      /\ AtWork(pc[w], Held(w), jobs[j], submissions, bills[j], crashes)
  BY DEF EpisodeInv, InStore, Sound, Working
<1>4. Id(w) = j /\ j \in Jobs /\ w \notin Requests
  BY Hands
<1> DEFINE put == Writable(jobs[j], r) /\ jobs' = [jobs EXCEPT ![j] = r]
<1>5. \/ put /\ \E l \in ok : Move(w, l, r)
      \/ (put \/ UNCHANGED jobs) /\ Goto(w, err)
  BY <1>4 DEF Update, GivesUp
<1>6. put => /\ jobs' = [x \in Jobs |-> jobs'[x]] /\ jobs'[j] = r
             /\ Kept(j)
  <2>1. put => jobs' = [x \in Jobs |-> jobs'[x]] /\ jobs'[j] = r
    BY <1>2, <1>4
  <2>2. put => (IsTerminal(jobs[j]) /\ r = jobs[j]) \/ Covers(r, jobs[j])
    BY DEF Writable, Sound
  <2>3. Covers(jobs[j], jobs[j])
    BY DEF Covers
  <2> QED
    BY <2>1, <2>2, <2>3 DEF Kept
<1>7. ASSUME NEW l \in ok, put, Move(w, l, r)
      PROVE  EpisodeInv(w, j)'
  <2>1. l \in {"idle", "giveUp", "bill"} \/ Low(jobs'[j], crashes)
    BY <1>6, <1>7 DEF Low
  <2>2. l # "idle" => AtWork(l, r, jobs'[j], submissions, bills[j], crashes)
    BY <1>6, <1>7
  <2>3. l \in WorkerLabels
    OBVIOUS
  <2> QED
    BY <1>1, <1>2, <1>3, <1>6, <1>7, <2>1, <2>2, <2>3, WorkerGoes
<1>8. ASSUME put \/ UNCHANGED jobs, Goto(w, err)
      PROVE  EpisodeInv(w, j)'
  <2>1. /\ jobs'[j] = jobs[j] \/ jobs'[j] = r
        /\ jobs' = [x \in Jobs |-> jobs'[x]]
    BY <1>2, <1>6, <1>8
  <2>2. CASE err = "idle"
    <3>1. Move(w, "idle", Held(w)) /\ "idle" \in WorkerLabels
      BY <1>8, <2>2 DEF Goto, WorkerLabels
    <3>2. InStore(jobs'[j], submissions, bills[j], crashes)
      BY <1>3, <2>1
    <3> QED
      BY <1>1, <1>2, <2>1, <3>1, <3>2, WorkerGoes
  <2>3. CASE err = "drop" /\ pc[w] \in Sent /\ r = Held(w)
    <3>1. Move(w, "drop", r) /\ "drop" \in WorkerLabels
      BY <1>8, <2>3 DEF Goto, WorkerLabels
    <3>2. InStore(jobs'[j], submissions, bills[j], crashes)
      BY <1>3, <2>1
    <3>3. pc[w] \notin {"idle", "tryAgain", "giveUp", "bill", "completeEpisode"}
      BY <2>3 DEF Sent
    <3>4. r.comp <= 2 + crashes /\ r.st # "completed"
      BY <1>3, <2>3, <3>3 DEF AtWork, Counts, Placed
    <3>5. Low(jobs[j], crashes)
      BY <3>3 DEF EpisodeInv, GivenUp
    <3>6. Low(jobs'[j], crashes)
      BY <2>1, <3>4, <3>5 DEF Low
    <3>7. Covers(r, jobs'[j]) \/ IsTerminal(jobs'[j])
      BY <2>1 DEF Sound, Covers
    <3>8. Sound(r, jobs'[j], submissions, bills[j])
      BY <2>1, <3>4, <3>7 DEF Sound
    <3>9. Placed("drop", r, submissions, bills[j]) /\ Behind("drop", r, jobs'[j]) /\ Counts("drop", r, crashes)
      BY <3>4 DEF Placed, Behind, Counts, Sent, Composing
    <3>10. AtWork("drop", r, jobs'[j], submissions, bills[j], crashes)
      BY <3>8, <3>9 DEF AtWork
    <3> QED
      BY <1>1, <1>2, <2>1, <3>1, <3>2, <3>6, <3>10, WorkerGoes
  <2> QED
    BY <2>2, <2>3
<1>9. EpisodeInv(w, j)'
  BY <1>5, <1>7, <1>8
<1> QED
  BY <1>5, <1>6, <1>9, KeptAsItIs

(* Store.Update by a request. *)
LEMMA RequestUpdates ==
    ASSUME NEW w, NEW j, One(w, j), EpisodeInv(w, j), NEW p \in Requests, pc[p] \notin {"idle", "forceRead"},
           NEW ok \in SUBSET (RequestLabels \ {"forceRead"}), Update(p, Held(p), ok, "idle"), UNCHANGED Unmarked
    PROVE  EpisodeInv(w, j)' /\ Kept(j)
<1>1. bills' = bills /\ UNCHANGED <<instance, submissions>>
  BY DEF Unmarked, provider
<1>2. /\ jobs = [x \in Jobs |-> jobs[x]] /\ Ended(Held(p))
      /\ bills = [x \in Jobs |-> [state |-> bills[x].state, actual |-> bills[x].actual]]
  BY DEF EpisodeInv, Shape, Serving
<1>3. Id(p) = j /\ j \in Jobs
  BY Hands
<1>4. jobs' = jobs \/ jobs' = [jobs EXCEPT ![j] = Held(p)]
  BY <1>3 DEF Update
<1>5. jobs' = [x \in Jobs |-> jobs'[x]] /\ (jobs'[j] = jobs[j] \/ Ended(jobs'[j]))
  BY <1>2, <1>3, <1>4
<1>6. \E l \in RequestLabels \ {"forceRead"} : Move(p, l, Held(p))
  BY DEF Update, Goto, RequestLabels
<1>7. EpisodeInv(w, j)'
  BY <1>1, <1>2, <1>5, <1>6, RequestGoes
<1>8. Kept(j)
  BY <1>5 DEF Kept, Covers, Ended, AtRest
<1> QED
  BY <1>7, <1>8
----------------------------------------------------------------------------
(* Records. *)
Elsewhere(x, r, k) ==
    /\ x \in EpisodeRecords
    /\ x.st = r.st /\ x.cur = r.cur /\ x.narr = r.narr /\ x.subs = r.subs /\ x.comp = r.comp
    /\ \A m \in 1..Shots : m # k => x.shots[m] = r.shots[m]
Otherwise(x, r) ==
    /\ x \in EpisodeRecords /\ x.shots = r.shots
    /\ x.cur = r.cur /\ x.narr = r.narr /\ x.subs = r.subs /\ x.comp = r.comp

WithShot(r, k, y) == [r EXCEPT !.shots = [r.shots EXCEPT ![k] = y]]

LEMMA ShotFields ==
    ASSUME NEW r \in EpisodeRecords, NEW k \in 1..Shots, NEW y \in ShotRecords
    PROVE  Elsewhere(WithShot(r, k, y), r, k) /\ WithShot(r, k, y).shots[k] = y
<1> DEFINE z == [r.shots EXCEPT ![k] = y]
<1>1. WithShot(r, k, y) = [r EXCEPT !.shots = z]
  BY DEF WithShot
<1>2. /\ z \in [1..Shots -> ShotRecords] /\ z[k] = y
      /\ \A m \in 1..Shots : m # k => z[m] = r.shots[m]
  BY DEF EpisodeRecords
<1> HIDE DEF z
<1>3. [r EXCEPT !.shots = z] \in EpisodeRecords
  BY <1>2 DEF EpisodeRecords
<1>4. [r EXCEPT !.shots = z].shots = z
  BY DEF EpisodeRecords
<1>5. /\ [r EXCEPT !.shots = z].st = r.st /\ [r EXCEPT !.shots = z].cur = r.cur
      /\ [r EXCEPT !.shots = z].narr = r.narr /\ [r EXCEPT !.shots = z].subs = r.subs
      /\ [r EXCEPT !.shots = z].comp = r.comp
  BY DEF EpisodeRecords
<1> QED
  BY <1>1, <1>2, <1>3, <1>4, <1>5 DEF Elsewhere

LEMMA StateSet ==
    ASSUME NEW r \in EpisodeRecords, NEW k \in 1..Shots, NEW v \in ShotStates
    PROVE  /\ Elsewhere(AtShot(r, k, "st", v), r, k) /\ AtShot(r, k, "st", v).shots[k].st = v
           /\ AtShot(r, k, "st", v).shots[k].pid = r.shots[k].pid /\ AtShot(r, k, "st", v).shots[k].clip = r.shots[k].clip
           /\ AtShot(r, k, "st", v).shots[k].cost = r.shots[k].cost
<1> DEFINE y == [r.shots[k] EXCEPT !["st"] = v]
<1>1. r.shots[k] \in ShotRecords
  BY DEF EpisodeRecords
<1>2. y \in ShotRecords /\ y.st = v /\ y.pid = r.shots[k].pid /\ y.clip = r.shots[k].clip /\ y.cost = r.shots[k].cost
  BY <1>1 DEF ShotRecords
<1>3. AtShot(r, k, "st", v) = WithShot(r, k, y)
  BY DEF AtShot, WithShot
<1> HIDE DEF y
<1>4. Elsewhere(WithShot(r, k, y), r, k) /\ WithShot(r, k, y).shots[k] = y
  BY <1>2, ShotFields
<1> QED
  BY <1>2, <1>3, <1>4

LEMMA PidSet ==
    ASSUME NEW r \in EpisodeRecords, NEW k \in 1..Shots
    PROVE  /\ Elsewhere(AtShot(r, k, "pid", k), r, k) /\ AtShot(r, k, "pid", k).shots[k].pid = k
           /\ AtShot(r, k, "pid", k).shots[k].st = r.shots[k].st /\ AtShot(r, k, "pid", k).shots[k].clip = r.shots[k].clip
<1> DEFINE y == [r.shots[k] EXCEPT !["pid"] = k]
<1>1. r.shots[k] \in ShotRecords
  BY DEF EpisodeRecords
<1>2. y \in ShotRecords /\ y.pid = k /\ y.st = r.shots[k].st /\ y.clip = r.shots[k].clip
  BY <1>1 DEF ShotRecords
<1>3. AtShot(r, k, "pid", k) = WithShot(r, k, y)
  BY DEF AtShot, WithShot
<1> HIDE DEF y
<1>4. Elsewhere(WithShot(r, k, y), r, k) /\ WithShot(r, k, y).shots[k] = y
  BY <1>2, ShotFields
<1> QED
  BY <1>2, <1>3, <1>4

LEMMA ClipSet ==
    ASSUME NEW r \in EpisodeRecords, NEW k \in 1..Shots
    PROVE  /\ Elsewhere(AtShot(r, k, "clip", TRUE), r, k) /\ AtShot(r, k, "clip", TRUE).shots[k].clip = TRUE
           /\ AtShot(r, k, "clip", TRUE).shots[k].st = r.shots[k].st /\ AtShot(r, k, "clip", TRUE).shots[k].pid = r.shots[k].pid
<1> DEFINE y == [r.shots[k] EXCEPT !["clip"] = TRUE]
<1>1. r.shots[k] \in ShotRecords
  BY DEF EpisodeRecords
<1>2. y \in ShotRecords /\ y.clip = TRUE /\ y.st = r.shots[k].st /\ y.pid = r.shots[k].pid
  BY <1>1 DEF ShotRecords
<1>3. AtShot(r, k, "clip", TRUE) = WithShot(r, k, y)
  BY DEF AtShot, WithShot
<1> HIDE DEF y
<1>4. Elsewhere(WithShot(r, k, y), r, k) /\ WithShot(r, k, y).shots[k] = y
  BY <1>2, ShotFields
<1> QED
  BY <1>2, <1>3, <1>4

LEMMA CostSet ==
    ASSUME NEW r \in EpisodeRecords, NEW k \in 1..Shots, NEW v \in Actuals \cup {r.shots[k].cost}
    PROVE  /\ Elsewhere(AtShot(r, k, "cost", v), r, k) /\ AtShot(r, k, "cost", v).shots[k].cost = v
           /\ AtShot(r, k, "cost", v).shots[k].st = r.shots[k].st /\ AtShot(r, k, "cost", v).shots[k].pid = r.shots[k].pid /\ AtShot(r, k, "cost", v).shots[k].clip = r.shots[k].clip
<1> DEFINE y == [r.shots[k] EXCEPT !["cost"] = v]
<1>1. r.shots[k] \in ShotRecords
  BY DEF EpisodeRecords
<1>2. y \in ShotRecords /\ y.cost = v /\ y.st = r.shots[k].st /\ y.pid = r.shots[k].pid /\ y.clip = r.shots[k].clip
  BY <1>1 DEF ShotRecords
<1>3. AtShot(r, k, "cost", v) = WithShot(r, k, y)
  BY DEF AtShot, WithShot
<1> HIDE DEF y
<1>4. Elsewhere(WithShot(r, k, y), r, k) /\ WithShot(r, k, y).shots[k] = y
  BY <1>2, ShotFields
<1> QED
  BY <1>2, <1>3, <1>4

LEMMA AsIs ==
    ASSUME NEW r \in EpisodeRecords, NEW v \in JobStates
    PROVE  Otherwise(As(r, v), r) /\ As(r, v).st = v
  BY DEF EpisodeRecords, Otherwise, As

LEMMA PidIs ==
    ASSUME NEW r \in EpisodeRecords, NEW i \in (1..Shots) \cup {NoJob}
    PROVE  Otherwise([r EXCEPT !.pid = i], r) /\ [r EXCEPT !.pid = i].st = r.st
  BY DEF EpisodeRecords, Otherwise

WithBoth(r, i, v) == [r EXCEPT !.pid = i, !.st = v]

LEMMA BothAre ==
    ASSUME NEW r \in EpisodeRecords, NEW v \in JobStates, NEW i \in (1..Shots) \cup {NoJob}
    PROVE  Otherwise(WithBoth(r, i, v), r) /\ WithBoth(r, i, v).st = v
  BY DEF EpisodeRecords, Otherwise, WithBoth

(* What is left of a sound record when only other fields than the shots,  *)
(* or only the shot in hand, change.                                      *)
LEMMA Turn ==
    ASSUME NEW h, NEW x \in EpisodeRecords, NEW s, NEW sub, NEW b, Sound(h, s, sub, b),
           x.shots = h.shots, x.subs \in {0, x.narr},
           x.st \in {"composing", "completed"} => AllClips(h)
    PROVE  Sound(x, s, sub, b)
  BY SameShots DEF Sound

LEMMA Otherwise2 ==
    ASSUME NEW h, NEW x, NEW s, NEW sub, NEW b, Sound(h, s, sub, b), Otherwise(x, h),
           x.st = h.st \/ x.st \notin {"composing", "completed"} \/ AllClips(h)
    PROVE  Sound(x, s, sub, b)
<1>1. x.subs \in {0, x.narr} /\ (x.st \in {"composing", "completed"} => AllClips(h))
  BY DEF Otherwise, Sound, Made
<1> QED
  BY <1>1, Turn DEF Otherwise

LEMMA ShotTurn ==
    ASSUME NEW h, NEW x, NEW k \in 1..Shots, NEW s, NEW sub, NEW b, Sound(h, s, sub, b),
           ClipsUpTo(h, k - 1), ~h.shots[k].clip, Elsewhere(x, h, k),
           ShotMade(x.shots[k], k), x.shots[k].st # "queued",
           h.shots[k].pid # NoJob => x.shots[k].pid # NoJob
    PROVE  Sound(x, s, sub, b) /\ ClipsUpTo(x, k - 1)
<1>1. Made(h) /\ x \in EpisodeRecords
  BY DEF Sound, Elsewhere
<1>2. h.st \notin {"composing", "completed"}
  BY <1>1 DEF Made, AllClips
<1>3. x.st = h.st /\ x.subs \in {0, x.narr}
  BY <1>1 DEF Made, Elsewhere
<1>4. \A m \in 1..Shots : m # k => x.shots[m] = h.shots[m]
  BY DEF Elsewhere
<1>5. /\ Made(x) /\ (Unsent(h, sub) => Unsent(x, sub)) /\ (Paid(h, b) => Paid(x, b))
      /\ Covers(h, s) => Covers(x, s)
      /\ ClipsUpTo(x, k - 1)
  BY <1>1, <1>2, <1>3, <1>4, ShotGoesOn
<1> QED
  BY <1>5 DEF Sound

(* The places that ask nothing of the shots. *)
Plain == {"later", "again", "odd", "drop", "gone", "manual", "fail", "bill", "release"}
LEMMA PlainPlace ==
    ASSUME NEW x, NEW s, NEW sub, NEW b, NEW c \in Nat, NEW l \in Plain,
           Sound(x, s, sub, b), x.comp <= 2 + c, x.st # "completed"
    PROVE  AtWork(l, x, s, sub, b, c) /\ l \in WorkerLabels /\ l # "idle"
<1>1. x.comp \in Nat
  BY DEF Sound, Made, EpisodeRecords
<1>2. Counts(l, x, c)
  BY <1>1, SMTT(30) DEF Counts
<1>3. Placed(l, x, sub, b) /\ Behind(l, x, s)
  BY DEF Placed, Behind, Plain, Sent, Composing
<1>4. l \in WorkerLabels /\ l # "idle"
  BY DEF Plain, WorkerLabels
<1> QED
  BY <1>2, <1>3, <1>4 DEF AtWork

(* The record is the stored one. *)
LEMMA Saved ==
    ASSUME NEW l, NEW x, NEW s, NEW sub, NEW b, NEW c, Sound(x, s, sub, b), x.st # "completed",
           Counts(l, x, c), Placed(l, x, sub, b), Behind(l, x, x)
    PROVE  AtWork(l, x, x, sub, b, c)
<1>1. Covers(x, x)
  BY DEF Covers
<1> QED
  BY <1>1 DEF AtWork, Sound

(* At work the counts are below the bound but where the code gives up. *)
LEMMA Busy ==
    ASSUME NEW w, NEW j, One(w, j), EpisodeInv(w, j), pc[w] \notin {"idle", "giveUp", "bill"}
    PROVE  /\ Low(jobs[j], crashes) /\ crashes \in Nat
           /\ AtWork(pc[w], Held(w), jobs[j], submissions, bills[j], crashes)
           /\ Sound(Held(w), jobs[j], submissions, bills[j]) /\ Made(Held(w)) /\ Held(w) \in EpisodeRecords
           /\ pc[w] # "tryAgain" => Held(w).comp <= 2 + crashes
           /\ Held(w).comp <= 3 + crashes
           /\ pc[w] # "completeEpisode" => Held(w).st # "completed"
<1>1. Low(jobs[j], crashes) /\ crashes \in Nat
  BY DEF EpisodeInv, GivenUp, Shape
<1>2. AtWork(pc[w], Held(w), jobs[j], submissions, bills[j], crashes)
  BY DEF EpisodeInv, Working
<1>3. Sound(Held(w), jobs[j], submissions, bills[j]) /\ Made(Held(w)) /\ Held(w) \in EpisodeRecords
  BY <1>2 DEF AtWork, Sound, Made
<1> QED
  BY <1>1, <1>2, <1>3 DEF AtWork, Counts, Placed
(* The record with which the worker begins, after the claim stored z. *)
LEMMA BeginsWith ==
    ASSUME NEW z, NEW sub, NEW b, NEW c \in Nat, InStore(z, sub, b, c), Low(z, c), ~AtRest(z)
    PROVE  /\ \A l \in {"admitEpisode", "shot"} : AtWork(l, [z EXCEPT !.cur = 0], z, sub, b, c)
           /\ AtWork("fail", As(z, "failed"), z, sub, b, c)
<1> DEFINE x == [z EXCEPT !.cur = 0]
           y == As(z, "failed")
<1>1. z \in EpisodeRecords /\ z.st # "completed" /\ ~IsTerminal(z) /\ Made(z) /\ z.subs \in {0, z.narr}
  BY DEF InStore, Made, AtRest, IsTerminal
<1>2. Sound(z, z, sub, b)
  BY <1>1 DEF InStore, Sound, Covers
<1>3. z.comp <= 2 + c
  BY <1>1 DEF Low
<1>4. /\ x \in EpisodeRecords /\ x.shots = z.shots /\ x.subs = z.subs /\ x.narr = z.narr /\ x.comp = z.comp
      /\ x.st = z.st /\ x.cur = 0
  <2> QED
    BY <1>1, Ranges DEF EpisodeRecords
<1>5. /\ y \in EpisodeRecords /\ y.shots = z.shots /\ y.subs = z.subs /\ y.narr = z.narr /\ y.comp = z.comp
      /\ y.st = "failed"
  BY <1>1 DEF EpisodeRecords, As, JobStates
<1> HIDE DEF x, y
<1>6. Sound(x, z, sub, b)
  <2>1. x.st \in {"composing", "completed"} => AllClips(z)
    BY <1>1, <1>4 DEF Made
  <2> QED
    BY <1>1, <1>2, <1>4, <2>1, Turn
<1>7. Sound(y, z, sub, b)
  <2>1. y.st \notin {"composing", "completed"}
    BY <1>5
  <2> QED
    BY <1>1, <1>2, <1>5, <2>1, Turn
<1>8. AtWork("fail", y, z, sub, b, c)
  <2>1. "fail" \in Plain /\ y.st # "completed" /\ y.comp <= 2 + c
    BY <1>3, <1>5 DEF Plain
  <2> QED
    BY <1>7, <2>1, PlainPlace
<1>9. ASSUME NEW l \in {"admitEpisode", "shot"}
      PROVE  AtWork(l, x, z, sub, b, c)
  <2>1. x.comp \in Nat /\ x.comp <= 2 + c
    BY <1>3, <1>4 DEF EpisodeRecords
  <2>2. x.comp <= 3 + c
    BY <2>1, Numbers
  <2>3. Counts(l, x, c)
    BY <2>1, <2>2 DEF Counts
  <2>4. x.cur < Shots
    BY <1>4, Ranges
  <2>5. Placed(l, x, sub, b)
    BY <1>1, <1>4, <2>4 DEF Placed, Sent, Composing
  <2>6. ClipsUpTo(z, x.cur)
    BY <1>4, Ranges DEF ClipsUpTo
  <2>7. Behind(l, x, z)
    BY <2>6 DEF Behind, Composing
  <2> QED
    BY <1>6, <2>3, <2>5, <2>7 DEF AtWork
<1> QED
  BY <1>8, <1>9 DEF x, y

LEMMA EpisodeBegins ==
    ASSUME NEW w, NEW j, One(w, j), EpisodeInit
    PROVE  EpisodeInv(w, j)
<1>1. w \in Instances /\ j \in Jobs /\ Instances = {w} /\ Jobs = {j} /\ w \in Procs
      /\ \A p \in Requests : p \in Procs
  BY DEF One, Procs
<1>2. jobs = [x \in Jobs |-> Episode] /\ bills = [x \in Jobs |-> [state |-> "reserved", actual |-> 0]]
      /\ todo = [i \in Instances |-> {}] /\ retry = [i \in Instances |-> {}]
      /\ pc = [p \in Procs |-> "idle"] /\ task = [p \in Procs |-> NoTask]
      /\ submissions = [k \in 1..Shots |-> 0] /\ crashes = 0
  BY DEF EpisodeInit
<1>3. phase \in [Instances -> {"up", "down", "recovering"}] /\ phase[w] = "up"
  BY <1>1 DEF EpisodeInit
<1>4. queue = [i \in Instances |-> <<j>>]
  BY <1>1 DEF EpisodeInit
<1>5. queue \in [Instances -> {<<>>, <<j>>}] /\ queue[w] = <<j>> /\ queue[w] # <<>>
  BY <1>1, <1>4, Singles
<1>6. NoTask = [id |-> NoTask.id, rec |-> NoTask.rec, home |-> NoTask.home]
  BY DEF NoTask
<1>7. Shape(w, j)
  <2>1. jobs = [x \in Jobs |-> jobs[x]] /\ pc = [p \in Procs |-> pc[p]] /\ todo = [i \in Instances |-> todo[i]]
    BY <1>2
  <2>2. bills = [x \in Jobs |-> [state |-> bills[x].state, actual |-> bills[x].actual]]
    BY <1>2
  <2>3. \A p \in Procs : task[p] = NoTask /\ pc[p] = "idle"
    BY <1>2
  <2>4. task = [p \in Procs |-> [id |-> task[p].id, rec |-> task[p].rec, home |-> task[p].home]]
    BY <1>2, <1>6, <2>3
  <2>5. crashes \in Nat /\ submissions \in [1..Shots -> {0, 1}]
    BY <1>2, Ranges
  <2>6. retry \in [Instances -> SUBSET Jobs]
    BY <1>2
  <2> QED
    BY <1>3, <1>5, <2>1, <2>2, <2>3, <2>4, <2>5, <2>6 DEF Shape
<1>8. pc[w] = "idle" /\ retry[w] = {} /\ todo[w] = {} /\ \A p \in Requests : pc[p] = "idle"
  BY <1>1, <1>2
<1>9. OneHand(w, j) /\ Working(w, j) /\ Serving
  BY <1>3, <1>8 DEF OneHand, Working, Serving, WorkerLabels, RequestLabels
<1>10. Made(Episode) /\ Episode.comp = 0 /\ Episode.st = "queued" /\ ~Episode.forced
       /\ \A k \in 1..Shots : Episode.shots[k] = NewShot
  <2>1. NewShot \in ShotRecords /\ NewShot.st = "queued" /\ NewShot.pid = NoJob /\ NewShot.clip = FALSE
    BY DEF NewShot, ShotRecords, ShotStates
  <2>2. /\ Episode.st = "queued" /\ ~Episode.forced /\ Episode.comp = 0 /\ Episode.subs = 0 /\ Episode.narr = 0
        /\ \A k \in 1..Shots : Episode.shots[k] = NewShot
    BY DEF Episode
  <2>3. 0 \in 0..Shots /\ 0 \in Nat
    BY Ranges
  <2>4. Episode \in EpisodeRecords
    BY <2>1, <2>3 DEF Episode, EpisodeRecords, JobStates
  <2>5. \A k \in 1..Shots : ShotMade(Episode.shots[k], k)
    BY <2>1, <2>2 DEF ShotMade
  <2>6. \A k \in 2..Shots : Episode.shots[k].st = "queued"
    BY <2>1, <2>2, Ranges
  <2> QED
    BY <2>2, <2>4, <2>5, <2>6 DEF Made
<1>11. jobs[j] = Episode /\ bills[j].state = "reserved" /\ \A k \in 1..Shots : submissions[k] = 0
  BY <1>1, <1>2
<1>12. Episode.comp <= 2 + crashes /\ Episode.comp <= 3 + crashes
  BY <1>2, <1>10, Ranges, Numbers
<1>13. InStore(Episode, submissions, bills[j], crashes)
  BY <1>10, <1>11, <1>12 DEF InStore, Unsent, Paid
<1> QED
  BY <1>7, <1>9, <1>11, <1>12, <1>13 DEF EpisodeInv, Low

LEMMA InvGives ==
    ASSUME NEW w, NEW j, One(w, j), EpisodeInv(w, j)
    PROVE  EpisodeTypeOK /\ EachShotSubmittedOnce /\ ShotsInOrder /\ EpisodeIsBilled
<1> DEFINE s == jobs[j]
<1>1. Jobs = {j} /\ crashes \in Nat /\ submissions \in [1..Shots -> {0, 1}]
  BY DEF One, EpisodeInv, Shape
<1>2. InStore(s, submissions, bills[j], crashes) /\ Made(s) /\ s \in EpisodeRecords /\ s.comp <= 3 + crashes
  BY DEF EpisodeInv, InStore, Made
<1>3. /\ s.st \in JobStates /\ s.pid \in (1..Shots) \cup {NoJob} /\ s.comp \in Nat /\ s.subs \in {0, s.narr}
      /\ \A k \in 1..Shots : s.shots[k] \in ShotRecords
  BY <1>2 DEF EpisodeRecords, Made
<1>4. \A k \in 1..Shots : s.shots[k] \in [st : ShotStates, pid : {k, NoJob}, clip : BOOLEAN, cost : Actuals \cup {0}]
  <2> TAKE k \in 1..Shots
  <2>1. s.shots[k].pid \in {k, NoJob}
    BY <1>2 DEF Made, ShotMade
  <2>2. s.shots[k] \in ShotRecords
    BY <1>3
  <2> QED
    BY <2>1, <2>2 DEF ShotRecords
<1>5. s.comp \in 0..MaxCompositions + crashes
  BY <1>1, <1>2, <1>3, Numbers DEF MaxCompositions
<1>6. EpisodeTypeOK
  BY <1>1, <1>3, <1>4, <1>5 DEF EpisodeTypeOK
<1>7. EachShotSubmittedOnce
  BY <1>1, Ranges DEF EachShotSubmittedOnce
<1>8. ShotsInOrder
  BY <1>1, <1>2 DEF ShotsInOrder, Made
<1>9. EpisodeIsBilled
  BY <1>1, <1>2 DEF EpisodeIsBilled, InStore, Billed
<1> QED
  BY <1>6, <1>7, <1>8, <1>9

----------------------------------------------------------------------------
LEMMA AdmitEpisodeKeeps ==
    ASSUME NEW w, NEW j, One(w, j), EpisodeInv(w, j), AdmitEpisode(w)
    PROVE  EpisodeInv(w, j)' /\ Kept(j)
<1> DEFINE h == Held(w)
           x == As(h, "admitted")
<1>1. pc[w] = "admitEpisode" /\ Update(w, x, {"shot"}, "idle") /\ UNCHANGED Unmarked
  BY DEF AdmitEpisode, Is
<1>2. /\ AtWork("admitEpisode", h, jobs[j], submissions, bills[j], crashes) /\ h \in EpisodeRecords
      /\ Sound(h, jobs[j], submissions, bills[j]) /\ h.comp <= 2 + crashes /\ h.comp <= 3 + crashes
  BY <1>1, Busy
<1>3. Otherwise(x, h) /\ x.st = "admitted"
  BY <1>2, AsIs DEF JobStates
<1>4. Sound(x, jobs[j], submissions, bills[j])
  BY <1>2, <1>3, Otherwise2
<1>5. x.cur = 0 /\ x.comp <= 2 + crashes /\ x.comp <= 3 + crashes
  BY <1>2, <1>3 DEF AtWork, Placed, Otherwise
<1>6. 0 < Shots /\ 1..0 = {}
  BY ShotRange, SMT
<1>7. Counts("shot", x, crashes) /\ Placed("shot", x, submissions, bills[j]) /\ Behind("shot", x, x)
  BY <1>3, <1>5, <1>6 DEF Counts, Placed, Behind, Sent, Composing, ClipsUpTo
<1>8. AtWork("shot", x, x, submissions, bills[j], crashes)
  BY <1>3, <1>4, <1>7, Saved
<1>9. {"shot"} \in SUBSET WorkerLabels /\ pc[w] # "idle" /\ x.st # "completed"
  BY <1>1, <1>3 DEF WorkerLabels
<1>10. \A l \in {"shot"} : l # "idle" => AtWork(l, x, x, submissions, bills[j], crashes)
  BY <1>8
<1> HIDE DEF x
<1> QED
  BY <1>1, <1>4, <1>5, <1>9, <1>10, WorkerUpdates

LEMMA WorkerStops ==
    ASSUME NEW w, NEW j, One(w, j), EpisodeInv(w, j), pc[w] # "idle", Goto(w, "idle"),
           UNCHANGED <<jobs, bills, instance, submissions>>
    PROVE  EpisodeInv(w, j)' /\ Kept(j)
  BY WorkerTurns DEF Goto, WorkerLabels

LEMMA ReadShotKeeps ==
    ASSUME NEW w, NEW j, One(w, j), EpisodeInv(w, j), ReadShot(w)
    PROVE  EpisodeInv(w, j)' /\ Kept(j)
<1> DEFINE h == Held(w)
           s == jobs[j]
           k == h.cur + 1
           r == [s EXCEPT !.cur = k]
<1>1. /\ pc[w] = "shot" /\ UNCHANGED <<jobs, bills, instance, submissions>>
      /\ Stored(j) /\ Id(w) = j
  <2>1. pc[w] = "shot" /\ UNCHANGED <<jobs, bills, instance, submissions>>
    BY DEF ReadShot, Is, provider
  <2> QED
    BY <2>1, Hands
<1>2. \/ Goto(w, "idle")
      \/ Open(s) /\ NextShot(w, r)
  BY <1>1 DEF ReadShot
<1>3. CASE Goto(w, "idle")
  BY <1>1, <1>3, WorkerStops
<1>4. CASE Open(s) /\ NextShot(w, r)
  <2>1. /\ AtWork("shot", h, s, submissions, bills[j], crashes) /\ h \in EpisodeRecords
        /\ Low(s, crashes) /\ crashes \in Nat
    BY <1>1, Busy
  <2>2. ~IsTerminal(s) /\ s.st # "completed" /\ s.comp <= 2 + crashes
    BY <1>4, <2>1 DEF Open, Low, IsTerminal
  <2>3. s \in EpisodeRecords /\ Sound(s, s, submissions, bills[j]) /\ Made(s)
    BY <2>2 DEF EpisodeInv, InStore, Made, Sound, Covers
  <2>4. h.cur < Shots /\ ClipsUpTo(s, h.cur) /\ h.cur \in 0..Shots
    BY <2>1, <2>2 DEF AtWork, Placed, Behind, EpisodeRecords
  <2>5. k \in 1..Shots /\ k \in 0..Shots /\ k - 1 = h.cur
    BY <2>4, ShotRange, SMT
  <2>6. /\ r \in EpisodeRecords /\ r.shots = s.shots /\ r.cur = k /\ r.st = s.st
        /\ r.narr = s.narr /\ r.subs = s.subs /\ r.comp = s.comp
    BY <2>3, <2>5 DEF EpisodeRecords
  <2>7. Sound(r, s, submissions, bills[j])
    BY <2>3, <2>6, Turn DEF Made
  <2>8. ClipsUpTo(r, k - 1) /\ r.comp <= 2 + crashes /\ r.st # "completed"
    BY <2>2, <2>4, <2>5, <2>6 DEF ClipsUpTo
  <2>9. ShotMade(r.shots[k], k) /\ r.shots[k] \in ShotRecords
    BY <2>3, <2>5, <2>6 DEF Made, EpisodeRecords
  <2>10. r.comp <= 3 + crashes
    BY <2>1, <2>6, <2>8, Numbers DEF EpisodeRecords
  <2> HIDE DEF r, k
  <2>11. ASSUME NEW l \in Plain, NEW x, Otherwise(x, r), x.st \notin {"composing", "completed"} \/ x = r,
                Move(w, l, x)
         PROVE  EpisodeInv(w, j)' /\ Kept(j)
    <3>1. Sound(x, s, submissions, bills[j]) /\ x.comp <= 2 + crashes /\ x.st # "completed"
      BY <2>7, <2>8, <2>11, Otherwise2 DEF Otherwise
    <3>2. AtWork(l, x, s, submissions, bills[j], crashes) /\ l \in WorkerLabels /\ l # "idle"
      BY <2>1, <3>1, PlainPlace
    <3> QED
      BY <1>1, <2>1, <2>11, <3>2, WorkerTurns
  <2>12. CASE r.shots[k].clip
    <3>1. ClipsUpTo(r, k)
      <4>1. \A m \in 1..k : m = k \/ m \in 1..(k - 1)
        BY <2>5, ShotRange, SMT
      <4> QED
        BY <2>8, <2>12, <4>1 DEF ClipsUpTo
    <3>2. CASE k < Shots
      <4>1. Move(w, "shot", r)
        BY <1>4, <2>6, <2>12, <3>2 DEF NextShot
      <4>2. Placed("shot", r, submissions, bills[j]) /\ Behind("shot", r, s) /\ Counts("shot", r, crashes)
        BY <2>6, <2>8, <2>10, <3>1, <3>2 DEF Placed, Behind, Counts, Sent, Composing, ClipsUpTo
      <4>3. AtWork("shot", r, s, submissions, bills[j], crashes) /\ "shot" \in WorkerLabels
        BY <2>7, <4>2 DEF AtWork, WorkerLabels
      <4> QED
        BY <1>1, <2>1, <4>1, <4>3, WorkerTurns
    <3>3. CASE ~(k < Shots)
      <4>1. Move(w, "stage", r)
        BY <1>4, <2>6, <2>12, <3>3 DEF NextShot
      <4>2. k = Shots
        BY <2>5, <3>3, ShotRange, SMT
      <4>3. AllClips(r)
        BY <3>1, <4>2 DEF ClipsUpTo, AllClips
      <4>4. Placed("stage", r, submissions, bills[j]) /\ Behind("stage", r, s) /\ Counts("stage", r, crashes)
        BY <2>6, <2>8, <2>10, <4>3 DEF Placed, Behind, Counts, Sent, Composing
      <4>5. AtWork("stage", r, s, submissions, bills[j], crashes) /\ "stage" \in WorkerLabels
        BY <2>7, <4>4 DEF AtWork, WorkerLabels, Composing
      <4> QED
        BY <1>1, <2>1, <4>1, <4>5, WorkerTurns
    <3> QED
      BY <3>2, <3>3
  <2>13. CASE ~r.shots[k].clip /\ r.shots[k].pid # NoJob
    <3> DEFINE x == [r EXCEPT !.pid = r.shots[k].pid]
    <3>1. Move(w, "shotPoll", x)
      BY <1>4, <2>6, <2>13 DEF NextShot
    <3>2. r.shots[k].pid = k
      BY <2>9, <2>13 DEF ShotMade
    <3>3. Otherwise(x, r) /\ x.st = r.st
      BY <2>5, <2>6, <3>2, PidIs
    <3>4. Sound(x, s, submissions, bills[j])
      BY <2>7, <3>3, Otherwise2
    <3>5. /\ x.cur = k /\ x.shots = r.shots /\ x.comp <= 2 + crashes /\ x.comp <= 3 + crashes
          /\ x.st # "completed" /\ ClipsUpTo(x, k - 1)
      BY <2>6, <2>8, <2>10, <3>3 DEF Otherwise, ClipsUpTo
    <3> HIDE DEF x
    <3>6. Placed("shotPoll", x, submissions, bills[j]) /\ Behind("shotPoll", x, s) /\ Counts("shotPoll", x, crashes)
      BY <2>5, <2>13, <3>2, <3>5 DEF Placed, Behind, Counts, Sent, Composing
    <3>7. AtWork("shotPoll", x, s, submissions, bills[j], crashes) /\ "shotPoll" \in WorkerLabels
      BY <3>4, <3>6 DEF AtWork, WorkerLabels, Sent
    <3> QED
      BY <1>1, <2>1, <3>1, <3>7, WorkerTurns
  <2>14. CASE ~r.shots[k].clip /\ r.shots[k].pid = NoJob
    <3>1. \/ Move(w, "manual", As(r, "manual"))
          \/ Move(w, "later", r)
          \/ Move(w, "fail", As(r, "failed"))
          \/ r.shots[k].st \notin {"planning", "completed"} /\ Move(w, "intent", ShotIs(r, "planning"))
      BY <1>4, <2>6, <2>14 DEF NextShot, Manual, Fail
    <3>2. /\ Otherwise(As(r, "manual"), r) /\ As(r, "manual").st = "manual"
          /\ Otherwise(As(r, "failed"), r) /\ As(r, "failed").st = "failed"
      BY <2>6, AsIs DEF JobStates
    <3>3. CASE Move(w, "manual", As(r, "manual"))
      BY <2>11, <3>2, <3>3 DEF Plain
    <3>4. CASE Move(w, "fail", As(r, "failed"))
      BY <2>11, <3>2, <3>4 DEF Plain
    <3>5. CASE Move(w, "later", r)
      <4>1. Otherwise(r, r)
        BY <2>6 DEF Otherwise
      <4> QED
        BY <2>11, <3>5, <4>1 DEF Plain
    <3>6. CASE r.shots[k].st \notin {"planning", "completed"} /\ Move(w, "intent", ShotIs(r, "planning"))
      <4> DEFINE x == ShotIs(r, "planning")
      <4>1. "planning" \in ShotStates /\ x = AtShot(r, k, "st", "planning")
        BY <2>6 DEF ShotStates, ShotIs
      <4> HIDE DEF x
      <4>2. Elsewhere(x, r, k) /\ x.shots[k].st = "planning" /\ x.shots[k].pid = NoJob /\ ~x.shots[k].clip
        BY <2>5, <2>6, <2>14, <4>1, StateSet
      <4>3. r.shots[k].st = "queued" /\ submissions[k] = 0
        BY <2>5, <2>7, <2>9, <2>14, <3>6 DEF ShotMade, Sound, Unsent
      <4>4. ShotMade(x.shots[k], k) /\ x.shots[k].st # "queued"
        BY <4>2 DEF ShotMade
      <4>5. Sound(x, s, submissions, bills[j]) /\ ClipsUpTo(x, k - 1)
        BY <2>5, <2>7, <2>8, <2>14, <4>2, <4>4, ShotTurn
      <4>6. x.cur = k /\ x.comp <= 2 + crashes /\ x.comp <= 3 + crashes /\ x.st # "completed"
        BY <2>6, <2>8, <2>10, <4>2 DEF Elsewhere
      <4>7. Placed("intent", x, submissions, bills[j]) /\ Behind("intent", x, s) /\ Counts("intent", x, crashes)
        BY <2>5, <4>2, <4>3, <4>5, <4>6 DEF Placed, Behind, Counts, Sent, Composing
      <4>8. AtWork("intent", x, s, submissions, bills[j], crashes) /\ "intent" \in WorkerLabels
        BY <4>5, <4>7 DEF AtWork, WorkerLabels
      <4>9. Move(w, "intent", x)
        BY <3>6 DEF x
      <4> QED
        BY <1>1, <2>1, <4>8, <4>9, WorkerTurns
    <3> QED
      BY <3>1, <3>3, <3>4, <3>5, <3>6
  <2> QED
    BY <2>12, <2>13, <2>14
<1> QED
  BY <1>2, <1>3, <1>4

(* The worker leaves its place for one that asks nothing of the shots. *)
LEMMA WorkerLeaves ==
    ASSUME NEW w, NEW j, One(w, j), EpisodeInv(w, j),
           pc[w] \notin {"idle", "tryAgain", "giveUp", "bill", "completeEpisode"},
           NEW l \in Plain, NEW v \in JobStates \ {"composing", "completed"},
           Move(w, l, As(Held(w), v)), UNCHANGED <<jobs, bills, instance, submissions>>
    PROVE  EpisodeInv(w, j)' /\ Kept(j)
<1> DEFINE h == Held(w)
           x == As(h, v)
<1>1. /\ Low(jobs[j], crashes) /\ crashes \in Nat /\ Sound(h, jobs[j], submissions, bills[j])
      /\ h \in EpisodeRecords /\ h.comp <= 2 + crashes
  BY Busy
<1>2. Otherwise(x, h) /\ x.st = v
  BY <1>1, AsIs
<1>3. Sound(x, jobs[j], submissions, bills[j]) /\ x.comp <= 2 + crashes /\ x.st # "completed"
  BY <1>1, <1>2, Otherwise2 DEF Otherwise
<1> HIDE DEF x
<1>4. AtWork(l, x, jobs[j], submissions, bills[j], crashes) /\ l \in WorkerLabels /\ l # "idle"
  BY <1>1, <1>3, PlainPlace
<1>5. Move(w, l, x)
  BY DEF x
<1> QED
  BY <1>1, <1>4, <1>5, WorkerTurns

LEMMA SubmitShotKeeps ==
    ASSUME NEW w, NEW j, One(w, j), EpisodeInv(w, j), SubmitShot(w)
    PROVE  EpisodeInv(w, j)' /\ Kept(j)
<1> DEFINE h == Held(w)
           s == jobs[j]
           k == h.cur
           known == AtShot(ShotIs(h, "active"), k, "pid", k)
           st == IF known.st = "admitted" THEN "submitted" ELSE known.st
           saved == [known EXCEPT !.pid = k, !.st = st]
           sub == [submissions EXCEPT ![k] = @ + 1]
<1>1. pc[w] = "shotSubmit" /\ UNCHANGED <<jobs, bills, instance>>
  BY DEF SubmitShot, Is
<1>2. \/ Move(w, "manual", As(h, "manual")) /\ submissions' = submissions
      \/ Move(w, "manual", As(h, "manual")) /\ submissions' = sub
      \/ Move(w, "shotSave", saved) /\ submissions' = sub
      \/ Move(w, "saveOdd", saved) /\ submissions' = sub
  BY DEF SubmitShot, Manual, provider
<1>3. /\ AtWork("shotSubmit", h, s, submissions, bills[j], crashes) /\ h \in EpisodeRecords
      /\ Sound(h, s, submissions, bills[j]) /\ Made(h)
      /\ h.comp <= 2 + crashes /\ h.comp <= 3 + crashes /\ h.st # "completed"
      /\ Low(s, crashes) /\ crashes \in Nat
  BY <1>1, Busy
<1>4. /\ k \in 1..Shots /\ ~h.shots[k].clip /\ ClipsUpTo(h, k - 1)
      /\ h.shots[k].st = "planning" /\ submissions[k] = 0
      /\ ~IsTerminal(s) => s.shots[k].st # "queued"
  BY <1>3 DEF AtWork, Placed, Behind
<1>5. submissions \in [1..Shots -> {0, 1}] /\ InStore(s, submissions, bills[j], crashes)
  BY DEF EpisodeInv, Shape
<1>6. sub \in [1..Shots -> {0, 1}] /\ \A m \in 1..Shots : m # k => sub[m] = submissions[m]
  <2>1. submissions[k] + 1 = 1
    BY <1>4, SMT
  <2> QED
    BY <1>4, <1>5, <2>1
<1>7. Sound(h, s, sub, bills[j]) /\ InStore(s, sub, bills[j], crashes)
  <2>1. Unsent(h, sub)
    BY <1>3, <1>4, <1>6 DEF Sound, Unsent
  <2>2. ~IsTerminal(s) => Unsent(s, sub)
    BY <1>4, <1>5, <1>6 DEF InStore, Unsent
  <2> QED
    BY <1>3, <1>5, <2>1, <2>2 DEF Sound, InStore
<1> HIDE DEF sub
<1>8. ASSUME NEW l \in WorkerLabels \ {"idle"}, NEW x, Move(w, l, x), submissions' = sub,
             AtWork(l, x, s, sub, bills[j], crashes)
      PROVE  EpisodeInv(w, j)'
  <2>1. /\ jobs' = jobs /\ bills' = bills /\ phase' = phase /\ todo' = todo /\ queue' = queue
        /\ retry' = retry /\ crashes' = crashes
    BY <1>1 DEF instance
  <2>2. /\ jobs = [y \in Jobs |-> jobs[y]]
        /\ bills = [y \in Jobs |-> [state |-> bills[y].state, actual |-> bills[y].actual]]
        /\ retry \in [Instances -> SUBSET Jobs] /\ retry[w] = {}
    BY <1>1 DEF EpisodeInv, Shape, OneHand
  <2> QED
    BY <1>1, <1>3, <1>6, <1>7, <1>8, <2>1, <2>2, WorkerGoes
<1>9. CASE Move(w, "manual", As(h, "manual")) /\ submissions' = submissions
  <2>1. "manual" \in Plain /\ "manual" \in JobStates \ {"composing", "completed"}
    BY DEF Plain, JobStates
  <2> QED
    BY <1>1, <1>9, <2>1, WorkerLeaves
<1>10. CASE Move(w, "manual", As(h, "manual")) /\ submissions' = sub
  <2> DEFINE x == As(h, "manual")
  <2>1. Otherwise(x, h) /\ x.st = "manual"
    BY <1>3, AsIs DEF JobStates
  <2>2. Sound(x, s, sub, bills[j]) /\ x.comp <= 2 + crashes /\ x.st # "completed"
    BY <1>3, <1>7, <2>1, Otherwise2 DEF Otherwise
  <2> HIDE DEF x
  <2>3. AtWork("manual", x, s, sub, bills[j], crashes) /\ "manual" \in WorkerLabels \ {"idle"}
    BY <1>3, <2>2, PlainPlace DEF Plain
  <2>4. Move(w, "manual", x)
    BY <1>10 DEF x
  <2> QED
    BY <1>1, <1>8, <1>10, <2>3, <2>4, KeptAsItIs
<1>11. CASE submissions' = sub /\ (Move(w, "shotSave", saved) \/ Move(w, "saveOdd", saved))
  <2> DEFINE y == ShotIs(h, "active")
  <2>1. y = AtShot(h, k, "st", "active") /\ "active" \in ShotStates
    BY DEF ShotIs, ShotStates
  <2> HIDE DEF y
  <2>2. Elsewhere(y, h, k) /\ y.shots[k].st = "active" /\ y.shots[k].clip = h.shots[k].clip
    BY <1>3, <1>4, <2>1, StateSet
  <2>b. y \in EpisodeRecords
    BY <2>2 DEF Elsewhere
  <2>3. known = AtShot(y, k, "pid", k)
    BY DEF y
  <2> HIDE DEF known
  <2>c. /\ Elsewhere(known, y, k) /\ known.shots[k].pid = k /\ known.shots[k].st = y.shots[k].st
        /\ known.shots[k].clip = y.shots[k].clip
    BY <1>4, <2>3, <2>b, PidSet
  <2>4. /\ Elsewhere(known, y, k) /\ known.shots[k].pid = k /\ known.shots[k].st = "active"
        /\ known.shots[k].clip = h.shots[k].clip
    BY <2>2, <2>c
  <2>5. Elsewhere(known, h, k)
    BY <2>2, <2>4 DEF Elsewhere
  <2>6. ShotMade(known.shots[k], k) /\ known.shots[k].st # "queued" /\ known.shots[k].pid # NoJob
    BY <1>4, <2>4, ShotRange DEF ShotMade
  <2>7. Sound(known, s, sub, bills[j]) /\ ClipsUpTo(known, k - 1)
    BY <1>4, <1>7, <2>5, <2>6, ShotTurn
  <2>8. known \in EpisodeRecords /\ st \in JobStates /\ k \in (1..Shots) \cup {NoJob}
    BY <1>4, <2>5 DEF Elsewhere, EpisodeRecords, JobStates
  <2>9. known.st = h.st /\ (st = "submitted" \/ st = h.st)
    BY <2>5 DEF Elsewhere
  <2> HIDE DEF st
  <2>a. saved = WithBoth(known, k, st)
    BY DEF WithBoth
  <2> HIDE DEF saved
  <2>10. Otherwise(saved, known) /\ saved.st = st
    BY <2>8, <2>a, BothAre
  <2>11. Sound(saved, s, sub, bills[j])
    BY <2>7, <2>9, <2>10, Otherwise2
  <2>12. /\ saved.cur = k /\ saved.shots = known.shots /\ saved.comp <= 2 + crashes
         /\ saved.comp <= 3 + crashes /\ saved.st # "completed" /\ ClipsUpTo(saved, k - 1)
    BY <1>3, <2>5, <2>7, <2>9, <2>10 DEF Otherwise, Elsewhere, ClipsUpTo
  <2>13. ASSUME NEW l \in {"shotSave", "saveOdd"}
         PROVE  AtWork(l, saved, s, sub, bills[j], crashes)
    <3>1. Placed(l, saved, sub, bills[j]) /\ Behind(l, saved, s) /\ Counts(l, saved, crashes)
      BY <1>4, <2>4, <2>12 DEF Placed, Behind, Counts, Sent, Composing
    <3> QED
      BY <2>11, <3>1 DEF AtWork
  <2>14. "shotSave" \in WorkerLabels \ {"idle"} /\ "saveOdd" \in WorkerLabels \ {"idle"}
    BY DEF WorkerLabels, Sent
  <2> QED
    BY <1>1, <1>8, <1>11, <2>13, <2>14, KeptAsItIs
<1> QED
  BY <1>2, <1>9, <1>10, <1>11

(* A record whose shot is at the provider. *)
OnShot(x, s, sub, b) ==
    /\ Sound(x, s, sub, b) /\ x.st # "completed"
    /\ x.cur \in 1..Shots /\ ~x.shots[x.cur].clip /\ ClipsUpTo(x, x.cur - 1) /\ x.shots[x.cur].pid = x.cur

LEMMA OnShotPlace ==
    ASSUME NEW x, NEW s, NEW sub, NEW b, NEW c \in Nat, OnShot(x, s, sub, b), x.comp <= 2 + c,
           NEW l \in Sent \cup Plain
    PROVE  /\ l \in WorkerLabels /\ l # "idle" /\ Sound(x, s, sub, b) /\ x.st # "completed" /\ x.comp <= 3 + c
           /\ AtWork(l, x, s, sub, b, c) /\ AtWork(l, x, x, sub, b, c)
<1>1. x.comp \in Nat
  BY DEF OnShot, Sound, Made, EpisodeRecords
<1>2. x.comp <= 3 + c
  BY <1>1, SMTT(30)
<1>3. l \in WorkerLabels /\ l # "idle" /\ l # "completeEpisode"
  BY DEF Sent, Plain, WorkerLabels
<1>4. l \notin Composing \cup {"shot", "shotSubmit", "intent", "admitEpisode"}
  BY DEF Sent, Plain, Composing
<1>5. Counts(l, x, c)
  BY <1>2 DEF Counts
<1>6. Placed(l, x, sub, b)
  BY <1>3, <1>4 DEF Placed, OnShot
<1>7. Behind(l, x, s) /\ Behind(l, x, x)
  BY <1>4 DEF Behind
<1>8. AtWork(l, x, x, sub, b, c)
  BY <1>5, <1>6, <1>7, Saved DEF OnShot
<1>9. AtWork(l, x, s, sub, b, c)
  BY <1>5, <1>6, <1>7 DEF AtWork, OnShot
<1> QED
  BY <1>2, <1>3, <1>8, <1>9 DEF OnShot

LEMMA ShotStays ==
    ASSUME NEW h, NEW s, NEW sub, NEW b, OnShot(h, s, sub, b), NEW v \in {"active", "failed", "completed"}
    PROVE  OnShot(ShotIs(h, v), s, sub, b) /\ Elsewhere(ShotIs(h, v), h, h.cur)
<1> DEFINE k == h.cur
           x == ShotIs(h, v)
<1>1. h \in EpisodeRecords /\ Sound(h, s, sub, b) /\ k \in 1..Shots /\ h.shots[k].pid = k /\ ~h.shots[k].clip
  BY DEF OnShot, Sound, Made
<1>2. v \in ShotStates /\ x = AtShot(h, k, "st", v)
  BY DEF ShotIs, ShotStates
<1> HIDE DEF x
<1>3. /\ Elsewhere(x, h, k) /\ x.shots[k].st = v /\ x.shots[k].pid = h.shots[k].pid
      /\ x.shots[k].clip = h.shots[k].clip
  BY <1>1, <1>2, StateSet
<1>4. ShotMade(x.shots[k], k) /\ x.shots[k].st # "queued" /\ x.shots[k].pid # NoJob
  BY <1>1, <1>3, ShotRange DEF ShotMade
<1>5. Sound(x, s, sub, b) /\ ClipsUpTo(x, k - 1)
  BY <1>1, <1>3, <1>4, ShotTurn DEF OnShot
<1>6. x.cur = k /\ x.st = h.st
  BY <1>3 DEF Elsewhere
<1>7. OnShot(x, s, sub, b)
  BY <1>1, <1>3, <1>5, <1>6 DEF OnShot
<1> QED
  BY <1>3, <1>7 DEF x

LEMMA CostStays ==
    ASSUME NEW h, NEW s, NEW sub, NEW b, OnShot(h, s, sub, b), NEW v \in Actuals \cup {h.shots[h.cur].cost}
    PROVE  OnShot(AtShot(h, h.cur, "cost", v), s, sub, b) /\ Elsewhere(AtShot(h, h.cur, "cost", v), h, h.cur)
<1> DEFINE k == h.cur
           x == AtShot(h, h.cur, "cost", v)
<1>1. h \in EpisodeRecords /\ Sound(h, s, sub, b) /\ k \in 1..Shots /\ h.shots[k].pid = k /\ ~h.shots[k].clip
  BY DEF OnShot, Sound, Made
<1>2. /\ Elsewhere(x, h, k) /\ x.shots[k].st = h.shots[k].st /\ x.shots[k].pid = h.shots[k].pid
      /\ x.shots[k].clip = h.shots[k].clip
  BY <1>1, CostSet
<1> HIDE DEF x
<1>3. ShotMade(h.shots[k], k)
  BY <1>1 DEF Sound, Made
<1>4. ShotMade(x.shots[k], k) /\ x.shots[k].st # "queued" /\ x.shots[k].pid # NoJob
  BY <1>1, <1>2, <1>3, ShotRange DEF ShotMade
<1>5. Sound(x, s, sub, b) /\ ClipsUpTo(x, k - 1)
  BY <1>1, <1>2, <1>4, ShotTurn DEF OnShot
<1>6. x.cur = k /\ x.st = h.st
  BY <1>2 DEF Elsewhere
<1>7. OnShot(x, s, sub, b)
  BY <1>1, <1>2, <1>5, <1>6 DEF OnShot
<1> QED
  BY <1>2, <1>7 DEF x

LEMMA ShotUnder ==
    ASSUME NEW h, NEW s, NEW sub, NEW b, OnShot(h, s, sub, b), NEW x, Otherwise(x, h),
           x.st = h.st \/ x.st \notin {"composing", "completed"}
    PROVE  OnShot(x, s, sub, b)
<1>1. Sound(x, s, sub, b)
  BY Otherwise2 DEF OnShot
<1>2. x.shots = h.shots /\ x.cur = h.cur
  BY DEF Otherwise
<1> QED
  BY <1>1, <1>2 DEF OnShot, ClipsUpTo

LEMMA AtTheProvider ==
    ASSUME NEW w, NEW j, One(w, j), EpisodeInv(w, j), pc[w] \in Sent
    PROVE  /\ OnShot(Held(w), jobs[j], submissions, bills[j]) /\ Held(w).comp <= 2 + crashes
           /\ pc[w] \notin {"idle", "tryAgain", "giveUp", "bill", "completeEpisode"}
           /\ Low(jobs[j], crashes) /\ crashes \in Nat /\ Held(w) \in EpisodeRecords
<1>1. pc[w] \notin {"idle", "tryAgain", "giveUp", "bill", "completeEpisode"}
  BY DEF Sent
<1>2. /\ AtWork(pc[w], Held(w), jobs[j], submissions, bills[j], crashes) /\ Held(w).comp <= 2 + crashes
      /\ Low(jobs[j], crashes) /\ crashes \in Nat /\ Held(w) \in EpisodeRecords
      /\ Sound(Held(w), jobs[j], submissions, bills[j]) /\ Held(w).st # "completed"
  BY <1>1, Busy
<1>3. OnShot(Held(w), jobs[j], submissions, bills[j])
  BY <1>2 DEF AtWork, Placed, OnShot
<1> QED
  BY <1>1, <1>2, <1>3

LEMMA GetShotKeeps ==
    ASSUME NEW w, NEW j, One(w, j), EpisodeInv(w, j), GetShot(w)
    PROVE  EpisodeInv(w, j)' /\ Kept(j)
<1> DEFINE h == Held(w)
           s == jobs[j]
           act == ShotIs(h, "active")
           st == IF act.st = "submitted" THEN "processing" ELSE act.st
           gone == [h EXCEPT !.st = "cancelled", !.pid = NoJob]
           lost == ShotIs(h, "failed")
           done == ShotIs(h, "completed")
<1>1. pc[w] = "shotPoll" /\ UNCHANGED <<jobs, bills, instance, submissions>> /\ pc[w] \in Sent
  BY DEF GetShot, Is, provider, Sent
<1>2. \/ Move(w, "shotKeep", h)
      \/ Move(w, "shotKeep", act)
      \/ Move(w, "manual", As(h, "manual"))
      \/ Move(w, "shotKeep", [act EXCEPT !.st = st])
      \/ Move(w, "fail", As(lost, "failed"))
      \/ Move(w, "gone", gone)
      \/ \E c \in Actuals \cup {h.shots[h.cur].cost} : Move(w, "shotDone", AtShot(done, h.cur, "cost", c))
  BY DEF GetShot, Goto, Manual, Fail
<1>3. /\ OnShot(h, s, submissions, bills[j]) /\ h.comp <= 2 + crashes
      /\ pc[w] \notin {"idle", "tryAgain", "giveUp", "bill", "completeEpisode"}
      /\ Low(s, crashes) /\ crashes \in Nat /\ h \in EpisodeRecords
  BY <1>1, AtTheProvider
<1>4. ASSUME NEW x, NEW l \in Sent \cup Plain, Move(w, l, x), OnShot(x, s, submissions, bills[j]),
             x.comp <= 2 + crashes
      PROVE  EpisodeInv(w, j)' /\ Kept(j)
  <2>1. AtWork(l, x, s, submissions, bills[j], crashes) /\ l \in WorkerLabels /\ l # "idle"
    BY <1>3, <1>4, OnShotPlace
  <2> QED
    BY <1>1, <1>3, <1>4, <2>1, WorkerTurns
<1>5. "shotKeep" \in Sent \cup Plain /\ "fail" \in Plain /\ "gone" \in Plain /\ "shotDone" \in Sent \cup Plain
  BY DEF Sent, Plain
<1>6. /\ OnShot(act, s, submissions, bills[j]) /\ Elsewhere(act, h, h.cur)
      /\ OnShot(lost, s, submissions, bills[j]) /\ Elsewhere(lost, h, h.cur)
      /\ OnShot(done, s, submissions, bills[j]) /\ Elsewhere(done, h, h.cur)
  BY <1>3, ShotStays
<1> HIDE DEF act, lost, done
<1>7. /\ act \in EpisodeRecords /\ act.comp <= 2 + crashes /\ act.st = h.st
      /\ lost \in EpisodeRecords /\ lost.comp <= 2 + crashes
      /\ done \in EpisodeRecords /\ done.comp <= 2 + crashes /\ done.cur = h.cur
  BY <1>3, <1>6 DEF Elsewhere
<1>8. CASE Move(w, "shotKeep", h)
  BY <1>3, <1>4, <1>5, <1>8
<1>9. CASE Move(w, "shotKeep", act)
  BY <1>4, <1>5, <1>6, <1>7, <1>9
<1>10. CASE Move(w, "manual", As(h, "manual"))
  <2>1. "manual" \in Plain /\ "manual" \in JobStates \ {"composing", "completed"}
    BY DEF Plain, JobStates
  <2> QED
    BY <1>1, <1>3, <1>10, <2>1, WorkerLeaves
<1>11. CASE Move(w, "shotKeep", [act EXCEPT !.st = st])
  <2> DEFINE x == As(act, st)
  <2>1. st = "processing" \/ st = act.st
    OBVIOUS
  <2>2. st \in JobStates
    BY <1>7, <2>1 DEF EpisodeRecords, JobStates
  <2>3. Move(w, "shotKeep", x)
    BY <1>11 DEF As
  <2> HIDE DEF st
  <2>4. Otherwise(x, act) /\ x.st = st
    BY <1>7, <2>2, AsIs
  <2> HIDE DEF x
  <2>5. OnShot(x, s, submissions, bills[j])
    BY <1>6, <2>1, <2>4, ShotUnder
  <2>6. x.comp <= 2 + crashes
    BY <1>7, <2>4 DEF Otherwise
  <2> QED
    BY <1>4, <1>5, <2>3, <2>5, <2>6
<1>12. CASE Move(w, "fail", As(lost, "failed"))
  <2> DEFINE x == As(lost, "failed")
  <2>1. Otherwise(x, lost) /\ x.st = "failed"
    BY <1>7, AsIs DEF JobStates
  <2>2. Move(w, "fail", x)
    BY <1>12
  <2> HIDE DEF x
  <2>3. OnShot(x, s, submissions, bills[j])
    BY <1>6, <2>1, ShotUnder
  <2>4. x.comp <= 2 + crashes
    BY <1>7, <2>1 DEF Otherwise
  <2> QED
    BY <1>4, <1>5, <2>2, <2>3, <2>4
<1>13. CASE Move(w, "gone", gone)
  <2>0. "cancelled" \in JobStates /\ NoJob \in (1..Shots) \cup {NoJob}
    BY DEF JobStates
  <2>a. gone = WithBoth(h, NoJob, "cancelled")
    BY <1>3 DEF WithBoth, EpisodeRecords
  <2> HIDE DEF gone
  <2>1. Otherwise(gone, h) /\ gone.st = "cancelled"
    BY <1>3, <2>0, <2>a, BothAre
  <2>2. OnShot(gone, s, submissions, bills[j])
    BY <1>3, <2>1, ShotUnder
  <2>3. gone.comp <= 2 + crashes
    BY <1>3, <2>1 DEF Otherwise
  <2> QED
    BY <1>4, <1>5, <1>13, <2>2, <2>3
<1>14. ASSUME NEW c \in Actuals \cup {h.shots[h.cur].cost}, Move(w, "shotDone", AtShot(done, h.cur, "cost", c))
       PROVE  EpisodeInv(w, j)' /\ Kept(j)
  <2> DEFINE x == AtShot(done, done.cur, "cost", c)
  <2>1. done.shots[done.cur].cost = h.shots[h.cur].cost
    <3>1. done = AtShot(h, h.cur, "st", "completed") /\ "completed" \in ShotStates /\ h.cur \in 1..Shots
      BY <1>3 DEF done, ShotIs, ShotStates, OnShot
    <3>2. done.shots[h.cur].cost = h.shots[h.cur].cost
      BY <1>3, <3>1, StateSet
    <3> QED
      BY <1>7, <3>2
  <2>2. c \in Actuals \cup {done.shots[done.cur].cost}
    BY <2>1
  <2>3. OnShot(x, s, submissions, bills[j]) /\ Elsewhere(x, done, done.cur)
    BY <1>6, <2>2, CostStays
  <2>4. Move(w, "shotDone", x)
    BY <1>7, <1>14
  <2> HIDE DEF x
  <2>5. x.comp <= 2 + crashes
    BY <1>7, <2>3 DEF Elsewhere
  <2> QED
    BY <1>4, <1>5, <2>3, <2>4, <2>5
<1> QED
  BY <1>2, <1>8, <1>9, <1>10, <1>11, <1>12, <1>13, <1>14

LEMMA SentPuts ==
    ASSUME NEW w, NEW j, One(w, j), EpisodeInv(w, j), pc[w] \in Sent,
           NEW x, NEW ok \in SUBSET (Sent \cup Plain), NEW err, Update(w, x, ok, err), UNCHANGED Unmarked,
           err = "idle" \/ (err = "drop" /\ x = Held(w)),
           OnShot(x, jobs[j], submissions, bills[j]), x.comp <= 2 + crashes, x.comp <= 3 + crashes
    PROVE  EpisodeInv(w, j)' /\ Kept(j)
<1>1. crashes \in Nat /\ pc[w] # "idle"
  BY AtTheProvider
<1>2. ok \in SUBSET WorkerLabels
  BY DEF WorkerLabels, Sent, Plain
<1>3. \A l \in ok : l # "idle" => AtWork(l, x, x, submissions, bills[j], crashes)
  BY <1>1, OnShotPlace
<1>4. Sound(x, jobs[j], submissions, bills[j]) /\ x.st # "completed"
  BY DEF OnShot
<1> QED
  BY <1>1, <1>2, <1>3, <1>4, WorkerUpdates

LEMMA ClipSavedIs ==
    ASSUME NEW h, NEW s, NEW sub, NEW b, OnShot(h, s, sub, b)
    PROVE  /\ Sound(ClipSaved(h), s, sub, b) /\ ClipSaved(h).st # "completed"
           /\ ClipSaved(h).cur = h.cur /\ ClipSaved(h).comp = h.comp
           /\ ClipsUpTo(ClipSaved(h), h.cur) /\ (h.cur = Shots => AllClips(ClipSaved(h)))
<1> DEFINE k == h.cur
           y == ShotIs(h, "completed")
           z == AtShot(y, k, "clip", TRUE)
           st == IF k = Shots THEN "composing" ELSE IF z.st = "submitted" THEN "processing" ELSE z.st
           x == ClipSaved(h)
<1>1. OnShot(y, s, sub, b) /\ Elsewhere(y, h, k)
  BY ShotStays
<1>2. x = WithBoth(z, NoJob, st)
  BY DEF ClipSaved, WithBoth
<1> HIDE DEF x, y
<1>3. /\ y \in EpisodeRecords /\ Sound(y, s, sub, b) /\ k \in 1..Shots /\ y.shots[k].pid = k
      /\ ~y.shots[k].clip /\ y.cur = k /\ ClipsUpTo(y, k - 1) /\ y.st = h.st /\ y.comp = h.comp
  BY <1>1 DEF OnShot, Elsewhere
<1>4. /\ Elsewhere(z, y, k) /\ z.shots[k].clip /\ z.shots[k].st = y.shots[k].st
      /\ z.shots[k].pid = y.shots[k].pid
  BY <1>3, ClipSet
<1> HIDE DEF z
<1>5. /\ ShotMade(z.shots[k], k) /\ z.shots[k].st # "queued" /\ z.shots[k].pid # NoJob
  <2>1. ShotMade(y.shots[k], k)
    BY <1>3 DEF Sound, Made
  <2> QED
    BY <1>3, <1>4, <2>1, ShotRange DEF ShotMade
<1>6. Sound(z, s, sub, b) /\ ClipsUpTo(z, k - 1)
  BY <1>3, <1>4, <1>5, ShotTurn
<1>7. ClipsUpTo(z, k)
  <2>1. \A m \in 1..k : m = k \/ m \in 1..(k - 1)
    BY <1>3, ShotRange, SMT
  <2> QED
    BY <1>4, <1>6, <2>1 DEF ClipsUpTo
<1>8. k = Shots => AllClips(z)
  BY <1>7 DEF ClipsUpTo, AllClips
<1>9. z \in EpisodeRecords /\ z.st = h.st /\ z.cur = k /\ z.comp = h.comp
  BY <1>3, <1>4 DEF Elsewhere
<1>10. st \in {"composing", "processing", z.st} /\ (st = "composing" /\ z.st # "composing" => AllClips(z))
  BY <1>8
<1>11. st \in JobStates /\ NoJob \in (1..Shots) \cup {NoJob} /\ st # "completed"
  BY <1>9, <1>10 DEF EpisodeRecords, JobStates, OnShot
<1> HIDE DEF st
<1>12. Otherwise(x, z) /\ x.st = st
  BY <1>2, <1>9, <1>11, BothAre
<1>13. x.st = z.st \/ x.st \notin {"composing", "completed"} \/ AllClips(z)
  BY <1>10, <1>11, <1>12
<1>14. Sound(x, s, sub, b)
  BY <1>6, <1>12, <1>13, Otherwise2
<1>15. x.shots = z.shots /\ x.cur = k /\ x.comp = h.comp
  BY <1>9, <1>12 DEF Otherwise
<1>16. ClipsUpTo(x, k) /\ (k = Shots => AllClips(x))
  BY <1>7, <1>8, <1>15 DEF ClipsUpTo, AllClips
<1> QED
  BY <1>11, <1>12, <1>14, <1>15, <1>16 DEF x

LEMMA PutShotKeeps ==
    ASSUME NEW w, NEW j, One(w, j), EpisodeInv(w, j), PutShot(w)
    PROVE  EpisodeInv(w, j)' /\ Kept(j)
<1> DEFINE h == Held(w)
           s == jobs[j]
<1>1. UNCHANGED Unmarked
  BY DEF PutShot
<1>2. CASE pc[w] = "intent" /\ Update(w, h, {"shotSubmit"}, "idle")
  <2>1. /\ AtWork("intent", h, s, submissions, bills[j], crashes) /\ Sound(h, s, submissions, bills[j])
        /\ h.comp <= 2 + crashes /\ h.comp <= 3 + crashes /\ h.st # "completed"
    BY <1>2, Busy
  <2>2. /\ Placed("shotSubmit", h, submissions, bills[j]) /\ Counts("shotSubmit", h, crashes)
        /\ Behind("shotSubmit", h, h)
    BY <2>1 DEF AtWork, Placed, Counts, Behind, Sent, Composing
  <2>3. AtWork("shotSubmit", h, h, submissions, bills[j], crashes)
    BY <2>1, <2>2, Saved
  <2>4. \A l \in {"shotSubmit"} : l # "idle" => AtWork(l, h, h, submissions, bills[j], crashes)
    BY <2>3
  <2>5. {"shotSubmit"} \in SUBSET WorkerLabels /\ pc[w] # "idle"
    BY <1>2 DEF WorkerLabels
  <2> QED
    BY <1>1, <1>2, <2>1, <2>4, <2>5, WorkerUpdates
<1>3. ASSUME pc[w] \in Sent
      PROVE  OnShot(h, s, submissions, bills[j]) /\ h.comp <= 2 + crashes /\ h.comp <= 3 + crashes
  <2>1. OnShot(h, s, submissions, bills[j]) /\ h.comp <= 2 + crashes
        /\ pc[w] \notin {"idle", "giveUp", "bill"}
    BY <1>3, AtTheProvider
  <2> QED
    BY <2>1, Busy
<1>4. CASE pc[w] = "shotSave" /\ Update(w, h, {"shotPoll"}, "drop")
  <2>1. {"shotPoll"} \in SUBSET (Sent \cup Plain) /\ pc[w] \in Sent
    BY <1>4 DEF Sent
  <2> QED
    BY <1>1, <1>3, <1>4, <2>1, SentPuts
<1>5. CASE pc[w] = "shotKeep" /\ Update(w, h, {"shotPoll", "later"}, "idle")
  <2>1. {"shotPoll", "later"} \in SUBSET (Sent \cup Plain) /\ pc[w] \in Sent
    BY <1>5 DEF Sent, Plain
  <2> QED
    BY <1>1, <1>3, <1>5, <2>1, SentPuts
<1>6. CASE pc[w] = "shotDone" /\ Update(w, h, {"shotUpload", "odd"}, "idle")
  <2>1. {"shotUpload", "odd"} \in SUBSET (Sent \cup Plain) /\ pc[w] \in Sent
    BY <1>6 DEF Sent, Plain
  <2> QED
    BY <1>1, <1>3, <1>6, <2>1, SentPuts
<1>7. CASE pc[w] = "shotUpload" /\ Update(w, ShotIs(h, "active"), {"clip", "later", "odd"}, "idle")
  <2> DEFINE x == ShotIs(h, "active")
  <2>1. {"clip", "later", "odd"} \in SUBSET (Sent \cup Plain) /\ pc[w] \in Sent
    BY <1>7 DEF Sent, Plain
  <2>2. OnShot(h, s, submissions, bills[j]) /\ h.comp <= 2 + crashes /\ h.comp <= 3 + crashes
    BY <1>3, <2>1
  <2>3. OnShot(x, s, submissions, bills[j]) /\ Elsewhere(x, h, h.cur)
    BY <2>2, ShotStays
  <2>4. Update(w, x, {"clip", "later", "odd"}, "idle")
    BY <1>7
  <2> HIDE DEF x
  <2>5. x.comp <= 2 + crashes /\ x.comp <= 3 + crashes
    BY <2>2, <2>3 DEF Elsewhere
  <2> QED
    BY <1>1, <2>1, <2>3, <2>4, <2>5, SentPuts
<1>8. CASE /\ pc[w] = "clip"
           /\ Update(w, ClipSaved(h), {IF h.cur < Shots THEN "shot" ELSE "stage"}, "idle")
  <2> DEFINE x == ClipSaved(h)
             l == IF h.cur < Shots THEN "shot" ELSE "stage"
  <2>1. pc[w] \in Sent /\ pc[w] # "idle"
    BY <1>8 DEF Sent
  <2>2. OnShot(h, s, submissions, bills[j]) /\ h.comp <= 2 + crashes /\ h.comp <= 3 + crashes
    BY <1>3, <2>1
  <2>3. /\ Sound(x, s, submissions, bills[j]) /\ x.st # "completed" /\ x.cur = h.cur /\ x.comp = h.comp
        /\ ClipsUpTo(x, h.cur) /\ (h.cur = Shots => AllClips(x))
    BY <2>2, ClipSavedIs
  <2>a. (h.cur < Shots => l = "shot") /\ (~(h.cur < Shots) => l = "stage")
    OBVIOUS
  <2>b. Update(w, x, {l}, "idle")
    BY <1>8
  <2> HIDE DEF x, l
  <2>5. ~(h.cur < Shots) => h.cur = Shots
    BY <2>2, ShotRange, SMTT(30) DEF OnShot
  <2>6. Placed(l, x, submissions, bills[j]) /\ Counts(l, x, crashes) /\ Behind(l, x, x)
    <3>1. CASE h.cur < Shots
      BY <2>2, <2>3, <2>a, <3>1 DEF Placed, Counts, Behind, Sent, Composing
    <3>2. CASE ~(h.cur < Shots)
      <4>1. l = "stage" /\ AllClips(x)
        BY <2>3, <2>5, <2>a, <3>2
      <4> QED
        BY <2>2, <2>3, <4>1 DEF Placed, Counts, Behind, Sent, Composing
    <3> QED
      BY <3>1, <3>2
  <2>7. AtWork(l, x, x, submissions, bills[j], crashes)
    BY <2>3, <2>6, Saved
  <2>8. \A m \in {l} : m # "idle" => AtWork(m, x, x, submissions, bills[j], crashes)
    BY <2>7
  <2>9. {l} \in SUBSET WorkerLabels
    <3>1. CASE h.cur < Shots
      BY <2>a, <3>1 DEF WorkerLabels
    <3>2. CASE ~(h.cur < Shots)
      BY <2>a, <3>2 DEF WorkerLabels, Composing
    <3> QED
      BY <3>1, <3>2
  <2>10. x.comp <= 2 + crashes /\ x.comp <= 3 + crashes
    BY <2>2, <2>3
  <2> QED
    BY <1>1, <2>1, <2>3, <2>8, <2>9, <2>10, <2>b, WorkerUpdates
<1> QED
  BY <1>2, <1>4, <1>5, <1>6, <1>7, <1>8 DEF PutShot, Is

(* The updates at the places that ask nothing of the shots. *)
LEMMA PlainPuts ==
    ASSUME NEW w, NEW j, One(w, j), EpisodeInv(w, j), pc[w] \in Plain, pc[w] # "bill",
           NEW x, NEW ok \in SUBSET (Plain \cup {"idle"}), Update(w, x, ok, "idle"), UNCHANGED Unmarked,
           Otherwise(x, Held(w)), x.st = Held(w).st \/ x.st \notin {"composing", "completed"}
    PROVE  EpisodeInv(w, j)' /\ Kept(j)
<1> DEFINE h == Held(w)
           s == jobs[j]
<1>1. pc[w] \notin {"idle", "giveUp", "bill", "tryAgain", "completeEpisode"}
  BY DEF Plain
<1>2. /\ Sound(h, s, submissions, bills[j]) /\ h.comp <= 2 + crashes /\ h.comp <= 3 + crashes
      /\ h.st # "completed" /\ crashes \in Nat
  BY <1>1, Busy
<1>3. /\ Sound(x, s, submissions, bills[j]) /\ x.comp <= 2 + crashes /\ x.comp <= 3 + crashes
      /\ x.st # "completed"
  BY <1>2, Otherwise2 DEF Otherwise
<1>4. Sound(x, x, submissions, bills[j])
  BY <1>3 DEF Sound, Covers
<1>5. \A l \in ok : l # "idle" => AtWork(l, x, x, submissions, bills[j], crashes)
  BY <1>2, <1>3, <1>4, PlainPlace
<1>6. ok \in SUBSET WorkerLabels
  BY DEF WorkerLabels, Plain
<1> QED
  BY <1>1, <1>3, <1>5, <1>6, WorkerUpdates

(* The places of single-shot jobs and of requests are none of the worker. *)
LEMMA NotOfTheWorker ==
    ASSUME NEW w, NEW j, One(w, j), EpisodeInv(w, j)
    PROVE  pc[w] \notin {"save", "keep", "upload", "lateManual", "notDownloaded", "maybe",
                         "cancelRemote", "cancelPut", "forceRead", "forcePut", "forceRelease"}
  BY DEF EpisodeInv, Working, WorkerLabels, Sent, Composing

LEMMA AsItIs ==
    ASSUME NEW w, NEW j, One(w, j), EpisodeInv(w, j), pc[w] \in Plain, pc[w] # "bill"
    PROVE  Otherwise(Held(w), Held(w)) /\ Held(w) \in EpisodeRecords
<1>1. pc[w] \notin {"idle", "giveUp", "bill"}
  BY DEF Plain
<1>2. Held(w) \in EpisodeRecords
  BY <1>1, Busy
<1> QED
  BY <1>2 DEF Otherwise

LEMMA SaveKeeps ==
    ASSUME NEW w, NEW j, One(w, j), EpisodeInv(w, j), Save(w)
    PROVE  EpisodeInv(w, j)' /\ Kept(j)
<1> DEFINE h == Held(w)
<1>1. UNCHANGED Unmarked
  BY DEF Save, Unmarked
<1>2. \/ pc[w] = "saveOdd" /\ Update(w, h, {"odd"}, "drop")
      \/ pc[w] = "odd" /\ Update(w, As(h, "manual"), {"idle"}, "idle")
  BY NotOfTheWorker DEF Save, Is
<1>3. CASE pc[w] = "saveOdd" /\ Update(w, h, {"odd"}, "drop")
  <2>1. {"odd"} \in SUBSET (Sent \cup Plain) /\ pc[w] \in Sent
    BY <1>3 DEF Sent, Plain
  <2>2. OnShot(h, jobs[j], submissions, bills[j]) /\ h.comp <= 2 + crashes
        /\ pc[w] \notin {"idle", "giveUp", "bill"}
    BY <2>1, AtTheProvider
  <2>3. h.comp <= 3 + crashes
    BY <2>2, Busy
  <2> QED
    BY <1>1, <1>3, <2>1, <2>2, <2>3, SentPuts
<1>4. CASE pc[w] = "odd" /\ Update(w, As(h, "manual"), {"idle"}, "idle")
  <2> DEFINE x == As(h, "manual")
  <2>1. pc[w] \in Plain /\ pc[w] # "bill" /\ {"idle"} \in SUBSET (Plain \cup {"idle"})
    BY <1>4 DEF Plain
  <2>2. h \in EpisodeRecords
    BY <2>1, AsItIs
  <2>3. Otherwise(x, h) /\ x.st = "manual"
    BY <2>2, AsIs DEF JobStates
  <2>4. Update(w, x, {"idle"}, "idle")
    BY <1>4
  <2> HIDE DEF x
  <2> QED
    BY <1>1, <2>1, <2>3, <2>4, PlainPuts
<1> QED
  BY <1>2, <1>3, <1>4

LEMMA DropKeeps ==
    ASSUME NEW w, NEW j, One(w, j), EpisodeInv(w, j), Drop(w)
    PROVE  EpisodeInv(w, j)' /\ Kept(j)
<1>1. pc[w] # "idle" /\ Goto(w, "idle") /\ UNCHANGED <<jobs, bills, instance, submissions>>
  BY DEF Drop, Is
<1> QED
  BY <1>1, WorkerStops

LEMMA PutPolledKeeps ==
    ASSUME NEW w, NEW j, One(w, j), EpisodeInv(w, j), PutPolled(w)
    PROVE  EpisodeInv(w, j)' /\ Kept(j)
<1>1. UNCHANGED Unmarked
  BY DEF PutPolled, Unmarked
<1>2. \/ pc[w] = "gone" /\ Update(w, Held(w), {"release"}, "idle")
      \/ pc[w] = "later" /\ Update(w, Held(w), {"again"}, "idle")
  BY NotOfTheWorker DEF PutPolled, Is
<1>3. /\ pc[w] \in Plain /\ pc[w] # "bill"
      /\ {"release"} \in SUBSET (Plain \cup {"idle"}) /\ {"again"} \in SUBSET (Plain \cup {"idle"})
  BY <1>2 DEF Plain
<1>4. Otherwise(Held(w), Held(w))
  BY <1>3, AsItIs
<1> QED
  BY <1>1, <1>2, <1>3, <1>4, PlainPuts

LEMMA PutEndKeeps ==
    ASSUME NEW w, NEW j, One(w, j), EpisodeInv(w, j), PutEnd(w)
    PROVE  EpisodeInv(w, j)' /\ Kept(j)
<1>1. UNCHANGED Unmarked
  BY DEF PutEnd, Unmarked
<1>2. \/ pc[w] = "manual" /\ Update(w, Held(w), {"idle"}, "idle")
      \/ pc[w] = "fail" /\ Update(w, Held(w), {"bill"}, "idle")
  BY DEF PutEnd, Is
<1>3. /\ pc[w] \in Plain /\ pc[w] # "bill"
      /\ {"idle"} \in SUBSET (Plain \cup {"idle"}) /\ {"bill"} \in SUBSET (Plain \cup {"idle"})
  BY <1>2 DEF Plain
<1>4. Otherwise(Held(w), Held(w))
  BY <1>3, AsItIs
<1> QED
  BY <1>1, <1>2, <1>3, <1>4, PlainPuts

----------------------------------------------------------------------------
(* The composition. *)
LEMMA Composed ==
    ASSUME NEW w, NEW j, One(w, j), EpisodeInv(w, j), pc[w] \in Composing, pc[w] # "completeEpisode"
    PROVE  /\ Sound(Held(w), jobs[j], submissions, bills[j]) /\ AllClips(Held(w)) /\ Made(Held(w))
           /\ Held(w) \in EpisodeRecords /\ Held(w).st # "completed"
           /\ Held(w).comp <= 3 + crashes /\ crashes \in Nat /\ pc[w] # "idle"
           /\ ~IsTerminal(jobs[j]) => jobs[j].shots = Held(w).shots
           /\ pc[w] \notin {"tryAgain", "giveUp"} => Counts("stage", Held(w), crashes) /\ Held(w).comp <= 2 + crashes
           /\ pc[w] # "giveUp" => Low(jobs[j], crashes)
           /\ Held(w).subs \in {0, Held(w).narr}
<1>1. pc[w] \notin {"idle", "bill"}
  BY DEF Composing
<1>2. AtWork(pc[w], Held(w), jobs[j], submissions, bills[j], crashes) /\ crashes \in Nat
  BY <1>1 DEF EpisodeInv, Working, Shape
<1>3. /\ Sound(Held(w), jobs[j], submissions, bills[j]) /\ AllClips(Held(w)) /\ Held(w).st # "completed"
      /\ ~IsTerminal(jobs[j]) => jobs[j].shots = Held(w).shots
  BY <1>2 DEF AtWork, Placed, Behind
<1>4. /\ Held(w).comp <= 3 + crashes
      /\ pc[w] \notin {"tryAgain", "giveUp"} => Counts("stage", Held(w), crashes) /\ Held(w).comp <= 2 + crashes
  BY <1>1, <1>2 DEF AtWork, Counts
<1>5. Made(Held(w)) /\ Held(w) \in EpisodeRecords /\ Held(w).subs \in {0, Held(w).narr}
  BY <1>3 DEF Sound, Made
<1>6. pc[w] # "giveUp" => Low(jobs[j], crashes)
  BY <1>1 DEF EpisodeInv, GivenUp
<1> QED
  BY <1>1, <1>2, <1>3, <1>4, <1>5, <1>6

LEMMA ComposedPlace ==
    ASSUME NEW h, NEW s, NEW sub, NEW b, NEW c, Sound(h, s, sub, b), AllClips(h),
           ~IsTerminal(s) => s.shots = h.shots,
           NEW x \in EpisodeRecords, x.shots = h.shots, x.subs \in {0, x.narr}, x.st # "completed",
           NEW l \in Composing \cup Plain, l # "completeEpisode", Counts(l, x, c)
    PROVE  /\ AtWork(l, x, s, sub, b, c) /\ AtWork(l, x, x, sub, b, c) /\ Sound(x, s, sub, b)
           /\ l \in WorkerLabels /\ l # "idle"
<1>1. Sound(x, s, sub, b)
  BY Turn
<1>2. AllClips(x)
  BY Alike
<1>3. l \notin {"idle", "admitEpisode", "shot", "intent", "shotSubmit"} \cup Sent /\ l \in WorkerLabels
  BY DEF Composing, Plain, Sent, WorkerLabels
<1>4. Placed(l, x, sub, b) /\ Behind(l, x, x)
  BY <1>2, <1>3 DEF Placed, Behind
<1>5. ~IsTerminal(s) => Behind(l, x, s)
  BY <1>3 DEF Behind
<1>6. AtWork(l, x, x, sub, b, c)
  BY <1>1, <1>4, Saved
<1> QED
  BY <1>1, <1>3, <1>4, <1>5, <1>6 DEF AtWork

LEMMA Composes ==
    ASSUME NEW w, NEW j, One(w, j), EpisodeInv(w, j), pc[w] \in Composing, pc[w] \notin {"completeEpisode", "giveUp"},
           NEW x \in EpisodeRecords, x.shots = Held(w).shots, x.subs \in {0, x.narr}, x.st # "completed",
           NEW l \in Composing \cup Plain, l # "completeEpisode", Counts(l, x, crashes),
           Move(w, l, x), UNCHANGED <<jobs, bills, instance, submissions>>
    PROVE  EpisodeInv(w, j)' /\ Kept(j)
<1>1. /\ Sound(Held(w), jobs[j], submissions, bills[j]) /\ AllClips(Held(w))
      /\ ~IsTerminal(jobs[j]) => jobs[j].shots = Held(w).shots
      /\ Low(jobs[j], crashes) /\ pc[w] # "idle"
  BY Composed
<1>2. AtWork(l, x, jobs[j], submissions, bills[j], crashes) /\ l \in WorkerLabels
  BY <1>1, ComposedPlace
<1> QED
  BY <1>1, <1>2, WorkerTurns

LEMMA CompositionPuts ==
    ASSUME NEW w, NEW j, One(w, j), EpisodeInv(w, j), pc[w] \in Composing, pc[w] # "completeEpisode",
           NEW x \in EpisodeRecords, x.shots = Held(w).shots, x.subs \in {0, x.narr}, x.st # "completed",
           NEW ok \in SUBSET (Composing \cup Plain), \A l \in ok : l # "completeEpisode" /\ Counts(l, x, crashes),
           ok \subseteq {"idle", "giveUp", "bill"} \/ x.comp <= 2 + crashes, x.comp <= 3 + crashes,
           Update(w, x, ok, "idle"), UNCHANGED Unmarked
    PROVE  EpisodeInv(w, j)' /\ Kept(j)
<1>1. /\ Sound(Held(w), jobs[j], submissions, bills[j]) /\ AllClips(Held(w))
      /\ ~IsTerminal(jobs[j]) => jobs[j].shots = Held(w).shots
      /\ pc[w] # "idle"
  BY Composed
<1>2. \A l \in ok : l # "idle" => AtWork(l, x, x, submissions, bills[j], crashes)
  BY <1>1, ComposedPlace
<1>3. ok \in SUBSET WorkerLabels
  BY DEF WorkerLabels, Plain
<1>4. Sound(x, jobs[j], submissions, bills[j])
  BY <1>1, Turn
<1> QED
  BY <1>1, <1>2, <1>3, <1>4, WorkerUpdates

LEMMA StageKeeps ==
    ASSUME NEW w, NEW j, One(w, j), EpisodeInv(w, j), Stage(w)
    PROVE  EpisodeInv(w, j)' /\ Kept(j)
<1> DEFINE h == Held(w)
           r == [h EXCEPT !.st = "composing", !.pid = NoJob]
           ok == {IF AllClips(r) THEN "narrate" ELSE "odd", "workspace"}
<1>1. pc[w] = "stage" /\ Update(w, r, ok, "idle") /\ UNCHANGED Unmarked
  BY DEF Stage, Is
<1>2. pc[w] \in Composing /\ pc[w] # "completeEpisode"
  BY <1>1 DEF Composing
<1>3. ok \in SUBSET {"narrate", "odd", "workspace"}
  OBVIOUS
<1>4. /\ h \in EpisodeRecords /\ h.subs \in {0, h.narr} /\ Counts("stage", h, crashes)
      /\ h.comp <= 2 + crashes /\ h.comp <= 3 + crashes
  BY <1>1, <1>2, Composed
<1>5. r = WithBoth(h, NoJob, "composing")
  BY <1>4 DEF WithBoth, EpisodeRecords
<1> HIDE DEF r
<1>6. "composing" \in JobStates /\ NoJob \in (1..Shots) \cup {NoJob}
  BY DEF JobStates
<1>7. Otherwise(r, h) /\ r.st = "composing"
  BY <1>4, <1>5, <1>6, BothAre
<1>8. /\ r \in EpisodeRecords /\ r.shots = h.shots /\ r.subs \in {0, r.narr} /\ r.st # "completed"
      /\ r.comp <= 2 + crashes /\ r.comp <= 3 + crashes
  BY <1>4, <1>7 DEF Otherwise
<1> HIDE DEF ok
<1>9. ok \in SUBSET (Composing \cup Plain) /\ \A l \in ok : l # "completeEpisode" /\ Counts(l, r, crashes)
  BY <1>3, <1>8 DEF Composing, Plain, Counts
<1> QED
  BY <1>1, <1>2, <1>8, <1>9, CompositionPuts

(* A failed composition is counted; the composition goes on as it is. *)
LEMMA CompositionFails ==
    ASSUME NEW w, NEW j, One(w, j), EpisodeInv(w, j), pc[w] \in {"narrate", "caption", "render"},
           Move(w, "tryAgain", Failed(Held(w))), UNCHANGED <<jobs, bills, instance, submissions>>
    PROVE  EpisodeInv(w, j)' /\ Kept(j)
<1> DEFINE h == Held(w)
           x == Failed(h)
<1>1. pc[w] \in Composing /\ pc[w] \notin {"completeEpisode", "giveUp", "tryAgain"}
  BY DEF Composing
<1>2. /\ h \in EpisodeRecords /\ h.subs \in {0, h.narr} /\ h.st # "completed" /\ h.comp <= 2 + crashes
      /\ crashes \in Nat
  BY <1>1, Composed
<1>3. h.comp \in Nat /\ h.comp + 1 \in Nat /\ h.comp + 1 <= 3 + crashes
  <2>1. h.comp \in Nat
    BY <1>2 DEF EpisodeRecords
  <2> QED
    BY <1>2, <2>1, Numbers
<1>4. /\ x \in EpisodeRecords /\ x.shots = h.shots /\ x.subs = h.subs /\ x.narr = h.narr /\ x.st = h.st
      /\ x.comp = h.comp + 1
  BY <1>2, <1>3 DEF EpisodeRecords, Failed
<1>5. Move(w, "tryAgain", x)
  OBVIOUS
<1> HIDE DEF x
<1>6. x.subs \in {0, x.narr} /\ x.st # "completed" /\ Counts("tryAgain", x, crashes)
  BY <1>2, <1>3, <1>4 DEF Counts
<1>7. "tryAgain" \in Composing \cup Plain
  BY DEF Composing
<1> QED
  BY <1>1, <1>4, <1>5, <1>6, <1>7, Composes

LEMMA CompositionGoesOn ==
    ASSUME NEW w, NEW j, One(w, j), EpisodeInv(w, j), pc[w] \in {"narrate", "caption", "render"},
           NEW l \in {"caption", "render", "commitEpisode", "later"}, Goto(w, l),
           UNCHANGED <<jobs, bills, instance, submissions>>
    PROVE  EpisodeInv(w, j)' /\ Kept(j)
<1> DEFINE h == Held(w)
<1>1. pc[w] \in Composing /\ pc[w] \notin {"completeEpisode", "giveUp", "tryAgain"}
  BY DEF Composing
<1>2. /\ h \in EpisodeRecords /\ h.subs \in {0, h.narr} /\ h.st # "completed" /\ h.comp <= 2 + crashes
      /\ h.comp <= 3 + crashes
  BY <1>1, Composed
<1>3. l \in Composing \cup Plain /\ l # "completeEpisode" /\ Counts(l, h, crashes) /\ Move(w, l, h)
  BY <1>2 DEF Composing, Plain, Counts, Goto
<1> QED
  BY <1>1, <1>2, <1>3, Composes

LEMMA CompositionEnds ==
    ASSUME NEW w, NEW j, One(w, j), EpisodeInv(w, j), pc[w] \in {"narrate", "caption", "render"},
           Manual(w, Held(w)) \/ Fail(w, Held(w)), UNCHANGED <<jobs, bills, instance, submissions>>
    PROVE  EpisodeInv(w, j)' /\ Kept(j)
<1>1. /\ pc[w] \notin {"idle", "tryAgain", "giveUp", "bill", "completeEpisode"}
      /\ "manual" \in Plain /\ "fail" \in Plain
      /\ "manual" \in JobStates \ {"composing", "completed"} /\ "failed" \in JobStates \ {"composing", "completed"}
  BY DEF Plain, JobStates
<1>2. CASE Manual(w, Held(w))
  <2>1. Move(w, "manual", As(Held(w), "manual"))
    BY <1>2 DEF Manual
  <2> QED
    BY <1>1, <2>1, WorkerLeaves
<1>3. CASE Fail(w, Held(w))
  <2>1. Move(w, "fail", As(Held(w), "failed"))
    BY <1>3 DEF Fail
  <2> QED
    BY <1>1, <2>1, WorkerLeaves
<1> QED
  BY <1>2, <1>3

(* Narration and captions are stored, lost and made again on their own. *)
LEMMA CompositionTurns ==
    ASSUME NEW w, NEW j, One(w, j), EpisodeInv(w, j), pc[w] \in {"narrate", "caption"},
           NEW x \in EpisodeRecords, x.shots = Held(w).shots, x.comp = Held(w).comp, x.st = Held(w).st,
           x.subs \in {0, x.narr}, NEW l \in {"narrSave", "narrDrop", "capSave", "capDrop"}, Move(w, l, x),
           UNCHANGED <<jobs, bills, instance, submissions>>
    PROVE  EpisodeInv(w, j)' /\ Kept(j)
<1> DEFINE h == Held(w)
<1>1. pc[w] \in Composing /\ pc[w] \notin {"completeEpisode", "giveUp", "tryAgain"}
  BY DEF Composing
<1>2. h.st # "completed" /\ h.comp <= 2 + crashes /\ h.comp <= 3 + crashes
  BY <1>1, Composed
<1>3. l \in Composing \cup Plain /\ l # "completeEpisode" /\ Counts(l, x, crashes) /\ x.st # "completed"
  BY <1>2 DEF Composing, Counts
<1> QED
  BY <1>1, <1>3, Composes

LEMMA NarrateKeeps ==
    ASSUME NEW w, NEW j, One(w, j), EpisodeInv(w, j), Narrate(w)
    PROVE  EpisodeInv(w, j)' /\ Kept(j)
<1> DEFINE h == Held(w)
<1>1. /\ pc[w] = "narrate" /\ UNCHANGED <<jobs, bills, instance, submissions>>
      /\ pc[w] \in {"narrate", "caption"} /\ pc[w] \in {"narrate", "caption", "render"}
  BY DEF Narrate, Is, provider
<1>2. \/ h.narr = 0 /\ \E n \in Takes : Move(w, "narrSave", [h EXCEPT !.narr = n])
      \/ Move(w, "tryAgain", Failed(h))
      \/ Manual(w, h) \/ Fail(w, h)
      \/ Goto(w, "caption")
      \/ Move(w, "narrDrop", DropNarration(h))
  BY DEF Narrate
<1>3. h \in EpisodeRecords /\ h.subs \in {0, h.narr}
  BY <1>1, Composed DEF Composing
<1>4. ASSUME h.narr = 0, NEW n \in Takes, Move(w, "narrSave", [h EXCEPT !.narr = n])
      PROVE  EpisodeInv(w, j)' /\ Kept(j)
  <2> DEFINE x == [h EXCEPT !.narr = n]
  <2>1. /\ x \in EpisodeRecords /\ x.shots = h.shots /\ x.comp = h.comp /\ x.st = h.st /\ x.subs = h.subs
    BY <1>3 DEF EpisodeRecords
  <2>2. Move(w, "narrSave", x)
    BY <1>4
  <2> HIDE DEF x
  <2>3. x.subs \in {0, x.narr}
    BY <1>3, <1>4, <2>1
  <2> QED
    BY <1>1, <2>1, <2>2, <2>3, CompositionTurns
<1>5. CASE Move(w, "narrDrop", DropNarration(h))
  <2> DEFINE x == DropNarration(h)
  <2>1. /\ x \in EpisodeRecords /\ x.shots = h.shots /\ x.comp = h.comp /\ x.st = h.st /\ x.subs = 0
    BY <1>3 DEF EpisodeRecords, DropNarration
  <2>2. Move(w, "narrDrop", x)
    BY <1>5
  <2> HIDE DEF x
  <2>3. x.subs \in {0, x.narr}
    BY <2>1
  <2> QED
    BY <1>1, <2>1, <2>2, <2>3, CompositionTurns
<1>6. CASE Move(w, "tryAgain", Failed(h))
  BY <1>1, <1>6, CompositionFails
<1>7. CASE Manual(w, h) \/ Fail(w, h)
  BY <1>1, <1>7, CompositionEnds
<1>8. CASE Goto(w, "caption")
  BY <1>1, <1>8, CompositionGoesOn
<1> QED
  BY <1>2, <1>4, <1>5, <1>6, <1>7, <1>8

LEMMA CaptionKeeps ==
    ASSUME NEW w, NEW j, One(w, j), EpisodeInv(w, j), Caption(w)
    PROVE  EpisodeInv(w, j)' /\ Kept(j)
<1> DEFINE h == Held(w)
<1>1. /\ pc[w] = "caption" /\ UNCHANGED <<jobs, bills, instance, submissions>>
      /\ pc[w] \in {"narrate", "caption"} /\ pc[w] \in {"narrate", "caption", "render"}
  BY DEF Caption, Is, provider
<1>2. \/ Move(w, "capSave", [h EXCEPT !.subs = h.narr])
      \/ Move(w, "tryAgain", Failed(h))
      \/ Manual(w, h)
      \/ Goto(w, "render")
      \/ Move(w, "capDrop", [h EXCEPT !.subs = 0])
  BY DEF Caption
<1>3. h \in EpisodeRecords
  BY <1>1, Composed DEF Composing
<1>4. ASSUME NEW n \in {0, h.narr}, NEW l \in {"narrSave", "narrDrop", "capSave", "capDrop"},
             Move(w, l, [h EXCEPT !.subs = n])
      PROVE  EpisodeInv(w, j)' /\ Kept(j)
  <2> DEFINE x == [h EXCEPT !.subs = n]
  <2>1. n \in Takes \cup {0}
    BY <1>3 DEF EpisodeRecords
  <2>2. /\ x \in EpisodeRecords /\ x.shots = h.shots /\ x.comp = h.comp /\ x.st = h.st /\ x.subs = n
        /\ x.narr = h.narr
    BY <1>3, <2>1 DEF EpisodeRecords
  <2>3. Move(w, l, x)
    BY <1>4
  <2> HIDE DEF x
  <2>4. x.subs \in {0, x.narr}
    BY <2>2
  <2> QED
    BY <1>1, <2>2, <2>3, <2>4, CompositionTurns
<1>5. CASE Move(w, "tryAgain", Failed(h))
  BY <1>1, <1>5, CompositionFails
<1>6. CASE Manual(w, h)
  BY <1>1, <1>6, CompositionEnds
<1>7. CASE Goto(w, "render")
  BY <1>1, <1>7, CompositionGoesOn
<1> QED
  BY <1>2, <1>4, <1>5, <1>6, <1>7

LEMMA RenderKeeps ==
    ASSUME NEW w, NEW j, One(w, j), EpisodeInv(w, j), Render(w)
    PROVE  EpisodeInv(w, j)' /\ Kept(j)
<1> DEFINE h == Held(w)
<1>1. pc[w] \in {"narrate", "caption", "render"} /\ UNCHANGED <<jobs, bills, instance, submissions>>
  BY DEF Render, Is, provider
<1>2. CASE Goto(w, "commitEpisode") \/ Goto(w, "later")
  BY <1>1, <1>2, CompositionGoesOn
<1>3. CASE Move(w, "tryAgain", Failed(h))
  BY <1>1, <1>3, CompositionFails
<1>4. CASE Manual(w, h) \/ Fail(w, h)
  BY <1>1, <1>4, CompositionEnds
<1> QED
  BY <1>2, <1>3, <1>4 DEF Render

LEMMA PutCompositionKeeps ==
    ASSUME NEW w, NEW j, One(w, j), EpisodeInv(w, j), PutComposition(w)
    PROVE  EpisodeInv(w, j)' /\ Kept(j)
<1> DEFINE h == Held(w)
<1>1. UNCHANGED Unmarked
  BY DEF PutComposition
<1>2. \/ /\ pc[w] \in {"narrDrop", "narrSave", "capDrop", "capSave"}
         /\ \E l \in {"narrate", "caption", "render"} : Update(w, h, {l}, "idle")
      \/ pc[w] = "tryAgain" /\ Update(w, h, AfterFailure(h), "idle")
      \/ pc[w] \in {"giveUp", "workspace"} /\ Update(w, As(h, "failed"), {"bill"}, "idle")
  BY DEF PutComposition, Is
<1>3. pc[w] \in Composing /\ pc[w] # "completeEpisode"
  BY <1>2 DEF Composing
<1>4. /\ h \in EpisodeRecords /\ h.subs \in {0, h.narr} /\ h.st # "completed" /\ h.comp <= 3 + crashes
      /\ crashes \in Nat /\ (pc[w] \notin {"tryAgain", "giveUp"} => h.comp <= 2 + crashes)
  BY <1>3, Composed
<1>5. ASSUME pc[w] \in {"narrDrop", "narrSave", "capDrop", "capSave"},
             NEW l \in {"narrate", "caption", "render"}, Update(w, h, {l}, "idle")
      PROVE  EpisodeInv(w, j)' /\ Kept(j)
  <2>1. h.comp <= 2 + crashes
    BY <1>4, <1>5
  <2>2. {l} \in SUBSET (Composing \cup Plain) /\ \A m \in {l} : m # "completeEpisode" /\ Counts(m, h, crashes)
    BY <1>4, <2>1 DEF Composing, Counts
  <2> QED
    BY <1>1, <1>3, <1>4, <1>5, <2>1, <2>2, CompositionPuts
<1>6. CASE pc[w] = "tryAgain" /\ Update(w, h, AfterFailure(h), "idle")
  <2> DEFINE ok == AfterFailure(h)
  <2>1. h.comp \in Nat
    BY <1>4 DEF EpisodeRecords
  <2>2. Update(w, h, ok, "idle")
    BY <1>6
  <2>3. CASE h.comp >= 3
    <3>1. ok = {"giveUp"}
      BY <2>3 DEF AfterFailure, MaxCompositions
    <3> HIDE DEF ok
    <3>2. /\ ok \in SUBSET (Composing \cup Plain) /\ ok \subseteq {"idle", "giveUp", "bill"}
          /\ \A m \in ok : m # "completeEpisode" /\ Counts(m, h, crashes)
      BY <1>4, <3>1 DEF Composing, Counts
    <3> QED
      BY <1>1, <1>3, <1>4, <2>2, <3>2, CompositionPuts
  <2>4. CASE ~(h.comp >= 3)
    <3>1. h.comp <= 2 + crashes
      BY <1>4, <2>1, <2>4, Numbers
    <3>2. ok = {"again"}
      BY <2>4 DEF AfterFailure, MaxCompositions
    <3> HIDE DEF ok
    <3>3. /\ ok \in SUBSET (Composing \cup Plain)
          /\ \A m \in ok : m # "completeEpisode" /\ Counts(m, h, crashes)
      BY <1>4, <3>1, <3>2 DEF Plain, Counts
    <3> QED
      BY <1>1, <1>3, <1>4, <2>2, <3>1, <3>3, CompositionPuts
  <2> QED
    BY <2>3, <2>4
<1>7. CASE pc[w] \in {"giveUp", "workspace"} /\ Update(w, As(h, "failed"), {"bill"}, "idle")
  <2> DEFINE x == As(h, "failed")
  <2>1. Otherwise(x, h) /\ x.st = "failed"
    BY <1>4, AsIs DEF JobStates
  <2>2. Update(w, x, {"bill"}, "idle")
    BY <1>7
  <2> HIDE DEF x
  <2>3. /\ x \in EpisodeRecords /\ x.shots = h.shots /\ x.subs \in {0, x.narr} /\ x.st # "completed"
        /\ x.comp <= 3 + crashes
    BY <1>4, <2>1 DEF Otherwise
  <2>4. /\ {"bill"} \in SUBSET (Composing \cup Plain) /\ {"bill"} \subseteq {"idle", "giveUp", "bill"}
        /\ \A m \in {"bill"} : m # "completeEpisode" /\ Counts(m, x, crashes)
    BY <2>3 DEF Plain, Counts
  <2> QED
    BY <1>1, <1>3, <2>2, <2>3, <2>4, CompositionPuts
<1> QED
  BY <1>2, <1>5, <1>6, <1>7

LEMMA CommitEpisodeKeeps ==
    ASSUME NEW w, NEW j, One(w, j), EpisodeInv(w, j), CommitEpisode(w)
    PROVE  EpisodeInv(w, j)' /\ Kept(j)
<1> DEFINE s == jobs[j]
<1>1. pc[w] = "commitEpisode" /\ UNCHANGED <<jobs, bills, instance, submissions>>
  BY DEF CommitEpisode, Is, provider
<1>2. Id(w) = j
  BY <1>1, Hands
<1>3. Goto(w, "idle") \/ (Open(s) /\ Move(w, "settleEpisode", s))
  <2>1. Goto(w, "idle") \/ (Open(jobs[Id(w)]) /\ Move(w, "settleEpisode", jobs[Id(w)]))
    BY DEF CommitEpisode
  <2>2. jobs[Id(w)] = s
    BY <1>2
  <2> HIDE DEF s
  <2> QED
    BY <2>1, <2>2
<1>4. CASE Goto(w, "idle")
  BY <1>1, <1>4, WorkerStops
<1>5. CASE Open(s) /\ Move(w, "settleEpisode", s)
  <2>1. pc[w] \in Composing /\ pc[w] \notin {"completeEpisode", "giveUp"}
    BY <1>1 DEF Composing
  <2>2. Low(s, crashes) /\ (~IsTerminal(s) => s.shots = Held(w).shots)
    BY <2>1, Composed
  <2>3. ~IsTerminal(s) /\ s.st # "completed" /\ s.comp <= 2 + crashes
    BY <1>5, <2>2 DEF Open, Low, IsTerminal
  <2>4. s \in EpisodeRecords /\ s.subs \in {0, s.narr} /\ s.comp <= 3 + crashes
    BY DEF EpisodeInv, InStore, Made
  <2>5. "settleEpisode" \in Composing \cup Plain /\ Counts("settleEpisode", s, crashes)
    BY <2>3, <2>4 DEF Composing, Counts
  <2> QED
    BY <1>1, <1>5, <2>1, <2>2, <2>3, <2>4, <2>5, Composes
<1> QED
  BY <1>3, <1>4, <1>5
=============================================================================
