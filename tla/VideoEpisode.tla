---------------------------- MODULE VideoEpisode ----------------------------
(***************************************************************************)
(* Multi-shot episodes (internal/video/orchestrator/episode.go): the shots *)
(* are generated one after the other, each with its own provider job, and  *)
(* composed into one video with a narration and captions.  The job record  *)
(* also holds the checkpoints of the shots, the shot it is at, the saved   *)
(* narration and captions, and the count of failed compositions.           *)
(*                                                                         *)
(* Claims, updates, cancellation, operators, crashes, recovery and leases  *)
(* are those of VideoJobs.  The provider job of shot k is named k.  The    *)
(* behaviours start with one episode that Create has stored and queued;    *)
(* it asks for narration and captions, without which the steps that make   *)
(* them are skipped.  Stored assets whose metadata is unusable lead to the *)
(* same state as an unusable answer of the provider.                       *)
(***************************************************************************)
EXTENDS VideoJobs
LOCAL INSTANCE Functions

CONSTANTS
    Shots,        \* the number of shots
    Takes         \* the lengths a synthesized narration may have

MaxCompositions == 3

(* submitted, processing, polling and uploading shots are treated alike. *)
ShotStates == {"queued", "planning", "active", "completed", "failed"}
NewShot == [st |-> "queued", pid |-> NoJob, clip |-> FALSE, cost |-> 0]

(* narr and subs are the length of the narration and the one that the     *)
(* captions are timed for, 0 if there are none.                           *)
Episode ==
    [st |-> "queued", pid |-> NoJob, forced |-> FALSE, owner |-> NoOwner,
     shots |-> [k \in 1..Shots |-> NewShot], cur |-> 0, narr |-> 0, subs |-> 0, comp |-> 0]

(* The records that NewJob and the updates of an episode can make.        *)
ShotRecords == [st : ShotStates, pid : (1..Shots) \cup {NoJob}, clip : BOOLEAN, cost : Actuals \cup {0}]
EpisodeRecords ==
    [st : JobStates, pid : (1..Shots) \cup {NoJob}, forced : BOOLEAN,
     owner : Instances \cup {NoOwner, Former}, shots : [1..Shots -> ShotRecords],
     cur : 0..Shots, narr : Takes \cup {0}, subs : Takes \cup {0}, comp : Nat]

(* Only a request with at least two shots becomes an episode, and the     *)
(* marks for no provider job and no narration are not themselves values.  *)
ASSUME EpisodeAssumption ==
    /\ Shots \in Nat /\ Shots >= 2 /\ 0 \notin Takes
    /\ NoJob \notin 1..Shots /\ NoJob \notin EpisodeRecords

AtShot(r, k, f, v) == [r EXCEPT !.shots[k][f] = v]
ShotIs(r, state) == AtShot(r, r.cur, "st", state)
AllClips(r) == \A k \in 1..Shots : r.shots[k].clip
Unmarked == <<bills, instance, provider>>

(* runEpisodeJob up to its loop.  While shots are missing the provider    *)
(* must still be configured.                                              *)
EpisodeResume(i, r) ==
    \/ AtRest(r) /\ UNCHANGED <<pc, task>>
    \/ /\ ~AtRest(r)
       /\ \E next \in {<<IF r.st = "queued" THEN "admitEpisode" ELSE "shot", [r EXCEPT !.cur = 0]>>}
                      \cup (IF AllClips(r) THEN {} ELSE {<<"fail", As(r, "failed")>>}) :
            /\ pc' = [pc EXCEPT ![i] = next[1]]
            /\ task' = [task EXCEPT ![i] = [id |-> Head(queue[i]), rec |-> next[2], home |-> i]]
RunEpisode(i) == ClaimNext(i, EpisodeResume)

AdmitEpisode(p) ==
    /\ Is(p, "admitEpisode") /\ Update(p, As(Held(p), "admitted"), {"shot"}, "idle")
    /\ UNCHANGED Unmarked

(* One turn of the loop, from the reload of the job to the submission     *)
(* intent or to the polling of a shot whose provider job is known.        *)
NextShotSlip(p, r) ==
    IF r.shots[r.cur].clip THEN Move(p, IF r.cur < Shots THEN "shot" ELSE "stage", r)
    ELSE Move(p, "intent", ShotIs(r, "planning"))
NextShot(p, r) ==
    LET s == r.shots[r.cur]
    IN  IF s.clip THEN Move(p, IF r.cur < Shots THEN "shot" ELSE "stage", r)
        ELSE IF s.pid # NoJob THEN Move(p, "shotPoll", [r EXCEPT !.pid = s.pid])
        ELSE IF HasId(r) \/ s.st \in {"planning", "completed"} THEN Manual(p, r)
        ELSE \/ Move(p, "later", r)                  \* capabilities unavailable
             \/ Fail(p, r)                           \* the provider no longer takes the shot
             \/ Move(p, "intent", ShotIs(r, "planning"))

ReadShot(p) ==
    LET j == Id(p)
        k == Held(p).cur + 1
    IN  /\ Is(p, "shot")
        /\ \/ Stored(j) /\ Open(jobs[j]) /\ NextShot(p, [jobs[j] EXCEPT !.cur = k]) /\ UNCHANGED faults
           \/ (Stored(j) => ~Open(jobs[j])) /\ Goto(p, "idle") /\ UNCHANGED faults
           \/ Fault /\ Goto(p, "idle")
        /\ UNCHANGED <<jobs, bills, instance, provider>>

SubmitShot(p) ==
    LET r == Held(p)
        k == r.cur
        accept == /\ submissions' = [submissions EXCEPT ![k] = @ + 1]
                  /\ remote' = [remote EXCEPT ![k] = "running"]
        known == AtShot(ShotIs(r, "active"), k, "pid", k)
        saved == [known EXCEPT !.pid = k, !.st = IF @ = "admitted" THEN "submitted" ELSE @]
    IN  /\ Is(p, "shotSubmit")
        /\ \/ Manual(p, r) /\ (accept \/ UNCHANGED provider)
           \/ Move(p, "shotSave", saved) /\ accept
           \/ Move(p, "saveOdd", saved) /\ accept
        /\ UNCHANGED <<jobs, bills, instance, faults>>

(* pollEpisodeShot: the lease is not renewed.  A cost in the answer is     *)
(* kept with the shot.                                                     *)
GetShot(p) ==
    LET r == Held(p)
        s == remote[r.shots[r.cur].pid]
    IN  /\ Is(p, "shotPoll")
        /\ \/ Goto(p, "shotKeep")                                  \* lookup failed
           \/ Move(p, "shotKeep", ShotIs(r, "active"))             \* queued or submitted
           \/ Manual(p, r)
           \/ /\ s = "running"
              /\ Move(p, "shotKeep", [ShotIs(r, "active") EXCEPT
                                        !.st = IF @ = "submitted" THEN "processing" ELSE @])
           \/ s = "failed" /\ Fail(p, ShotIs(r, "failed"))
           \/ s = "cancelled" /\ Move(p, "gone", [r EXCEPT !.st = "cancelled", !.pid = NoJob])
           \/ /\ s = "done"
              /\ \E c \in Actuals \cup {r.shots[r.cur].cost} :
                   Move(p, "shotDone", AtShot(ShotIs(r, "completed"), r.cur, "cost", c))
        /\ UNCHANGED <<jobs, bills, instance, provider, faults>>

(* The clip of the shot is stored: its checkpoint, and the next state. *)
ClipSavedSlip(r) ==
    [ShotIs(r, "completed") EXCEPT
        !.pid = NoJob,
        !.st = IF r.cur = Shots THEN "composing" ELSE IF @ = "submitted" THEN "processing" ELSE @]
ClipSaved(r) ==
    [AtShot(ShotIs(r, "completed"), r.cur, "clip", TRUE) EXCEPT
        !.pid = NoJob,
        !.st = IF r.cur = Shots THEN "composing" ELSE IF @ = "submitted" THEN "processing" ELSE @]

(* The updates of runEpisodeJob and pollEpisodeShot.  Between the         *)
(* uploading state and the checkpoint the clip is downloaded and copied   *)
(* under a name of its own, which may fail or yield something unusable.   *)
PutShot(p) ==
    /\ \/ Is(p, "intent") /\ Update(p, Held(p), {"shotSubmit"}, "idle")
       \/ Is(p, "shotSave") /\ Update(p, Held(p), {"shotPoll"}, "drop")
       \/ Is(p, "shotKeep") /\ Update(p, Held(p), {"shotPoll", "later"}, "idle")
       \/ Is(p, "shotDone") /\ Update(p, Held(p), {"shotUpload", "odd"}, "idle")
       \/ Is(p, "shotUpload") /\ Update(p, ShotIs(Held(p), "active"), {"clip", "later", "odd"}, "idle")
       \/ /\ Is(p, "clip") /\ CanTransition(Held(p).st, ClipSaved(Held(p)).st)
          /\ Update(p, ClipSaved(Held(p)), {IF Held(p).cur < Shots THEN "shot" ELSE "stage"}, "idle")
    /\ UNCHANGED Unmarked
----------------------------------------------------------------------------
(* composeEpisode: narration, captions, rendering. *)
FailedSlip(r) == [r EXCEPT !.comp = @ + 1, !.shots[Shots].pid = NoJob]
Failed(r) == [r EXCEPT !.comp = @ + 1]

Stage(p) ==
    LET r == [Held(p) EXCEPT !.st = "composing", !.pid = NoJob]
    IN  /\ Is(p, "stage") /\ CanTransition(Held(p).st, "composing")
        /\ Update(p, r, {IF AllClips(r) THEN "narrate" ELSE "odd", "workspace"}, "idle")
        /\ UNCHANGED Unmarked

DropNarration(r) == [r EXCEPT !.narr = 0, !.subs = 0]

Narrate(p) ==
    LET r == Held(p)
    IN  /\ Is(p, "narrate")
        /\ \/ /\ r.narr = 0 /\ UNCHANGED faults
              /\ \/ \E n \in Takes : Move(p, "narrSave", [r EXCEPT !.narr = n])
                 \/ Move(p, "tryAgain", Failed(r))      \* no synthesis, or it was not stored
                 \/ Manual(p, r)
                 \/ Fail(p, r)                          \* longer than the episode
           \/ r.narr # 0 /\ Goto(p, "caption") /\ UNCHANGED faults
           \/ r.narr # 0 /\ Fault /\ Move(p, "narrDrop", DropNarration(r))     \* the file is damaged
        /\ UNCHANGED <<jobs, bills, instance, provider>>

Caption(p) ==
    LET r == Held(p)
    IN  /\ Is(p, "caption")
        /\ \/ /\ r.subs = 0 /\ UNCHANGED faults
              /\ \/ Move(p, "capSave", [r EXCEPT !.subs = r.narr])
                 \/ Move(p, "tryAgain", Failed(r))
                 \/ Manual(p, r)
           \/ r.subs # 0 /\ Goto(p, "render") /\ UNCHANGED faults
           \/ r.subs # 0 /\ Fault /\ Move(p, "capDrop", [r EXCEPT !.subs = 0])
        /\ UNCHANGED <<jobs, bills, instance, provider>>

Render(p) ==
    LET r == Held(p)
    IN  /\ Is(p, "render")
        /\ \/ Goto(p, "commitEpisode")
           \/ Move(p, "tryAgain", Failed(r))
           \/ Goto(p, "later")                          \* the episode was not stored
           \/ Fail(p, r)                                \* no usable output file
           \/ Manual(p, r)
        /\ UNCHANGED <<jobs, bills, instance, provider, faults>>

(* The updates of the composition; retryEpisodeComposition gives up after *)
(* the third failure.                                                     *)
AfterFailureSlip(r) == {"again"}
AfterFailure(r) == IF r.comp >= MaxCompositions THEN {"giveUp"} ELSE {"again"}
PutComposition(p) ==
    /\ \/ Is(p, "narrDrop") /\ Update(p, Held(p), {"narrate"}, "idle")
       \/ Is(p, "narrSave") /\ Update(p, Held(p), {"caption"}, "idle")
       \/ Is(p, "capDrop") /\ Update(p, Held(p), {"caption"}, "idle")
       \/ Is(p, "capSave") /\ Update(p, Held(p), {"render"}, "idle")
       \/ Is(p, "tryAgain") /\ Update(p, Held(p), AfterFailure(Held(p)), "idle")
       \/ pc[p] \in {"giveUp", "workspace"} /\ Update(p, As(Held(p), "failed"), {"bill"}, "idle")
    /\ UNCHANGED Unmarked

(* The commit, under the lock.  The cost is actual if every shot reported *)
(* one.                                                                   *)
Costs(r) == [k \in 1..Shots |-> r.shots[k].cost]
Total(r) == FoldFunction(+, 0, Costs(r))
Reported(r) == \A k \in 1..Shots : Costs(r)[k] > 0

CommitEpisode(p) ==
    LET j == Id(p)
    IN  /\ Is(p, "commitEpisode") /\ LockFree(p)
        /\ \/ Stored(j) /\ Open(jobs[j]) /\ Move(p, "settleEpisode", jobs[j]) /\ UNCHANGED faults
           \/ (Stored(j) => ~Open(jobs[j])) /\ Goto(p, "idle") /\ UNCHANGED faults
           \/ Fault /\ Goto(p, "idle")
        /\ UNCHANGED <<jobs, bills, instance, provider>>

BillEpisodeSlip(j, r) == SettleActual(j, Total(r))
BillEpisode(j, r) == IF Reported(r) THEN SettleActual(j, Total(r)) ELSE SettleEstimate(j)

SettleEpisode(p) ==
    LET j == Id(p)
        r == Held(p)
    IN  /\ Is(p, "settleEpisode")
        /\ \/ IF Reported(r) /\ Conflicts(bills[j], Total(r))
              THEN Goto(p, "unsettledEpisode") /\ UNCHANGED <<bills, faults>>
              ELSE /\ BillEpisode(j, r) /\ UNCHANGED faults
                   /\ IF CanTransition(r.st, "completed")
                      THEN Move(p, "completeEpisode", As(r, "completed"))
                      ELSE Goto(p, "idle")
           \/ Fault /\ Goto(p, "unsettledEpisode") /\ (BillEpisode(j, r) \/ UNCHANGED bills)
        /\ UNCHANGED <<jobs, instance, provider>>

PutEpisode(p) ==
    /\ \/ Is(p, "unsettledEpisode") /\ Update(p, Held(p), {"again"}, "idle")
       \/ Is(p, "completeEpisode") /\ Update(p, Held(p), {"idle"}, "idle")
    /\ UNCHANGED Unmarked
----------------------------------------------------------------------------
(* Recover, for an episode. *)
Unknown(r) ==
    \/ HasId(r) /\ (r.cur = 0 \/ r.shots[r.cur].pid # r.pid)
    \/ \E k \in 1..Shots : LET s == r.shots[k] IN ~s.clip /\ s.pid = NoJob /\ s.st # "queued"

(* Cancel and ForceFail.  Nobody reads what their record says of the      *)
(* shots, so it is left out of it.                                        *)
Tomb(r) == [Episode EXCEPT !.st = r.st, !.pid = r.pid, !.forced = r.forced, !.owner = r.owner]
CancelEpisode(p, j, i) == CancelAs(p, j, i, Tomb(As(jobs[j], "cancelled")))
ForcedEpisode(r) == Tomb(Forced(r))

(* Nothing renews the lease during an episode.  It is assumed to last     *)
(* until the first polling of a shot, whatever comes after.               *)
EpisodeLeasesExpire(o) ==
    /\ o \in Instances /\ ~Is(o, "idle") => \E k \in 1..Shots : Held(o).shots[k].pid # NoJob
    /\ LeasesExpire(o)

EpisodeInit ==
    /\ jobs = [j \in Jobs |-> Episode]
    /\ bills = [j \in Jobs |-> [state |-> "reserved", actual |-> 0]]
    /\ \E i \in Instances :
         /\ phase \in {f \in [Instances -> {"up", "down"}] : f[i] = "up"}
         /\ \E j \in Jobs : queue = [k \in Instances |-> IF k = i THEN <<j>> ELSE <<>>]
    /\ todo = [i \in Instances |-> {}]
    /\ retry = [i \in Instances |-> {}]
    /\ pc = [p \in Procs |-> "idle"]
    /\ task = [p \in Procs |-> NoTask]
    /\ remote = [k \in 1..Shots |-> "none"]
    /\ submissions = [k \in 1..Shots |-> 0]
    /\ crashes = 0 /\ faults = 0

EpisodeStep(p) ==
    \/ AdmitEpisode(p) \/ ReadShot(p) \/ SubmitShot(p) \/ GetShot(p) \/ PutShot(p)
    \/ Stage(p) \/ Narrate(p) \/ Caption(p) \/ Render(p) \/ PutComposition(p)
    \/ CommitEpisode(p) \/ SettleEpisode(p) \/ PutEpisode(p)
    \/ Save(p) \/ Drop(p) \/ PutPolled(p) \/ Again(p) \/ PutEnd(p) \/ EndBill(p)
    \/ CancelAtProvider(p) \/ CancelPut(p) \/ ForceReadAs(p, ForcedEpisode) \/ ForcePut(p)

EpisodeRuntime(i) ==
    \/ RunEpisode(i) \/ RetryFires(i) \/ Start(i)
    \/ RecoverNext(i, Unknown) \/ RecoverStops(i, Unknown) \/ Serve(i)

EpisodeNext ==
    \/ \E p \in Procs : EpisodeStep(p)
    \/ \E p \in Requests, j \in Jobs, i \in Instances : CancelEpisode(p, j, i) \/ ForceFail(p, j, i)
    \/ \E i \in Instances : EpisodeRuntime(i) \/ Crash(i)
    \/ \E o \in Instances \cup {Former} : EpisodeLeasesExpire(o)
    \/ \E k \in 1..Shots : RemoteEnds(k)

EpisodeSpec == EpisodeInit /\ [][EpisodeNext]_vars

(* The processes run, the provider ends its jobs, leases of idle workers  *)
(* run out.  A provider that is asked again and again takes a shot, tells *)
(* the truth about it and hands the clip over; the asset store takes the  *)
(* episode and the mutex of a job is not refused for ever.  Compositions  *)
(* may fail as often as they like, and clients cancel and force when they *)
(* like.  The steps under one WF or SF never wait for each other.         *)
Served(i) ==
    \/ ReadShot(i) /\ pc'[i] \in {"fail", "intent"}
    \/ GetShot(i) /\ pc'[i] \in {"fail", "gone", "shotDone"}
    \/ Render(i) /\ pc'[i] # "later"
    \/ CommitEpisode(i)
EpisodeFairness ==
    /\ \A i \in Instances :
         /\ WF_vars(EpisodeStep(i) \/ EpisodeRuntime(i))
         /\ SF_vars(Served(i)) /\ SF_vars(PutShot(i) /\ pc'[i] = "clip")
    /\ \A p \in Requests : WF_vars(EpisodeStep(p))
    /\ WF_vars(\E k \in 1..Shots : RemoteEnds(k))
    /\ WF_vars(\E o \in Instances \cup {Former} : LeasesExpire(o) /\ (o \in Instances => Is(o, "idle")))

EpisodeFairSpec == EpisodeSpec /\ EpisodeFairness
----------------------------------------------------------------------------
(* A stored episode is one the code can have written, and its count of failed compositions     *)
(* stays at the three after which retryEpisodeComposition gives up, but for one more each time *)
(* a crash separates the count from the failure.  The captions in it are timed for the         *)
(* narration in it, although each is stored, lost and made again on its own.                   *)
EpisodeTypeOK ==
    \A j \in Jobs :
        /\ jobs[j].st \in JobStates /\ jobs[j].pid \in (1..Shots) \cup {NoJob}
        /\ \A k \in 1..Shots : jobs[j].shots[k] \in
              [st : ShotStates, pid : {k, NoJob}, clip : BOOLEAN, cost : Actuals \cup {0}]
        /\ jobs[j].comp \in 0..MaxCompositions + crashes
        /\ jobs[j].subs \in {0, jobs[j].narr}

(* In a gateway of one process the provider accepts each shot of an       *)
(* episode at most once, whatever crashes, restarts, retries and          *)
(* cancellations happen: the intent is stored before the call, and after  *)
(* a restart an intent without a provider job is left to an operator.     *)
(* Two processes over one store break it (MCVideoEpisodeLease.cfg): the   *)
(* lease that runs out between two shots is not looked at before the next.*)
EachShotSubmittedOnce == \A k \in 1..Shots : submissions[k] <= 1

(* A shot is begun only when the clips of all earlier ones are stored     *)
(* (the checkpoint precedes the next turn of the loop), and the episode   *)
(* is composed or completed only with all clips.                          *)
ShotsInOrder ==
    \A j \in Jobs :
        /\ \A k \in 2..Shots : jobs[j].shots[k].st # "queued" => jobs[j].shots[k - 1].clip
        /\ jobs[j].st \in {"composing", "completed"} => AllClips(jobs[j])

(* A completed episode is billed the sum of what its shots cost if all of *)
(* them reported it, else it is settled at the estimate; a settlement     *)
(* repeated after a crash agrees with the first.                          *)
EpisodeIsBilled ==
    \A j \in Jobs : jobs[j].st = "completed" =>
        IF Reported(jobs[j]) THEN bills[j] = [state |-> "actual", actual |-> Total(jobs[j])]
        ELSE bills[j].state = "estimate"

(* "generated shot checkpoints are preserved": while an episode can still *)
(* go on, no step of a crash, retry, recovery or failed composition loses *)
(* a stored clip or the provider job of a shot.                           *)
CheckpointsAreKept ==
    [][\A j \in Jobs, k \in 1..Shots :
          ~AtRest(jobs'[j]) =>
              /\ jobs[j].shots[k].clip => jobs'[j].shots[k].clip
              /\ jobs[j].shots[k].pid # NoJob => jobs'[j].shots[k].pid # NoJob]_vars

(* An episode that an instance has in hand, or that a crash has left in    *)
(* the store, is completed, cancelled, failed or left to an operator.      *)
EpisodeComesToRest == \A j \in Jobs : []<>(AtRest(jobs[j]) \/ faults > 0)
=============================================================================
