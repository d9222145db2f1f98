---------------------------- MODULE BreakerSync ----------------------------
(***************************************************************************)
(* Breaker synchronisation between replicas: internal/breakersync over     *)
(* internal/sharedstate.  Each replica has a health manager of its own;    *)
(* from time to time it runs a round that loads the shared document,       *)
(* applies the markers of its peers, collects its own active cooldowns and *)
(* retirements and merges them into the document with a compare-and-swap   *)
(* loop.  The manager goes on changing between any two steps of a round,   *)
(* the store may fail, and a replica may restart.                          *)
(*                                                                         *)
(* All replicas share one clock.  Deadlines are what is left of them, as   *)
(* in HealthState.  The revision of the document is only ever compared     *)
(* with the revision of the last load, so what is kept of it is whether    *)
(* the document was written since that load.  Reasons, observation times   *)
(* and the size limits of the document are left out.                       *)
(***************************************************************************)
EXTENDS HealthState

CONSTANTS
    Replicas, Deployments,
    MaxCooldown,   \* sharedstate.DefaultMaxCooldown, in ticks
    Retries,       \* compare-and-swap attempts after the first
    Durations,     \* lengths of the cooldowns that local failures cause
    NoReplica      \* the origin of an absent marker

(* A round reads the clock when it has loaded the document and again when  *)
(* it publishes, before the first access to the store; either half is      *)
(* bounded to end within this many ticks of the clock.                     *)
MaxLag == 1

ASSUME SyncAssumption ==
    /\ MaxCooldown \in Nat /\ MaxCooldown > MaxLag
    /\ Retries \in Nat /\ Durations \subseteq Nat \ {0}
    /\ NoReplica \notin Replicas

VARIABLES
    state,      \* the health manager of each replica
    doc,        \* the shared document
    round,      \* where each replica is in its round
    calm        \* no more incidents, restarts and store failures

syncVars == <<state, doc, round, calm>>

----------------------------------------------------------------------------
(* sharedstate: markers and their merge *)

Marker(status, until, origin) == [status |-> status, until |-> until, origin |-> origin]

NoMarker == Marker(NoStatus, NoDeadline, NoReplica)

Least(a, b) == IF a < b THEN a ELSE b

(* Slip: the deadline of a peer is taken as it is. *)
NormalizeUnclamped(e, now) ==
    IF e.status = Retired THEN [e EXCEPT !.until = NoDeadline]
    ELSE IF e.status = Cooldown /\ e.until > now THEN e
    ELSE NoMarker

(* now is 0 or how long ago the clock was read, as a negative number. *)
NormalizeEntry(e, now) ==
    IF e.status = Retired THEN [e EXCEPT !.until = NoDeadline]
    ELSE IF e.status = Cooldown /\ e.until > now
         THEN [e EXCEPT !.until = Least(@, now + MaxCooldown)]
    ELSE NoMarker

mergeEntry(current, incoming) ==
    IF current = NoMarker THEN incoming
    ELSE IF incoming = NoMarker \/ current.status = Retired THEN current
    ELSE IF incoming.status = Retired \/ incoming.until > current.until THEN incoming
    ELSE current

Merge(current, incoming, now) ==
    [d \in Deployments |->
        mergeEntry(NormalizeEntry(current[d], now), NormalizeEntry(incoming[d], now))]

----------------------------------------------------------------------------
Off == [at |-> "off"]

Init ==
    /\ state = [r \in Replicas |-> [d \in Deployments |-> NoEntry]]
    /\ doc = [d \in Deployments |-> NoMarker]
    /\ round = [r \in Replicas |-> Off]
    /\ calm = FALSE

(* Any error ends the round; Run logs it and waits for the next tick. *)
RoundFails(r) ==
    /\ ~calm
    /\ round' = [round EXCEPT ![r] = Off]

(* Slip: a peer's cooldown is renewed like a retirement. *)
DeadlineRenewed(r, e) ==
    IF e = NoMarker \/ e.origin = r THEN NoDeadline ELSE MaxCooldown

(* What a marker of the document makes a replica wait for. *)
DeadlineFor(r, e) ==
    IF e = NoMarker \/ e.origin = r THEN NoDeadline
    ELSE IF e.status = Retired THEN MaxCooldown
    ELSE e.until

(* SyncOnce: load the active markers. *)
LoadShared(r) ==
    LET view == Merge([d \in Deployments |-> NoMarker], doc, 0) IN
    /\ round[r].at = "off"
    /\ \/ round' = [round EXCEPT ![r] =
              [at |-> "apply", now |-> 0,
               todo |-> [d \in Deployments |-> DeadlineFor(r, view[d])]]]
       \/ RoundFails(r)
    /\ UNCHANGED <<state, doc, calm>>

(* apply: one marker at a time, in any order. *)
ApplyEntry(r, d) ==
    /\ round[r].at = "apply" /\ round[r].todo[d] # NoDeadline
    /\ state' = [state EXCEPT ![r][d] = AfterApplySharedCooldown(@, round[r].todo[d])]
    /\ round' = [round EXCEPT ![r].todo[d] = NoDeadline]
    /\ UNCHANGED <<doc, calm>>

(* Slip: a retirement stays local. *)
LocalMarkerCooldownOnly(r, s) ==
    IF Cooling(s) THEN Marker(Cooldown, s.until, r) ELSE NoMarker

LocalMarker(r, s) ==
    IF s.status = Retired THEN Marker(Retired, NoDeadline, r)
    ELSE IF Cooling(s) THEN Marker(Cooldown, s.until, r)
    ELSE NoMarker

(* Snapshot, LocalMarkers and prepareLocal: all of them before the first   *)
(* access to the store.                                                    *)
Collect(r) ==
    LET snapshot == [d \in Deployments |-> normalizeGlobal(state[r][d])] IN
    /\ round[r].at = "apply" /\ \A d \in Deployments : round[r].todo[d] = NoDeadline
    /\ state' = [state EXCEPT ![r] = snapshot]
    /\ round' = [round EXCEPT ![r] =
           [at |-> "load", now |-> 0, tries |-> 0,
            local |-> [d \in Deployments |->
                         NormalizeEntry(LocalMarker(r, snapshot[d]), 0)]]]
    /\ UNCHANGED <<doc, calm>>

(* Publish: load the document and merge; nothing to write ends the round. *)
PublishLoad(r) ==
    /\ round[r].at = "load"
    /\ \/ round' = [round EXCEPT ![r] =
              LET merged == Merge(doc, @.local, @.now) IN
              IF merged = doc THEN Off
              ELSE [at |-> "swap", now |-> @.now, tries |-> @.tries, local |-> @.local,
                    merged |-> merged, current |-> TRUE]]
       \/ RoundFails(r)
    /\ UNCHANGED <<state, doc, calm>>

(* A write of the document outdates what the other replicas have loaded. *)
Outdated(rounds) ==
    [q \in Replicas |->
        IF rounds[q].at = "swap" THEN [rounds[q] EXCEPT !.current = FALSE] ELSE rounds[q]]

(* Slip: the write does not look at the revision. *)
SwapUnconditionally(r) ==
    /\ round[r].at = "swap"
    /\ doc' = round[r].merged
    /\ round' = Outdated([round EXCEPT ![r] = Off])
    /\ UNCHANGED <<state, calm>>

(* The compare-and-swap succeeds. *)
Swap(r) ==
    /\ round[r].at = "swap" /\ round[r].current
    /\ doc' = round[r].merged
    /\ round' = Outdated([round EXCEPT ![r] = Off])
    /\ UNCHANGED <<state, calm>>

(* A revision conflict: load and merge again, while there are tries left. *)
SwapConflict(r) ==
    /\ round[r].at = "swap" /\ ~round[r].current
    /\ round' = [round EXCEPT ![r] =
           IF @.tries = Retries THEN Off
           ELSE [at |-> "load", now |-> @.now, tries |-> @.tries + 1, local |-> @.local]]
    /\ UNCHANGED <<state, doc, calm>>

(* The store reports an error; the write may have taken effect all the same. *)
SwapError(r) ==
    /\ round[r].at = "swap" /\ ~calm
    /\ \/ /\ round[r].current
          /\ doc' = round[r].merged
          /\ round' = Outdated([round EXCEPT ![r] = Off])
       \/ /\ round' = [round EXCEPT ![r] = Off]
          /\ UNCHANGED doc
    /\ UNCHANGED <<state, calm>>

----------------------------------------------------------------------------
(* What happens to a replica outside its rounds *)

Become(r, d, s) ==
    /\ state' = [state EXCEPT ![r][d] = s]
    /\ UNCHANGED <<doc, round, calm>>

(* A local breaker opens, or the upstream asks to be left alone. *)
LocalCooldown(r, d) ==
    ~calm /\ \E n \in Durations : Become(r, d, AfterEnterCooldown(state[r][d], n))

LocalRetire(r, d) == ~calm /\ Become(r, d, AfterRetire(state[r][d]))

LocalSuccess(r, d) == Become(r, d, AfterRecordSuccess(state[r][d]))

(* A reload gives the deployment a new identity. *)
LocalInvalidate(r, d) == ~calm /\ Become(r, d, Invalidated)

(* The process is restarted, with the same replica ID. *)
Restart(r) ==
    /\ ~calm
    /\ state' = [state EXCEPT ![r] = [d \in Deployments |-> NoEntry]]
    /\ round' = [round EXCEPT ![r] = Off]
    /\ UNCHANGED <<doc, calm>>

CalmDown ==
    /\ ~calm /\ calm' = TRUE
    /\ UNCHANGED <<state, doc, round>>

AgedMarkers(markers) == [d \in Deployments |-> [markers[d] EXCEPT !.until = Ticked(@)]]

AgedRound(w) ==
    CASE w.at = "off" -> w
      [] w.at = "apply" ->
            [w EXCEPT !.now = @ - 1, !.todo = [d \in Deployments |-> Ticked(@[d])]]
      [] w.at = "load" ->
            [w EXCEPT !.now = @ - 1, !.local = AgedMarkers(@)]
      [] w.at = "swap" ->
            [w EXCEPT !.now = @ - 1, !.local = AgedMarkers(@), !.merged = AgedMarkers(@)]

Tick ==
    /\ \A r \in Replicas : round[r].at # "off" => round[r].now > - MaxLag
    /\ state' = [r \in Replicas |-> [d \in Deployments |-> Aged(state[r][d])]]
    /\ doc' = AgedMarkers(doc)
    /\ round' = [r \in Replicas |-> AgedRound(round[r])]
    /\ UNCHANGED <<calm>>

RoundStep(r) ==
    \/ LoadShared(r)
    \/ \E d \in Deployments : ApplyEntry(r, d)
    \/ Collect(r) \/ PublishLoad(r) \/ Swap(r) \/ SwapConflict(r) \/ SwapError(r)

Next ==
    \/ \E r \in Replicas : RoundStep(r) \/ Restart(r)
    \/ \E r \in Replicas, d \in Deployments :
          LocalCooldown(r, d) \/ LocalRetire(r, d) \/ LocalSuccess(r, d) \/ LocalInvalidate(r, d)
    \/ CalmDown \/ Tick

Spec == Init /\ [][Next]_syncVars

(* The ticker of every replica goes on, and so does the clock. *)
FairSpec == Spec /\ WF_syncVars(Tick) /\ \A r \in Replicas : WF_syncVars(RoundStep(r))

----------------------------------------------------------------------------
Markers ==
    [status : {NoStatus, Cooldown, Retired}, until : -2..MaxCooldown,
     origin : Replicas \cup {NoReplica}]

Documents == [Deployments -> Markers]

Rounds ==
    {Off}
      \cup [at : {"apply"}, now : - MaxLag..0, todo : [Deployments -> -2..MaxCooldown]]
      \cup [at : {"load"}, now : - MaxLag..0, tries : 0..Retries, local : Documents]
      \cup [at : {"swap"}, now : - MaxLag..0, tries : 0..Retries, local : Documents,
            merged : Documents, current : BOOLEAN]

(* Every deadline in the shared document and on its way to or from it is   *)
(* within the cap, and a publish makes at most 1 + Retries attempts.       *)
TypeOK ==
    /\ state \in [Replicas -> [Deployments ->
                    [status : Status, fails : 0..FailCap, until : Int]]]
    /\ doc \in Documents /\ round \in [Replicas -> Rounds]
    /\ calm \in BOOLEAN

(* Concurrent publishes lose nothing: but for the clock, a step leaves     *)
(* every active marker of the document in place, retired for good or with  *)
(* its deadline, which a writer whose clock reading is old may only bring  *)
(* forward to the cap as of that reading.                                  *)
MarkersSurvive ==
    [][~Tick => \A d \in Deployments :
        /\ doc[d].status = Retired => doc'[d].status = Retired
        /\ doc[d].status = Cooldown /\ Pending(doc[d].until)
           => \/ doc'[d].status = Retired
              \/ /\ doc'[d].status = Cooldown
                 /\ doc'[d].until >= Least(doc[d].until, MaxCooldown - MaxLag)]_syncVars

(* However often replicas repeat each other's markers, cooldowns end: once *)
(* nothing fails any more and nothing is marked as retired, every replica  *)
(* admits every deployment again.                                          *)
EchoDiesOut ==
    <>[](calm /\ \A d \in Deployments : doc[d].status # Retired)
        => <>[](\A r \in Replicas, d \in Deployments : ~Cooling(state[r][d]))

(* While the store works, a retirement that one replica keeps is felt by   *)
(* every other: again and again they keep the deployment out, except the   *)
(* replica whose own earlier marker is still in the document.              *)
RetirementSpreads ==
    \A a \in Replicas : \A b \in Replicas \ {a}, d \in Deployments :
        <>[](calm /\ state[a][d].status = Retired)
            => \/ []<>(state[b][d].status \in {Cooldown, Retired})
               \/ <>[](doc[d].origin = b)

(* A remote retirement is "re-extended while the origin keeps publishing": *)
(* once no replica holds a deployment for retired, its cooldowns end.      *)
RetirementLapses ==
    \A d \in Deployments :
        <>[](calm /\ \A r \in Replicas : state[r][d].status # Retired)
            => <>[](\A r \in Replicas : ~Cooling(state[r][d]))

============================================================================
