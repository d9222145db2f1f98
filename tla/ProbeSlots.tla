----------------------------- MODULE ProbeSlots -----------------------------
(***************************************************************************)
(* The probe concurrency limit of internal/probe/engine.go: acquireProbe,  *)
(* releaseProbe and the part of Reload that changes the limit.             *)
(*                                                                         *)
(* A prober reads the limit under cfgMu, then counts itself in under       *)
(* limitMu or takes the channel limitChanged and waits for it to be        *)
(* closed.  Reload stores the configuration under cfgMu and then, under    *)
(* limitMu, closes the channel and replaces it.  Channels are numbered;    *)
(* one is closed when it is no longer the present one.                     *)
(***************************************************************************)
EXTENDS Naturals, FiniteSets

CONSTANTS
    Probers,    \* goroutines that want to send one probe each
    Limits,     \* values of probe.concurrency
    MaxReloads  \* bound on the number of reloads

ASSUME SlotsAssumption ==
    /\ Limits \subseteq Nat /\ Limits # {}
    /\ IsFiniteSet(Probers)
    /\ MaxReloads \in Nat

VARIABLES
    concurrency,    \* cfg.Probe.Concurrency in force
    active,         \* activeProbes
    channel,        \* the present limitChanged
    prober,         \* each prober's place, with the limit it read or the
                    \* channel it waits for
    waking,         \* Reload has stored a configuration, not yet woken anyone
    reloads,        \* reloads so far
    top             \* history: the largest limit that was ever in force

slots == <<concurrency, active, channel, prober, waking, reloads, top>>

At(place) == [at |-> place]

Effective(n) == IF n < 1 THEN 1 ELSE n

SlotsInit ==
    /\ concurrency \in Limits
    /\ active = 0
    /\ channel = 0
    /\ prober = [p \in Probers |-> At("start")]
    /\ waking = FALSE
    /\ reloads = 0
    /\ top = Effective(concurrency)

Move(p, place) == prober' = [prober EXCEPT ![p] = place]

(* acquireProbe, first part: e.current().Probe.Concurrency. *)
ReadLimit(p) ==
    /\ prober[p].at = "start"
    /\ Move(p, [at |-> "lock", limit |-> Effective(concurrency)])
    /\ UNCHANGED <<concurrency, active, channel, waking, reloads, top>>

(* Second part, under limitMu.  Slip: one prober too many. *)
AcquireBeyond(p) ==
    /\ prober[p].at = "lock"
    /\ IF active <= prober[p].limit
       THEN active' = active + 1 /\ Move(p, At("probing"))
       ELSE UNCHANGED active /\ Move(p, [at |-> "wait", channel |-> channel])
    /\ UNCHANGED <<concurrency, channel, waking, reloads, top>>

Acquire(p) ==
    /\ prober[p].at = "lock"
    /\ IF active < prober[p].limit
       THEN active' = active + 1 /\ Move(p, At("probing"))
       ELSE UNCHANGED active /\ Move(p, [at |-> "wait", channel |-> channel])
    /\ UNCHANGED <<concurrency, channel, waking, reloads, top>>

(* The channel was closed: from the start. *)
WakeUp(p) ==
    /\ prober[p].at = "wait" /\ prober[p].channel # channel
    /\ Move(p, At("start"))
    /\ UNCHANGED <<concurrency, active, channel, waking, reloads, top>>

(* The sweep or the request that wanted the probe is cancelled. *)
Cancel(p) ==
    /\ prober[p].at = "wait"
    /\ Move(p, At("done"))
    /\ UNCHANGED <<concurrency, active, channel, waking, reloads, top>>

(* Slip: the slot is given back, nobody is told. *)
ReleaseSilently(p) ==
    /\ prober[p].at = "probing"
    /\ active' = IF active > 0 THEN active - 1 ELSE active
    /\ Move(p, At("done"))
    /\ UNCHANGED <<concurrency, channel, waking, reloads, top>>

(* releaseProbe.  Slip: only the last probe counts itself out. *)
ReleaseLast(p) ==
    /\ prober[p].at = "probing"
    /\ active' = IF active > 1 THEN active ELSE 0
    /\ channel' = channel + 1
    /\ Move(p, At("done"))
    /\ UNCHANGED <<concurrency, waking, reloads, top>>

releaseProbe(p) ==
    /\ prober[p].at = "probing"
    /\ active' = IF active > 0 THEN active - 1 ELSE active
    /\ channel' = channel + 1
    /\ Move(p, At("done"))
    /\ UNCHANGED <<concurrency, waking, reloads, top>>

(* Reload: the new configuration, then the wake-up. *)
ReloadConfig ==
    /\ ~waking /\ reloads < MaxReloads
    /\ concurrency' \in Limits
    /\ waking' = TRUE
    /\ reloads' = reloads + 1
    /\ top' = IF Effective(concurrency') > top THEN Effective(concurrency') ELSE top
    /\ UNCHANGED <<active, channel, prober>>

ReloadWakes ==
    /\ waking
    /\ channel' = channel + 1
    /\ waking' = FALSE
    /\ UNCHANGED <<concurrency, active, prober, reloads, top>>

ProberStep(p) == ReadLimit(p) \/ Acquire(p) \/ WakeUp(p) \/ releaseProbe(p)

SlotsNext ==
    \/ \E p \in Probers : ProberStep(p) \/ Cancel(p)
    \/ ReloadConfig \/ ReloadWakes

(* Goroutines run, a probe ends by its timeout, and a reload that has      *)
(* begun is completed.                                                     *)
SlotsSpec ==
    /\ SlotsInit /\ [][SlotsNext]_slots
    /\ \A p \in Probers : WF_slots(ProberStep(p))
    /\ WF_slots(ReloadWakes)

----------------------------------------------------------------------------
(* Properties *)

Place ==
    [at : {"start", "probing", "done"}] \cup [at : {"lock"}, limit : Nat]
      \cup [at : {"wait"}, channel : Nat]

(* Counters are numbers, and a prober waits for a channel that existed. *)
SlotsTypeOK ==
    /\ concurrency \in Limits /\ active \in Nat /\ channel \in Nat
    /\ prober \in [Probers -> Place]
    /\ waking \in BOOLEAN /\ reloads \in 0..MaxReloads /\ top \in Nat
    /\ \A p \in Probers : prober[p].at = "wait" => prober[p].channel <= channel

Probing == {p \in Probers : prober[p].at = "probing"}

(* activeProbes counts the probes under way: none is forgotten and none    *)
(* counted after it ended, whatever reloads and cancellations happen.      *)
CountsProbes == active = Cardinality(Probing)

(* No more probes run at once than some configuration allowed, although a  *)
(* prober decides with a limit it read before it took the lock.            *)
NeverOversold == active <= top

(* No wake-up is lost for good: every prober gets its turn or is cancelled. *)
EveryProberIsServed == \A p \in Probers : <>(prober[p].at = "done")

(* "An increased concurrency value takes effect immediately even for a     *)
(* sweep that started under the previous configuration": while a prober    *)
(* waits, and no reload is half done, every slot of the limit in force is  *)
(* taken.                                                                  *)
NoFreeSlotWhileWaiting ==
    (\E p \in Probers : prober[p].at = "wait" /\ prober[p].channel = channel)
        => waking \/ active >= Effective(concurrency)

============================================================================
