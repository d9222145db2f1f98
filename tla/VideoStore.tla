----------------------------- MODULE VideoStore -----------------------------
(***************************************************************************)
(* The job store of the video gateway (internal/video/queue) and the job   *)
(* record (internal/video/job.go).  A record is what the orchestrator's    *)
(* decisions read: the state, the provider job ID (a single-shot job's has *)
(* the job's own name here), the operator's mark and the lease.  Every     *)
(* write replaces the whole record: the store compares nothing but         *)
(* terminality with what it overwrites.                                    *)
(*                                                                         *)
(* A lease is its owner while the deadline is ahead and NoOwner from then  *)
(* on: an expired lease means no more than none.  The states processing    *)
(* and polling have the same row in CanTransition and are one state here.  *)
(* Nothing in the program writes cancel_requested, planning,               *)
(* waiting_for_budget or expired into a job, so they are absent.           *)
(***************************************************************************)
EXTENDS Integers, FiniteSets, Sequences

CONSTANTS
    Instances,    \* gateway processes over the store
    Jobs,         \* job IDs
    NoOwner,      \* an empty lease_owner
    Former,       \* the lease_owner of processes that are gone
    NoJob         \* no record, no job ID


VARIABLE jobs     \* the stored records

JobStates == {"dry", "queued", "admitted", "submitted", "processing", "composing",
              "uploading", "completed", "failed", "cancelled", "manual"}

Records == [st : JobStates, pid : Jobs \cup {NoJob}, forced : BOOLEAN,
            owner : Instances \cup {NoOwner, Former}]

ASSUME StoreAssumption ==
    /\ NoOwner \notin Instances /\ Former \notin Instances /\ NoOwner # Former
    /\ NoJob \notin Jobs /\ NoJob \notin Records

HasId(r) == r.pid # NoJob

CanTransition(from, to) ==
    \/ from = to
    \/ from = "queued" /\ to \in {"admitted", "failed", "cancelled", "manual"}
    \/ from = "admitted" /\ to \in {"submitted", "failed", "manual"}
    \/ from \in {"submitted", "processing"}
       /\ to \in {"processing", "composing", "uploading", "completed", "cancelled", "failed", "manual"}
    \/ from = "composing" /\ to \in {"uploading", "completed", "failed", "manual"}
    \/ from = "uploading" /\ to \in {"completed", "cancelled", "failed", "manual"}
    \/ from = "manual" /\ to = "cancelled"
    \/ from = "failed" /\ to \in {"queued", "cancelled"}

Stored(j) == jobs[j] # NoJob
IsTerminal(r) == r.st \in {"completed", "cancelled", "dry"} \/ r.forced
(* The states in which every consumer gives a job up. *)
AtRest(r) == IsTerminal(r) \/ r.st \in {"failed", "manual"}

(* checkTerminalUpdate: a terminal record may only be written as it is. *)
WritableSlip(old, new) == TRUE
Writable(old, new) == ~IsTerminal(old) \/ old = new

(* claimable: no live lease, or one's own. *)
ClaimableSlip(r, i) == TRUE
Claimable(r, i) == r.owner \in {NoOwner, i}
Leased(r, i) == [r EXCEPT !.owner = i]
============================================================================
