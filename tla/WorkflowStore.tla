---------------------------- MODULE WorkflowStore ----------------------------
(***************************************************************************)
(* The run store of NexaFlow (internal/nexaflow: states.go, state.go,      *)
(* file_store.go, postgres_store.go) for one run of one pinned definition. *)
(*                                                                         *)
(* A node has a sequence of attempt rows; the last one is current.  A row  *)
(* keeps what the engine's decisions read: the state, the lease owner, the *)
(* dispatched mark and, of the output, the branch a branch node selected.  *)
(* A lease is its owner while its deadline is ahead and NoOwner from then  *)
(* on.  A write names the attempt it is for and the state it expects; it   *)
(* replaces the row, and since the engine always copies the row it read    *)
(* and changes a few fields, only those fields are named here.             *)
(*                                                                         *)
(* The file and memory stores compare a write with the current attempt and *)
(* refuse one for an older attempt (saveNodeExecution); the Postgres store *)
(* compares it with the row of its own attempt.  PerAttempt says which.    *)
(***************************************************************************)
EXTENDS Integers, Sequences, Functions

CONSTANTS
    Nodes,        \* node instance IDs of the definition
    Workers,      \* worker IDs: one per gateway process
    NoOwner,      \* an empty lease_owner
    PerAttempt,   \* TRUE: PostgresStore; FALSE: FileStore, MemoryStore
    Labels        \* branch labels

ASSUME WorkflowStoreAssumption == NoOwner \notin Workers /\ PerAttempt \in BOOLEAN

Empty == ""       \* no state, decision, branch or label

VARIABLES
    run,          \* Run.State
    rows,         \* per node, its attempt rows
    approvals     \* per node, the recorded decision

RunStates == {"created", "running", "waiting_for_approval", "succeeded", "failed",
              "cancelled", "needs_manual_action"}
RunTerminal(s) == s \in {"succeeded", "failed", "cancelled"}

NodeStates == {"pending", "claimed", "running", "waiting", "succeeded", "failed",
               "skipped", "cancelled", "needs_manual_action"}
Terminal(s) == s \in {"succeeded", "failed", "skipped", "cancelled"}

Rows == [st : NodeStates, owner : Workers \cup {NoOwner}, disp : BOOLEAN, sel : Labels \cup {Empty}]
NewRow == [st |-> "pending", owner |-> NoOwner, disp |-> FALSE, sel |-> Empty]

Decisions == {"approved", "rejected"}

validRunTransition(from, to) ==
    \/ from = to
    \/ from = "created" /\ to \in {"running", "cancelled"}
    \/ from = "running" /\ to \in RunStates \ {"created", "running"}
    \/ from = "waiting_for_approval" /\ to \in {"running", "cancelled", "failed"}
    \/ from = "needs_manual_action" /\ to \in {"cancelled", "failed"}

validNodeTransition(from, to) ==
    \/ from = to
    \/ from = "pending" /\ to \in {"claimed", "skipped", "cancelled"}
    \/ from = "claimed" /\ to \in {"running", "cancelled", "needs_manual_action", "waiting",
                                   "pending", "failed"}
    \/ from = "running" /\ to \in {"succeeded", "failed", "cancelled", "needs_manual_action",
                                   "waiting", "pending"}
    \/ from = "waiting" /\ to \in {"pending", "cancelled", "failed"}
    \/ from = "needs_manual_action" /\ to \in {"cancelled", "failed"}

Current(n) == rows[n][Len(rows[n])]

(* UpdateRunState: takes effect only from the expected state (Empty: any) along a valid transition. *)
RunAfter(expected, to) ==
    IF expected \in {Empty, run} /\ validRunTransition(run, to) THEN to ELSE run
updateRunState(expected, to) == run' = RunAfter(expected, to)

(* What a write for attempt k is compared with, and whether SaveNodeExecution accepts it. *)
Stored(n, k) == rows[n][IF PerAttempt THEN k ELSE Len(rows[n])]
AcceptsSlip(n, k, expected, to) ==
    /\ validNodeTransition(Stored(n, k).st, to)
    /\ PerAttempt \/ k = Len(rows[n])
Accepts(n, k, expected, to) ==
    /\ expected \in {Empty, Stored(n, k).st}
    /\ validNodeTransition(Stored(n, k).st, to)
    /\ PerAttempt \/ k = Len(rows[n])

(* The rows after SaveNodeExecution wrote r: a terminal row holds no lease. *)
Saved(n, k, r) ==
    [rows EXCEPT ![n][k] = [r EXCEPT !.owner = IF Terminal(r.st) THEN NoOwner ELSE @]]
SavedAs(n, k, to) == Saved(n, k, [rows[n][k] EXCEPT !.st = to])

(* TryClaim: pending or claimed, and no live foreign lease. *)
Claimable(n, w) == Current(n).st \in {"pending", "claimed"} /\ Current(n).owner \in {NoOwner, w}
Claimed(n, w) == [rows EXCEPT ![n][Len(rows[n])].st = "claimed", ![n][Len(rows[n])].owner = w]

(* AppendNodeExecution of operation "retry:k": repeating it returns the row already there. *)
Appended(n, k) == IF Len(rows[n]) > k THEN rows ELSE [rows EXCEPT ![n] = Append(@, NewRow)]
=============================================================================
