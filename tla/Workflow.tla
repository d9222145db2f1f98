------------------------------ MODULE Workflow ------------------------------
(***************************************************************************)
(* NexaFlow's durable workflow engine (internal/nexaflow/engine.go) over   *)
(* its run store: one run, driven by Execute on behalf of HTTP requests,   *)
(* decided, cancelled and recovered concurrently.                          *)
(*                                                                         *)
(* A step is one store call with the code around it; what a step read and  *)
(* a later step uses stays in the worker's record.  A node is one of four  *)
(* kinds: an Effectful node (external, billable) calls a provider for real *)
(* money, any other node has side-effect class none or read; a Gated node  *)
(* needs the operator's policy approval before it runs; an Approval node   *)
(* (control.approval) waits for a decision and succeeds with either one.   *)
(* What a node's call returns is any member of Outcomes[n]; for a branch   *)
(* node a success carries the branch it selected.  An input mapping that   *)
(* cannot be resolved is one more thing that can happen to a claimed node. *)
(*                                                                         *)
(* Any store call may fail, at most MaxFaults of them.  The calls an       *)
(* Execute makes over a database after its context ended are among these.  *)
(*                                                                         *)
(* The approval timeout is left at its default of zero, so no wait ever    *)
(* expires.  Node IDs are numbers: the engine breaks ties by their order.  *)
(***************************************************************************)
EXTENDS WorkflowStore, FiniteSets, FiniteSetsExt

CONSTANTS
    Edges,        \* <<from, to, label>>, the label Empty when the edge is unlabelled
    Effectful,    \* nodes of class external, billable or irreversible
    Gated,        \* nodes with RequiresOperatorPolicy
    Approval,     \* control.approval nodes
    Outcomes,     \* per node, what its call may return
    Selects,      \* per node, the branches a success may select ({Empty}: no branch node)
    MaxAttempts,  \* per node, Retry.MaxAttempts
    RetryTimeout, \* nodes whose RetryableCodes list the timeout
    Unmappable,   \* nodes whose input mapping may fail to resolve
    Requests,     \* approval and cancel requests in flight at a time
    Answers,      \* the decisions operators give
    Cancellable,  \* whether cancel requests come
    Contexts,     \* how an Execute's context may end: "cancelled", "expired"
    MaxCrashes,   \* bound: process crashes
    MaxFaults,    \* bound: store calls that fail
    MaxIncidents  \* bound: both together

ASSUME WorkflowAssumption ==
    /\ \A n \in Nodes : /\ Outcomes[n] \subseteq {"ok", "retry", "timeout", "fail"}
                        /\ Selects[n] \subseteq Labels \cup {Empty}
                        /\ MaxAttempts[n] \in Nat \ {0}
    /\ Answers \subseteq Decisions
    /\ Contexts \subseteq {"cancelled", "expired"}
    /\ MaxCrashes \in Nat /\ MaxFaults \in Nat /\ MaxIncidents \in Nat

(* The specs of the effectful nodes declare one attempt (nodes_llm.go, nodes_mcp.go,            *)
(* nodes_trigger.go, nodes_video.go): recordOutcome would retry them like any other node.       *)
ASSUME EffectsAreNotRetried ==
    Effectful \subseteq Nodes /\ \A n \in Effectful : MaxAttempts[n] = 1

VARIABLES
    eng,          \* per worker, the Execute or Recover it is in
    req,          \* per request, where its handler is
    calls,        \* per node, how often its provider was called (at most 2 counted)
    crashes, faults

vars == <<run, rows, approvals, eng, req, calls, crashes, faults>>
store == <<run, rows, approvals>>
bounds == <<crashes, faults>>

-----------------------------------------------------------------------------
(* The graph (graph.go). *)

incomingEdges(n) == {e \in Edges : e[2] = n}
Sources(n) == {e[1] : e \in incomingEdges(n)}

(* TopologicalOrder: the ready list is kept sorted, so its smallest node comes next. *)
TopologicalOrder ==
    LET Take[i \in 0..Cardinality(Nodes)] ==
            IF i = 0 THEN <<>>
            ELSE LET out == Range(Take[i - 1])
                 IN Append(Take[i - 1], Min({n \in Nodes \ out : Sources(n) \subseteq out}))
    IN Take[Cardinality(Nodes)]

First(S) == CHOOSE n \in S : \A m \in S :
    \E i, j \in DOMAIN TopologicalOrder :
        TopologicalOrder[i] = n /\ TopologicalOrder[j] = m /\ i <= j

(* Validation admits finite acyclic graphs only, so the order lists every node.                *)
ASSUME OrderAssumption == \A S \in SUBSET Nodes : S # {} => First(S) \in S

(* edgeFired, nodeReadiness: s gives the node states the sweep knows. *)
edgeFired(e, s) == e[3] = Empty \/ (s[e[1]] = "succeeded" /\ Current(e[1]).sel = e[3])
Resolved(e, s) ==
    IF edgeFired(e, s) THEN Terminal(s[e[1]]) \/ s[e[1]] = "needs_manual_action"
                       ELSE Terminal(s[e[1]])
Carries(e, s) == edgeFired(e, s) /\ s[e[1]] = "succeeded"
ReadySlip(n, s) == incomingEdges(n) = {} \/ \E e \in incomingEdges(n) : Carries(e, s)
Ready(n, s) == \A e \in incomingEdges(n) : Carries(e, s)
Skip(n, s) ==
    /\ \A e \in incomingEdges(n) : Resolved(e, s)
    /\ ~Ready(n, s)

-----------------------------------------------------------------------------
(* Workers and requests. *)

NoWork == [k |-> 0, res |-> "none", sel |-> Empty]
NoSnap == [n \in Nodes |-> [st |-> "none", k |-> 0]]

Idle == [pc |-> "idle", ctx |-> "live", snap |-> NoSnap, todo |-> {}, prog |-> FALSE,
         jobs |-> [n \in Nodes |-> NoWork], node |-> 0, seen |-> Empty, want |-> Empty]
Down == [Idle EXCEPT !.pc = "down"]
Quiet == [pc |-> "idle", at |-> NoOwner, dec |-> Empty, was |-> Empty, todo |-> {}, want |-> Empty]

At(w, pc) == eng[w].pc = pc
Becomes(w, e) == eng' = [eng EXCEPT ![w] = e]
Serves(w) == eng[w].pc \notin {"down", "recover", "recovering", "resettle", "resettled"}
InFlight(w) == Serves(w) /\ eng[w].pc \notin {"idle", "create", "execute"}
Executing(w) == InFlight(w) /\ eng[w].pc \notin {"settle", "settled"}
Incident == crashes + faults < MaxIncidents
Fault == Incident /\ faults < MaxFaults /\ faults' = faults + 1

Initialized == \A n \in Nodes : rows[n] # <<>>
CurrentAttempts == [n \in Nodes |-> [st |-> Current(n).st, k |-> Len(rows[n])]]
States(snap) == [n \in Nodes |-> snap[n].st]
Active(e) == {n \in Nodes : e.jobs[n].res # "none"}
Clear(e, n) == [e EXCEPT !.jobs[n] = NoWork, !.pc = "pool", !.node = 0, !.seen = Empty, !.want = Empty]

(* recomputeRunState: the run state the current attempts call for, Empty when they leave it open. *)
Target ==
    LET s == States(CurrentAttempts)
        allTerminal == \A n \in Nodes : Terminal(s[n])
        hasRunnable == \E n \in Nodes :
            \/ s[n] \in {"claimed", "running"}
            \/ s[n] = "pending" /\ (Ready(n, s) \/ Skip(n, s))
        any(st) == \E n \in Nodes : s[n] = st
    IN CASE RunTerminal(run) -> Empty
         [] OTHER ->
              IF any("needs_manual_action") THEN "needs_manual_action"
              ELSE IF any("failed") /\ allTerminal THEN "failed"
              ELSE IF any("waiting") /\ ~hasRunnable THEN "waiting_for_approval"
              ELSE IF allTerminal THEN "succeeded"
              ELSE Empty

-----------------------------------------------------------------------------
(* CreateRun: the run is visible before its attempts are; Execute refuses it until then.  The   *)
(* handler that created the run goes on to execute it, once.                                    *)
CreateAttempt(w) ==
    /\ At(w, "create")
    /\ LET missing == {n \in Nodes : rows[n] = <<>>}
       IN IF missing = {}
            THEN Becomes(w, [Idle EXCEPT !.pc = "execute"]) /\ UNCHANGED rows
            ELSE /\ rows' = [rows EXCEPT ![First(missing)] = <<NewRow>>]
                 /\ UNCHANGED eng
    /\ UNCHANGED <<run, approvals, req, calls, bounds>>

(* Execute's entry: a run that is over or parked, or not complete yet, is not driven; the others *)
(* are in flight from here on.                                                                   *)
Drivable == ~RunTerminal(run) /\ run # "needs_manual_action" /\ Initialized
Enter(w) == Becomes(w, IF Drivable THEN [Idle EXCEPT !.pc = "enter"] ELSE Idle)

ExecuteCreated(w) ==
    /\ At(w, "execute")
    /\ Enter(w)
    /\ UNCHANGED <<store, req, calls, bounds>>

(* The resume endpoint, or the repetition of a create request: a client may ask at any time. *)
Resume(w) ==
    /\ At(w, "idle") /\ Drivable
    /\ Enter(w)
    /\ UNCHANGED <<store, req, calls, bounds>>

(* The run is read once more, and a run that was parked meanwhile is swept all the same. *)
Reread(w) ==
    /\ At(w, "enter")
    /\ Becomes(w, IF RunTerminal(run) THEN Idle
                  ELSE IF run \in {"created", "waiting_for_approval"}
                  THEN [eng[w] EXCEPT !.pc = "begin", !.seen = run]
                  ELSE [eng[w] EXCEPT !.pc = "sweep"])
    /\ UNCHANGED <<store, req, calls, bounds>>
Begin(w) ==
    /\ At(w, "begin")
    /\ updateRunState(eng[w].seen, "running")
    /\ Becomes(w, IF run = eng[w].seen THEN [eng[w] EXCEPT !.pc = "sweep", !.seen = Empty] ELSE Idle)
    /\ UNCHANGED <<rows, approvals, req, calls, bounds>>

(* sweep: the snapshot everything below works from. *)
Sweep(w) ==
    /\ At(w, "sweep")
    /\ LET snap == CurrentAttempts
           waiting == {n \in Nodes : snap[n].st = "waiting"}
       IN Becomes(w, [eng[w] EXCEPT !.pc = "approve", !.snap = snap, !.todo = waiting, !.prog = FALSE])
    /\ UNCHANGED <<store, req, calls, bounds>>

(* A recorded decision makes its waiting node pending. *)
ApplyDecision(w) ==
    /\ At(w, "approve")
    /\ \E n \in eng[w].todo :
        LET k == eng[w].snap[n].k
            e == [eng[w] EXCEPT !.todo = @ \ {n}]
        IN IF approvals[n] # Empty /\ Accepts(n, k, "waiting", "pending")
             THEN rows' = SavedAs(n, k, "pending") /\ Becomes(w, [e EXCEPT !.snap[n].st = "pending"])
             ELSE Becomes(w, e) /\ UNCHANGED rows
    /\ UNCHANGED <<run, approvals, req, calls, bounds>>

Decided(w) ==
    /\ At(w, "approve") /\ eng[w].todo = {}
    /\ Becomes(w, [eng[w] EXCEPT !.pc = "visit", !.todo = Nodes])
    /\ UNCHANGED <<store, req, calls, bounds>>

(* The pending nodes the sweep has still to skip or to claim. *)
Due(e) == LET s == States(e.snap)
          IN {n \in e.todo : s[n] = "pending" /\ (Ready(n, s) \/ Skip(n, s))}

(* An error ends Execute, which cancels the run only when its context is over. *)
Abort(w) ==
    /\ run' = IF eng[w].ctx = "live" THEN run ELSE RunAfter(Empty, "cancelled")
    /\ Becomes(w, Idle)

Visit(w) ==
    /\ At(w, "visit") /\ Due(eng[w]) # {}
    /\ LET n == First(Due(eng[w]))
           k == eng[w].snap[n].k
           e == [eng[w] EXCEPT !.todo = @ \ {n}]
           job == [k |-> Len(rows[n]), res |-> "claimed", sel |-> Empty]
       IN IF Skip(n, States(e.snap))
            THEN IF Accepts(n, k, "pending", "skipped")
                   THEN /\ rows' = SavedAs(n, k, "skipped")
                        /\ Becomes(w, [e EXCEPT !.snap[n].st = "skipped", !.prog = TRUE])
                   ELSE Becomes(w, e) /\ UNCHANGED rows
            ELSE IF ~Claimable(n, w)
                   THEN Becomes(w, e) /\ UNCHANGED rows
                   ELSE /\ rows' = Claimed(n, w)
                        /\ \/ Becomes(w, [e EXCEPT !.jobs[n] = job, !.prog = TRUE])
                           \/ /\ n \in Unmappable
                              /\ Becomes(w, [e EXCEPT !.pc = "unmapped", !.node = n, !.snap[n].k = job.k])
    /\ UNCHANGED <<run, approvals, req, calls, bounds>>

(* An unresolvable input mapping fails the node without dispatching it. *)
FailUnmapped(w) ==
    /\ At(w, "unmapped")
    /\ LET n == eng[w].node
           k == eng[w].snap[n].k
       IN IF Accepts(n, k, "claimed", "failed")
            THEN /\ rows' = SavedAs(n, k, "failed")
                 /\ Becomes(w, [eng[w] EXCEPT !.pc = "visit", !.node = 0, !.snap[n].st = "failed", !.prog = TRUE])
                 /\ UNCHANGED run
            ELSE Abort(w) /\ UNCHANGED rows
    /\ UNCHANGED <<approvals, req, calls, bounds>>

Visited(w) ==
    /\ At(w, "visit") /\ Due(eng[w]) = {}
    /\ Becomes(w, [eng[w] EXCEPT !.pc = "pool", !.todo = {}, !.snap = NoSnap])
    /\ UNCHANGED <<store, req, calls, bounds>>

-----------------------------------------------------------------------------
(* runJobs: the pool's goroutines. *)

(* Running and dispatched are recorded before the node is called.  A lease that ran out while *)
(* the job was queued stays out: the row is written as it was claimed.                        *)
Dispatch(w, n) ==
    /\ At(w, "pool") /\ eng[w].jobs[n].res = "claimed"
    /\ LET k == eng[w].jobs[n].k
           row == [rows[n][k] EXCEPT !.st = "running", !.disp = TRUE,
                                     !.owner = IF @ = w THEN w ELSE NoOwner]
       IN \/ /\ Accepts(n, k, "claimed", "running")
             /\ rows' = Saved(n, k, row)
             /\ Becomes(w, [eng[w] EXCEPT !.jobs[n].res = "running"])
             /\ UNCHANGED faults
          \/ /\ IF Accepts(n, k, "claimed", "running")
                  THEN Fault
                  ELSE UNCHANGED faults
             /\ Becomes(w, [eng[w] EXCEPT !.jobs[n].res = "conflict"])
             /\ UNCHANGED rows
    /\ UNCHANGED <<run, approvals, req, calls, crashes>>

(* registry.Execute: the policy gate, then the call.  One that is still out when the context *)
(* ends reports that instead of its result.                                                  *)
Returns(w, n) ==
    CASE n \in Gated /\ approvals[n] # "approved" -> {"gate"}
      [] OTHER -> IF eng[w].ctx = "cancelled" THEN {"cancelled"}
                  ELSE IF eng[w].ctx = "expired" THEN {"cancelled", "timeout"}
                  ELSE IF n \in Approval THEN IF approvals[n] = Empty THEN {"gate"} ELSE {"ok"}
                  ELSE Outcomes[n]
Call(w, n) ==
    /\ At(w, "pool") /\ eng[w].jobs[n].res = "running"
    /\ \E out \in Returns(w, n) :
        \E b \in IF out = "ok" THEN Selects[n] ELSE {Empty} :
            Becomes(w, [eng[w] EXCEPT !.jobs[n].res = out, !.jobs[n].sel = b])
    /\ calls' = [calls EXCEPT ![n] = IF Returns(w, n) = {"gate"} \/ @ = 2 THEN @ ELSE @ + 1]
    /\ UNCHANGED <<store, req, bounds>>

(* The approval of a policy gate cannot be read: the gate holds. *)
GateUnread(w, n) ==
    /\ At(w, "pool") /\ eng[w].jobs[n].res = "running" /\ n \in Gated
    /\ Fault
    /\ Becomes(w, [eng[w] EXCEPT !.jobs[n].res = "gate"])
    /\ UNCHANGED <<store, req, calls, crashes>>

(* The state an outcome is recorded as; a retry first appends its attempt. *)
Recorded(n, job) ==
    CASE job.res = "ok" -> "succeeded"
      [] job.res = "cancelled" -> "cancelled"
      [] job.res = "gate" -> "waiting"
      [] job.res = "timeout" /\ n \in Effectful -> "needs_manual_action"
      [] OTHER -> "failed"
Retryable(n, res) == res = "retry" \/ (res = "timeout" /\ n \in RetryTimeout)
RetriedSlip(n, job) == Retryable(n, job.res) /\ job.k <= MaxAttempts[n]
Retried(n, job) == Retryable(n, job.res) /\ job.k < MaxAttempts[n]

(* recordOutcome: the pool has drained; outcomes are recorded one by one.  The attempt row is *)
(* read again, and what is written expects the state read; without it, the state the sweep    *)
(* knew.                                                                                      *)
Record(w) ==
    /\ At(w, "pool") /\ Active(eng[w]) # {}
    /\ \A n \in Active(eng[w]) : eng[w].jobs[n].res \notin {"claimed", "running"}
    /\ LET n == First(Active(eng[w]))
           job == eng[w].jobs[n]
       IN \E s \in {rows[n][job.k].st, "pending"} :
            /\ IF s = rows[n][job.k].st THEN UNCHANGED faults ELSE Fault
            /\ Becomes(w, [eng[w] EXCEPT !.pc = IF Retried(n, job) THEN "append" ELSE "save",
                                         !.node = n, !.seen = s, !.want = Recorded(n, job)])
    /\ UNCHANGED <<store, req, calls, crashes>>

AppendRetry(w) ==
    /\ At(w, "append")
    /\ \/ /\ rows' = Appended(eng[w].node, eng[w].jobs[eng[w].node].k)
          /\ Becomes(w, [eng[w] EXCEPT !.pc = "save"])
          /\ UNCHANGED faults
       \/ /\ Fault
          /\ Becomes(w, [eng[w] EXCEPT !.pc = "park"])
          /\ UNCHANGED rows
    /\ UNCHANGED <<run, approvals, req, calls, crashes>>

SaveOutcome(w) ==
    /\ At(w, "save")
    /\ LET n == eng[w].node
           k == eng[w].jobs[n].k
           row == [rows[n][k] EXCEPT !.st = eng[w].want, !.sel = eng[w].jobs[n].sel]
       IN \/ /\ Accepts(n, k, eng[w].seen, eng[w].want)
             /\ rows' = Saved(n, k, row)
             /\ Becomes(w, Clear(eng[w], n))
             /\ UNCHANGED faults
          \/ /\ IF Accepts(n, k, eng[w].seen, eng[w].want)
                  THEN Fault
                  ELSE UNCHANGED faults
             /\ Becomes(w, [eng[w] EXCEPT !.pc = "park"])
             /\ UNCHANGED rows
    /\ UNCHANGED <<run, approvals, req, calls, crashes>>

(* parkPersistFailure: an outcome the store did not take is unknown to it.  When that cannot be *)
(* stored either, the row stays as it is.                                                       *)
Park(w) ==
    /\ At(w, "park")
    /\ LET n == eng[w].node
           k == eng[w].jobs[n].k
       IN /\ \/ /\ rows' = IF Accepts(n, k, Empty, "needs_manual_action")
                            THEN SavedAs(n, k, "needs_manual_action") ELSE rows
                /\ UNCHANGED faults
             \/ Fault /\ UNCHANGED rows
          /\ Becomes(w, Clear(eng[w], n))
    /\ UNCHANGED <<run, approvals, req, calls, crashes>>

(* The end of a sweep: once more, or finishRun. *)
AfterSweepSlip(e) == "settle"
AfterSweep(e) == IF e.prog THEN "sweep" ELSE "settle"
EndSweep(w) ==
    /\ At(w, "pool") /\ Active(eng[w]) = {}
    /\ IF RunTerminal(run)
         THEN Becomes(w, Idle) /\ UNCHANGED run
         ELSE IF eng[w].ctx # "live"
         THEN Abort(w)
         ELSE /\ Becomes(w, [eng[w] EXCEPT !.pc = AfterSweep(eng[w])])
              /\ UNCHANGED run
    /\ UNCHANGED <<rows, approvals, req, calls, bounds>>

(* recomputeRunState reads, then writes; "resettle" is its call from Recover. *)
Settle(w) ==
    /\ At(w, "settle") \/ At(w, "resettle")
    /\ Becomes(w, IF Target = Empty THEN Idle
                  ELSE [Idle EXCEPT !.pc = IF At(w, "settle") THEN "settled" ELSE "resettled",
                                    !.want = Target])
    /\ UNCHANGED <<store, req, calls, bounds>>
Settled(w) ==
    /\ At(w, "settled") \/ At(w, "resettled")
    /\ updateRunState(Empty, eng[w].want)
    /\ Becomes(w, Idle)
    /\ UNCHANGED <<rows, approvals, req, calls, bounds>>

(* The request's context ends: the client is gone, or RunTimeoutSeconds have passed. *)
ContextEnds(w) ==
    /\ Executing(w) /\ eng[w].ctx = "live"
    /\ \E c \in Contexts : Becomes(w, [eng[w] EXCEPT !.ctx = c])
    /\ UNCHANGED <<store, req, calls, bounds>>

(* A store call whose error ends the handler: Execute on its way in or out, a sweep (which gives *)
(* up with nodes claimed and all), CreateRun or Recover.                                         *)
StoreFails(w) ==
    /\ \/ eng[w].pc \in {"create", "execute", "enter", "begin", "sweep", "unmapped", "settle",
                         "settled", "recover", "resettle", "resettled"}
       \/ At(w, "approve") /\ eng[w].todo # {}
       \/ At(w, "visit") /\ Due(eng[w]) # {}
       \/ At(w, "pool") /\ Active(eng[w]) = {}
    /\ Fault
    /\ IF eng[w].pc \in {"sweep", "approve", "visit", "unmapped"}
         THEN Abort(w)
         ELSE Becomes(w, Idle) /\ UNCHANGED run
    /\ UNCHANGED <<rows, approvals, req, calls, crashes>>

-----------------------------------------------------------------------------
(* The approve handler.  DecideApproval records the decision first and applies it to the node *)
(* next; when it succeeds the handler executes the run, once.                                 *)

Driving(q) == [Quiet EXCEPT !.pc = "execute", !.at = req[q].at]

DecideRead(q, w) ==
    /\ req[q].pc = "idle" /\ Serves(w) /\ Initialized
    /\ \E n \in Nodes, d \in Answers :
        /\ Current(n).st = "waiting"
        /\ req' = [req EXCEPT ![q] = [Quiet EXCEPT !.pc = "record", !.at = w, !.dec = d, !.was = run,
                                                   !.todo = {<<n, Len(rows[n])>>}]]
    /\ UNCHANGED <<store, eng, calls, bounds>>

(* RecordApproval: once per node; the same approver may repeat the same decision. *)
RecordApproval(q) ==
    /\ req[q].pc = "record"
    /\ LET n == (CHOOSE p \in req[q].todo : TRUE)[1]
       IN \/ /\ approvals[n] \in {Empty, req[q].dec}
             /\ approvals' = [approvals EXCEPT ![n] = req[q].dec]
             /\ req' = [req EXCEPT ![q].pc = "decide"]
          \/ /\ approvals[n] # Empty
             /\ req' = [req EXCEPT ![q] = Quiet]
             /\ UNCHANGED approvals
    /\ UNCHANGED <<run, rows, eng, calls, bounds>>

(* A rejected policy gate fails the node; any other decision queues it again. *)
ApplyRequest(q) ==
    /\ req[q].pc = "decide"
    /\ LET p == CHOOSE p \in req[q].todo : TRUE
           refused == req[q].dec = "rejected" /\ p[1] \in Gated
           to == IF refused THEN "failed" ELSE "pending"
       IN IF Accepts(p[1], p[2], "waiting", to)
            THEN /\ rows' = SavedAs(p[1], p[2], to)
                 /\ req' = [req EXCEPT ![q] =
                        IF refused THEN [Quiet EXCEPT !.pc = "settle", !.at = req[q].at]
                        ELSE IF req[q].was = "waiting_for_approval"
                        THEN [Quiet EXCEPT !.pc = "resume", !.at = req[q].at]
                        ELSE Driving(q)]
            ELSE req' = [req EXCEPT ![q] = Quiet] /\ UNCHANGED rows
    /\ UNCHANGED <<run, approvals, eng, calls, bounds>>

ResumeRun(q) ==
    /\ req[q].pc = "resume"
    /\ updateRunState("waiting_for_approval", "running")
    /\ req' = [req EXCEPT ![q] = Driving(q)]
    /\ UNCHANGED <<rows, approvals, eng, calls, bounds>>

SettleRequest(q) ==
    /\ req[q].pc = "settle"
    /\ req' = [req EXCEPT ![q] = IF Target = Empty THEN Driving(q)
                                 ELSE [@ EXCEPT !.pc = "settled", !.want = Target]]
    /\ UNCHANGED <<store, eng, calls, bounds>>
SettledRequest(q) ==
    /\ req[q].pc = "settled"
    /\ updateRunState(Empty, req[q].want)
    /\ req' = [req EXCEPT ![q] = Driving(q)]
    /\ UNCHANGED <<rows, approvals, eng, calls, bounds>>

(* ErrRunInFlight is the answer while this process is driving the run.  (A create handler that *)
(* is about to do so goes first.)                                                              *)
ExecuteDecided(q) ==
    /\ req[q].pc = "execute"
    /\ LET w == req[q].at
       IN IF Drivable /\ InFlight(w)
            THEN req' = [req EXCEPT ![q].pc = "refused"] /\ UNCHANGED eng
            ELSE /\ eng[w].pc \notin {"create", "execute"}
                 /\ IF Drivable THEN Enter(w) ELSE UNCHANGED eng
                 /\ req' = [req EXCEPT ![q] = Quiet]
    /\ UNCHANGED <<store, calls, bounds>>
Refused(q) ==
    /\ req[q].pc = "refused"
    /\ req' = [req EXCEPT ![q] = Quiet]
    /\ UNCHANGED <<store, eng, calls, bounds>>

(* CancelRun: this process's Execute first, then every node it listed, then the run. *)
CancelStart(q, w) ==
    /\ Cancellable
    /\ req[q].pc = "idle" /\ Serves(w)
    /\ ~RunTerminal(run)
    /\ req' = [req EXCEPT ![q] = [Quiet EXCEPT !.pc = "list", !.at = w]]
    /\ Becomes(w, IF Executing(w) /\ eng[w].ctx = "live" THEN [eng[w] EXCEPT !.ctx = "cancelled"] ELSE eng[w])
    /\ UNCHANGED <<store, calls, bounds>>
CancelList(q) ==
    /\ req[q].pc = "list"
    /\ LET open == {n \in Nodes : rows[n] # <<>> /\ ~Terminal(Current(n).st)}
       IN req' = [req EXCEPT ![q].pc = "cancel", ![q].todo = {<<n, Len(rows[n])>> : n \in open}]
    /\ UNCHANGED <<store, eng, calls, bounds>>
CancelNode(q) ==
    /\ req[q].pc = "cancel"
    /\ \E p \in req[q].todo :
        /\ rows' = IF Accepts(p[1], p[2], Empty, "cancelled") THEN SavedAs(p[1], p[2], "cancelled") ELSE rows
        /\ req' = [req EXCEPT ![q].todo = @ \ {p}]
    /\ UNCHANGED <<run, approvals, eng, calls, bounds>>
CancelEnd(q) ==
    /\ req[q].pc = "cancel" /\ req[q].todo = {}
    /\ updateRunState(Empty, "cancelled")
    /\ req' = [req EXCEPT ![q] = Quiet]
    /\ UNCHANGED <<rows, approvals, eng, calls, bounds>>

(* A store call of a request fails.  DecideApproval ignores the error once the decision is      *)
(* applied, CancelRun that of a node; any other ends the request.                               *)
RequestFails(q) ==
    /\ req[q].pc \notin {"idle", "refused"}
    /\ Fault
    /\ \/ /\ req[q].pc \in {"resume", "settle", "settled"}
          /\ req' = [req EXCEPT ![q] = Driving(q)]
       \/ /\ req[q].pc = "cancel"
          /\ \E p \in req[q].todo : req' = [req EXCEPT ![q].todo = @ \ {p}]
       \/ /\ req[q].pc \in {"record", "decide", "execute", "list"} \/ (req[q].pc = "cancel" /\ req[q].todo = {})
          /\ req' = [req EXCEPT ![q] = Quiet]
    /\ UNCHANGED <<store, eng, calls, crashes>>

-----------------------------------------------------------------------------
(* The process: Recover runs once, before the gateway serves (cmd/gateway/nexaflow.go). *)

Crash(w) ==
    /\ ~At(w, "down")
    /\ Incident /\ crashes < MaxCrashes /\ crashes' = crashes + 1
    /\ Becomes(w, Down)
    /\ req' = [q \in Requests |-> IF req[q].at = w THEN Quiet ELSE req[q]]
    /\ UNCHANGED <<store, calls, faults>>

Start(w) ==
    /\ At(w, "down")
    /\ Becomes(w, [Idle EXCEPT !.pc = "recover"])
    /\ UNCHANGED <<store, req, calls, bounds>>

(* Recover: attempts under a live lease are left alone. *)
RecoverList(w) ==
    /\ At(w, "recover")
    /\ LET open == {n \in Nodes : Current(n).st \in {"claimed", "running"}}
           expired == {n \in open : Current(n).owner = NoOwner}
       IN Becomes(w, IF RunTerminal(run) \/ run \in {"needs_manual_action", "created"} THEN Idle
                     ELSE [Idle EXCEPT !.pc = "recovering", !.snap = CurrentAttempts, !.todo = expired,
                                       !.seen = IF open = expired THEN Empty ELSE "live"])
    /\ UNCHANGED <<store, req, calls, bounds>>

RequeuedSlip(n, row) == [row EXCEPT !.st = "pending", !.owner = NoOwner, !.disp = FALSE]
Requeued(n, row) ==
    IF row.disp /\ n \in Effectful
      THEN [row EXCEPT !.st = "needs_manual_action", !.owner = NoOwner]
      ELSE [row EXCEPT !.st = "pending", !.owner = NoOwner, !.disp = FALSE]

RecoverNode(w) ==
    /\ At(w, "recovering")
    /\ \E n \in eng[w].todo :
        LET k == eng[w].snap[n].k
            row == Requeued(n, rows[n][k])
            e == [eng[w] EXCEPT !.todo = @ \ {n}]
        IN \/ /\ IF Accepts(n, k, eng[w].snap[n].st, row.st)
                   THEN rows' = Saved(n, k, row) /\ Becomes(w, [e EXCEPT !.prog = TRUE])
                   ELSE Becomes(w, e) /\ UNCHANGED rows
              /\ UNCHANGED faults
           \/ Fault /\ Becomes(w, e) /\ UNCHANGED rows
    /\ UNCHANGED <<run, approvals, req, calls, crashes>>

Recovered(w) ==
    /\ At(w, "recovering") /\ eng[w].todo = {}
    /\ Becomes(w, IF eng[w].prog /\ eng[w].seen = Empty THEN [Idle EXCEPT !.pc = "resettle"] ELSE Idle)
    /\ UNCHANGED <<store, req, calls, bounds>>

(* Nothing renews a lease: it runs out 30 seconds after the claim.  A worker never looks at  *)
(* its own leases, so a sole worker's may as well run out while it is down.                  *)
LeaseExpires(n) ==
    /\ rows[n] # <<>> /\ Current(n).owner # NoOwner
    /\ Workers = {Current(n).owner} => At(Current(n).owner, "down")
    /\ rows' = [rows EXCEPT ![n][Len(rows[n])].owner = NoOwner]
    /\ UNCHANGED <<run, approvals, eng, req, calls, bounds>>

-----------------------------------------------------------------------------
WorkflowInit ==
    /\ run = "created"
    /\ rows = [n \in Nodes |-> <<>>]
    /\ approvals = [n \in Nodes |-> Empty]
    /\ \E w \in Workers : eng = [v \in Workers |-> IF v = w THEN [Idle EXCEPT !.pc = "create"] ELSE Idle]
    /\ req = [q \in Requests |-> Quiet]
    /\ calls = [n \in Nodes |-> 0]
    /\ crashes = 0 /\ faults = 0

Work(w) ==
    \/ CreateAttempt(w) \/ ExecuteCreated(w) \/ Reread(w) \/ Begin(w) \/ Sweep(w) \/ ApplyDecision(w) \/ Decided(w)
    \/ Visit(w) \/ FailUnmapped(w) \/ Visited(w)
    \/ \E n \in Nodes : Dispatch(w, n) \/ Call(w, n)
    \/ Record(w) \/ AppendRetry(w) \/ SaveOutcome(w) \/ Park(w)
    \/ EndSweep(w) \/ Settle(w) \/ Settled(w)
    \/ Start(w) \/ RecoverList(w) \/ RecoverNode(w) \/ Recovered(w)

Handle(q) ==
    \/ RecordApproval(q) \/ ApplyRequest(q) \/ ResumeRun(q) \/ SettleRequest(q) \/ SettledRequest(q)
    \/ ExecuteDecided(q) \/ Refused(q)
    \/ CancelList(q) \/ CancelNode(q) \/ CancelEnd(q)

WorkflowNext ==
    \/ \E w \in Workers :
        \/ Work(w) \/ Resume(w) \/ StoreFails(w) \/ ContextEnds(w) \/ Crash(w)
        \/ \E n \in Nodes : GateUnread(w, n)
    \/ \E q \in Requests :
        \/ Handle(q) \/ RequestFails(q)
        \/ \E w \in Workers : DecideRead(q, w) \/ CancelStart(q, w)
    \/ \E n \in Nodes : LeaseExpires(n)

WorkflowSpec == WorkflowInit /\ [][WorkflowNext]_vars

(* A handler that has started runs on to its answer.  No client has to resume a run, to decide *)
(* or to cancel.                                                                               *)
WorkflowFairness ==
    /\ \A w \in Workers : WF_vars(Work(w))
    /\ \A q \in Requests : WF_vars(Handle(q))
WorkflowFairSpec == WorkflowSpec /\ WorkflowFairness

-----------------------------------------------------------------------------
(* Properties. *)

(* Every row is one the store can hold, no node has more attempts than its retry policy allows *)
(* (recordOutcome's MaxAttempts test, and the operation key that makes an append idempotent),   *)
(* and no decision is recorded but an operator's.                                               *)
WorkflowTypeOK ==
    /\ run \in RunStates
    /\ \A n \in Nodes : Len(rows[n]) <= MaxAttempts[n] /\ Range(rows[n]) \subseteq Rows
    /\ approvals \in [Nodes -> Decisions \cup {Empty}]
    /\ calls \in [Nodes -> 0..2]

(* No effectful node is called twice, however sweeps, retries, approvals, lease expiries,       *)
(* crashes and recoveries interleave (docs/nexaflow/RUNTIME.md, "at-most-once"): claims,         *)
(* the dispatched mark written before the call, and Recover's parking of what was dispatched.   *)
EffectOnce == \A n \in Effectful : calls[n] <= 1

(* A node that was called has, from then on, every incoming edge fired from a source that       *)
(* succeeded and stays so (nodeReadiness): what a sweep decided from its snapshot is never      *)
(* overtaken by the steps of a cancel or a decision that run beside it.                         *)
AndJoin ==
    \A n \in Nodes : calls[n] > 0 =>
        \A e \in incomingEdges(n) : Carries(e, States(CurrentAttempts))

(* A node parked for an operator (recordOutcome, parkPersistFailure, Recover) leaves that state *)
(* only when the run is cancelled: no late outcome, decision, sweep or recovery moves it on.    *)
ParkedIsKept ==
    [][\A n \in Nodes :
        rows[n] # <<>> /\ Current(n).st = "needs_manual_action" =>
            Current(n)'.st \in {"needs_manual_action", "cancelled"}]_vars

(* "Execute drives one run to a terminal, waiting, or parked state" (engine.go, Execute), with   *)
(* each create and each approve handler executing it once and no client obliged to resume it;   *)
(* a run that waits for an approval has a node that waits for one.  Three things may keep a run *)
(* from its rest: a crash, a failing store call, and an approve handler that finds the run in   *)
(* flight (ErrRunInFlight), as the Execute under way may have made its last sweep before the    *)
(* decision.                                                                                    *)
Waiting == run = "waiting_for_approval" /\ \E n \in Nodes : Current(n).st = "waiting"
RunComesToRest ==
    \/ <>(crashes > 0 \/ faults > 0 \/ \E q \in Requests : req[q].pc = "refused")
    \/ []<>(RunTerminal(run) \/ run = "needs_manual_action" \/ Waiting)

(* "A cancelled run reports cancelled and never a partial success" (ADR 0008, D7): a run that   *)
(* succeeded has no node that CancelRun or an ended context cancelled.                          *)
NoPartialSuccess ==
    run = "succeeded" => \A n \in Nodes : Current(n).st \in {"succeeded", "skipped"}
=============================================================================
