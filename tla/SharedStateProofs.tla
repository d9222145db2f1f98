------------------------- MODULE SharedStateProofs --------------------------
(***************************************************************************)
(* Proofs about what several gateways do over a store they share: the      *)
(* health markers of BreakerSync and the runs of Workflow.                 *)
(*                                                                         *)
(* BreakerSync: concurrent publishes lose nothing, for any number of       *)
(* replicas and deployments, any cap and any number of retries.  The       *)
(* invariant that makes it inductive: what a replica is about to write     *)
(* covers the document for as long as the document has not been written    *)
(* since the replica loaded it, and the passing of time on both sides      *)
(* keeps it so.                                                            *)
(*                                                                         *)
(* Workflow, for any definition, any number of workers over either store,  *)
(* and any number of requests, crashes and failed writes: EffectOnce is not*)
(* inductive.  What keeps it is the right to call a node: a worker holds it*)
(* from the write that marks the attempt dispatched until it has called the*)
(* node, or until the store has taken note that the gate kept it from doing*)
(* so (Holds).  Nobody else holds it meanwhile, and the attempt's row is in*)
(* a state that no claim, decision or recovery leads out of (Out), which   *)
(* needs that a row found running is marked dispatched.  That every write  *)
(* names an attempt that exists, and that an effectful node has only one,  *)
(* needs the shape of what workers and requests carry from step to step    *)
(* (EngineOK, RequestOK).                                                  *)
(***************************************************************************)
EXTENDS BreakerSync, Workflow, TLAPS

(* Zenon proves the steps that name no prover; those with arithmetic or *)
(* records name SMT.                                                    *)
USE ZenonT(30)

Snapshots == [Nodes -> [st : NodeStates \cup {"none"}, k : Nat]]
Results == {"none", "claimed", "running", "conflict", "gate", "ok", "retry", "timeout", "fail",
            "cancelled"}
Jobs == [k : Nat, res : Results, sel : Labels \cup {Empty}]

(* What recomputeRunState may make of a run. *)
Targets == {"needs_manual_action", "failed", "waiting_for_approval", "succeeded"}

Engines ==
    [pc : {"idle", "down", "create", "execute", "enter", "begin", "sweep", "approve", "visit", "unmapped",
           "pool", "append", "save", "park", "settle", "settled", "resettle", "resettled", "recover",
           "recovering"},
     ctx : {"live", "cancelled", "expired"},
     snap : Snapshots, todo : SUBSET Nodes, prog : BOOLEAN, jobs : [Nodes -> Jobs],
     node : Nodes \cup {0}, seen : NodeStates \cup RunStates \cup {Empty, "live"},
     want : NodeStates \cup Targets \cup {Empty}]

AllRows == [Nodes -> Seq(Rows)]

(* What a worker carries names attempts that rs has, and what it is about  *)
(* to write is what the result of its call calls for.                      *)
EngineOK(e, rs) ==
    /\ e \in Engines
    /\ e.pc \in {"enter", "begin", "sweep", "approve", "visit", "unmapped", "pool", "append", "save",
                "park"} =>
          \A n \in Nodes : Len(rs[n]) >= 1
    /\ e.pc \in {"approve", "visit", "unmapped", "recovering"} =>
          \A n \in Nodes : e.snap[n].k \in 1..Len(rs[n])
    /\ \A n \in Nodes : e.jobs[n].res # "none" => e.jobs[n].k \in 1..Len(rs[n])
    /\ e.pc \in {"unmapped", "append", "save", "park"} => e.node \in Nodes
    /\ e.pc \in {"append", "save", "park"} => e.jobs[e.node].res # "none"
    /\ e.pc = "append" => Retried(e.node, e.jobs[e.node])
    /\ e.pc \in {"append", "save"} =>
          e.want \in {"succeeded", "failed", "cancelled", "needs_manual_action", "waiting"}
    /\ e.pc \in {"append", "save"} /\ e.want = "waiting" => e.jobs[e.node].res = "gate"
    /\ e.pc \in {"settled", "resettled"} => e.want \in Targets

Handlers ==
    [pc : {"idle", "record", "decide", "resume", "settle", "settled", "execute", "refused", "list",
           "cancel"},
     at : Workers \cup {NoOwner}, dec : Decisions \cup {Empty}, was : RunStates \cup {Empty},
     todo : SUBSET (Nodes \X Nat), want : Targets \cup {Empty}]

(* Likewise for a request. *)
RequestOK(r, rs) ==
    /\ r \in Handlers
    /\ \A p \in r.todo : p[2] \in 1..Len(rs[p[1]])
    /\ r.pc \in {"record", "decide"} => r.todo # {} /\ r.dec \in Decisions
    /\ r.pc = "settled" => r.want \in Targets

(* The types, with the shape of what is carried; a run that was executed   *)
(* has all its first attempts.                                             *)
CarriedInv ==
    /\ run \in RunStates
    /\ rows \in AllRows /\ \A n \in Nodes : Len(rows[n]) <= MaxAttempts[n]
    /\ approvals \in [Nodes -> Decisions \cup {Empty}]
    /\ calls \in [Nodes -> 0..2]
    /\ eng = [w \in Workers |-> eng[w]] /\ \A w \in Workers : EngineOK(eng[w], rows)
    /\ req = [q \in Requests |-> req[q]] /\ \A q \in Requests : RequestOK(req[q], rows)
    /\ run = "created" \/ RunTerminal(run) \/ Initialized

(* The worker may still call the node, or undo that it might have. *)
Holds(e, n) == e.jobs[n].res \in {"running", "gate"}

(* The states no claim leads out of. *)
Out == {"running", "needs_manual_action", "succeeded", "failed", "cancelled"}

(* One effectful node: who holds the right to call it, its only attempt    *)
(* and how often it was called.                                            *)
EffectOK(n, rs, en, cs) ==
    /\ \A v, w \in Workers : Holds(en[v], n) /\ Holds(en[w], n) => v = w
    /\ \A w \in Workers : Holds(en[w], n) => cs[n] = 0 /\ rs[n] # <<>> /\ rs[n][1].st \in Out
    /\ cs[n] \in {0, 1}
    /\ cs[n] = 1 => rs[n] # <<>> /\ rs[n][1].st \in Out
    /\ rs[n] # <<>> /\ rs[n][1].st = "running" => rs[n][1].disp

EffectInv == \A n \in Effectful : EffectOK(n, rows, eng, calls)

WorkflowInv == CarriedInv /\ EffectInv

-----------------------------------------------------------------------------
(* What a step may do to the rows: add attempts within the policy, and not *)
(* take an effectful node out of Out.                                      *)
Harmless(rs, rt, n) ==
    /\ rs[n] # <<>> /\ rs[n][1].st \in Out => rt[n] # <<>> /\ rt[n][1].st \in Out
    /\ rt[n] # <<>> /\ rt[n][1].st = "running" => rt[n][1].disp

Extends(rs, rt) ==
    /\ rt \in AllRows
    /\ \A n \in Nodes : Len(rs[n]) <= Len(rt[n]) /\ Len(rt[n]) <= MaxAttempts[n]

(* A row of an effectful node that may replace another. *)
KeepsOut(old, new) ==
    /\ old.st \in Out => new.st \in Out
    /\ new.st = "running" => new.disp

(* Empty is the absence of each of these. *)
LEMMA EmptyIsNothing ==
    Empty \notin NodeStates /\ Empty \notin RunStates /\ Empty \notin Targets /\ Empty \notin Decisions
  BY DEF Empty, NodeStates, RunStates, Targets, Decisions

(* A nonempty sequence has a first row. *)
LEMMA FirstRow ==
    ASSUME NEW rs \in AllRows, NEW n \in Nodes
    PROVE  /\ rs[n] # <<>> <=> Len(rs[n]) >= 1
           /\ Len(rs[n]) \in Nat
           /\ \A k \in 1..Len(rs[n]) : rs[n][k] \in Rows
  BY SMTT(30) DEF AllRows

(* The rows as they are. *)
LEMMA RowsStay ==
    ASSUME WorkflowInv
    PROVE  Extends(rows, rows) /\ \A n \in Effectful : Harmless(rows, rows, n)
  <1>0. rows \in AllRows /\ \A n \in Nodes : Len(rows[n]) <= MaxAttempts[n]
    BY DEF WorkflowInv, CarriedInv
  <1>1. \A n \in Nodes : Len(rows[n]) <= Len(rows[n])
    BY <1>0, FirstRow, SMTT(30)
  <1>2. Extends(rows, rows)
    BY <1>0, <1>1 DEF Extends
  <1>3. ASSUME NEW n \in Effectful PROVE Harmless(rows, rows, n)
    <2>1. EffectOK(n, rows, eng, calls)
      BY DEF WorkflowInv, EffectInv
    <2>2. QED
      BY <2>1 DEF EffectOK, Harmless
  <1>4. QED
    BY <1>2, <1>3

(* One row is replaced. *)
LEMMA RowReplaced ==
    ASSUME WorkflowInv, NEW n \in Nodes, NEW k \in 1..Len(rows[n]), NEW r \in Rows, NEW rt,
           rt = [rows EXCEPT ![n] = [rows[n] EXCEPT ![k] = r]],
           n \in Effectful => KeepsOut(rows[n][k], r)
    PROVE  Extends(rows, rt) /\ \A m \in Effectful : Harmless(rows, rt, m)
  <1>1. rows \in AllRows /\ \A m \in Nodes : Len(rows[m]) \in Nat /\ Len(rows[m]) <= MaxAttempts[m]
    BY FirstRow DEF WorkflowInv, CarriedInv
  <1>2. /\ rt \in AllRows /\ rt[n] = [rows[n] EXCEPT ![k] = r]
        /\ \A m \in Nodes \ {n} : rt[m] = rows[m]
        /\ Len(rt[n]) = Len(rows[n]) /\ rt[n][k] = r
    BY <1>1, SMTT(30) DEF AllRows
  <1>3. Extends(rows, rt)
    BY <1>1, <1>2, SMTT(30) DEF Extends
  <1>4. ASSUME NEW m \in Effectful PROVE Harmless(rows, rt, m)
    <2>1. m \in Nodes /\ MaxAttempts[m] = 1
      BY EffectsAreNotRetried
    <2>2. CASE m # n
      BY <1>2, <2>1, <2>2, RowsStay DEF Harmless
    <2>3. CASE m = n
      <3>1. k = 1 /\ rt[n] # <<>> /\ rows[n] # <<>>
        BY <1>1, <1>2, <2>1, <2>3, FirstRow, SMTT(30)
      <3>2. QED
        BY <1>2, <2>3, <3>1 DEF Harmless, KeepsOut
    <2>4. QED
      BY <2>2, <2>3
  <1>5. QED
    BY <1>3, <1>4

(* SaveNodeExecution takes a lease away or leaves it. *)
LEMMA SavedRows ==
    ASSUME WorkflowInv, NEW n \in Nodes, NEW k \in 1..Len(rows[n]), NEW r \in Rows,
           n \in Effectful => KeepsOut(rows[n][k], r)
    PROVE  /\ Extends(rows, Saved(n, k, r))
           /\ \A m \in Effectful : Harmless(rows, Saved(n, k, r), m)
  <1> DEFINE x == [r EXCEPT !.owner = IF Terminal(r.st) THEN NoOwner ELSE r.owner]
  <1>1. x \in Rows /\ x.st = r.st /\ x.disp = r.disp
    BY DEF Rows
  <1>2. Saved(n, k, r) = [rows EXCEPT ![n] = [rows[n] EXCEPT ![k] = x]]
    BY DEF Saved, WorkflowInv, CarriedInv, AllRows
  <1> HIDE DEF x
  <1>3. n \in Effectful => KeepsOut(rows[n][k], x)
    BY <1>1 DEF KeepsOut
  <1>4. QED
    BY <1>1, <1>2, <1>3, RowReplaced

(* What the store compares a write with. *)
LEMMA AcceptedWrite ==
    ASSUME WorkflowInv, NEW n \in Nodes, NEW k \in 1..Len(rows[n]), NEW expected, NEW to,
           Accepts(n, k, expected, to)
    PROVE  /\ expected \in {Empty, rows[n][k].st}
           /\ validNodeTransition(rows[n][k].st, to)
           /\ rows[n][k] \in Rows /\ to \in NodeStates
           /\ [rows[n][k] EXCEPT !.st = to] \in Rows
  <1>1. rows[n][k] \in Rows /\ Stored(n, k) = rows[n][k]
    BY FirstRow DEF WorkflowInv, CarriedInv, Accepts, Stored
  <1>2. validNodeTransition(rows[n][k].st, to) /\ expected \in {Empty, rows[n][k].st}
    BY <1>1 DEF Accepts
  <1>3. to \in NodeStates
    BY <1>1, <1>2 DEF validNodeTransition, Rows, NodeStates
  <1>4. QED
    BY <1>1, <1>2, <1>3 DEF Rows

(* Unless it expects nothing in particular, a write finds what it expects. *)
LEMMA ExpectedWrite ==
    ASSUME WorkflowInv, NEW n \in Nodes, NEW k \in 1..Len(rows[n]), NEW expected, NEW to,
           Accepts(n, k, expected, to), expected # Empty
    PROVE  rows[n][k].st = expected
  <1>1. expected \in {Empty, rows[n][k].st}
    BY AcceptedWrite
  <1>2. QED
    BY <1>1

(* A write of a state, in terms of the state alone. *)
LEMMA SavedAsRows ==
    ASSUME WorkflowInv, NEW n \in Nodes, NEW k \in 1..Len(rows[n]), NEW expected, NEW to,
           Accepts(n, k, expected, to), to # "running",
           n \in Effectful /\ rows[n][k].st \in Out => to \in Out
    PROVE  /\ Extends(rows, SavedAs(n, k, to))
           /\ \A m \in Effectful : Harmless(rows, SavedAs(n, k, to), m)
  <1>1. [rows[n][k] EXCEPT !.st = to] \in Rows /\ [rows[n][k] EXCEPT !.st = to].st = to
    BY AcceptedWrite DEF Rows
  <1>2. n \in Effectful => KeepsOut(rows[n][k], [rows[n][k] EXCEPT !.st = to])
    BY <1>1 DEF KeepsOut
  <1>3. QED
    BY <1>1, <1>2, SavedRows DEF SavedAs

-----------------------------------------------------------------------------
(* What workers and requests carry stays good while attempts are added. *)
LEMMA CarriedOn ==
    ASSUME NEW rs \in AllRows, NEW rt, Extends(rs, rt)
    PROVE  /\ \A e : EngineOK(e, rs) => EngineOK(e, rt)
           /\ \A r : RequestOK(r, rs) => RequestOK(r, rt)
  <1>1. \A n \in Nodes : Len(rs[n]) \in Nat /\ Len(rt[n]) \in Nat /\ Len(rs[n]) <= Len(rt[n])
    BY FirstRow DEF Extends
  <1>2. \A n \in Nodes : 1..Len(rs[n]) \subseteq 1..Len(rt[n])
    BY <1>1, SMTT(30)
  <1>3. \A n \in Nodes : Len(rs[n]) >= 1 => Len(rt[n]) >= 1
    BY <1>1, SMTT(30)
  <1>4. ASSUME NEW e, EngineOK(e, rs) PROVE EngineOK(e, rt)
    BY <1>2, <1>3, <1>4 DEF EngineOK
  <1>5. ASSUME NEW r, RequestOK(r, rs) PROVE RequestOK(r, rt)
    <2>1. \A p \in r.todo : p[1] \in Nodes /\ p[2] \in 1..Len(rs[p[1]])
      BY <1>5 DEF RequestOK, Handlers
    <2>2. QED
      BY <1>2, <1>5, <2>1 DEF RequestOK
  <1>6. QED
    BY <1>4, <1>5

(* Neither does an executed run lose an attempt. *)
LEMMA StillInitialized ==
    ASSUME rows \in AllRows, Extends(rows, rows'), Initialized
    PROVE  Initialized'
  <1>1. ASSUME NEW n \in Nodes PROVE rows'[n] # <<>>
    <2>1. rows[n] # <<>> /\ Len(rows[n]) >= 1 /\ Len(rows[n]) <= Len(rows'[n])
      BY FirstRow DEF Initialized, Extends
    <2>2. Len(rows'[n]) \in Nat /\ Len(rows[n]) \in Nat /\ rows' \in AllRows
      BY FirstRow DEF Extends
    <2>3. QED
      BY <2>1, <2>2, FirstRow, SMTT(30)
  <1>2. QED
    BY <1>1 DEF Initialized

(* The right to call a node does not spread. *)
LEMMA EffectFrame ==
    ASSUME NEW n, NEW rs, NEW rt, NEW en, NEW eo, NEW cs, NEW ct, EffectOK(n, rs, en, cs),
           Harmless(rs, rt, n), ct[n] = cs[n],
           \A w \in Workers : Holds(eo[w], n) => Holds(en[w], n)
    PROVE  EffectOK(n, rt, eo, ct)
  BY DEF EffectOK, Harmless

(* A step of a worker, as far as what is carried goes. *)
LEMMA WorkerCarries ==
    ASSUME WorkflowInv, NEW w \in Workers, NEW e, Becomes(w, e), EngineOK(e, rows'),
           Extends(rows, rows'), UNCHANGED <<approvals, req>>, calls' \in [Nodes -> 0..2],
           run' \in RunStates, run' = "created" \/ RunTerminal(run') \/ Initialized
    PROVE  CarriedInv'
  <1>1. rows \in AllRows /\ rows' \in AllRows /\ \A n \in Nodes : Len(rows'[n]) <= MaxAttempts[n]
    BY DEF WorkflowInv, CarriedInv, Extends
  <1>2. \A v \in Workers : EngineOK(eng'[v], rows')
    BY <1>1, CarriedOn DEF WorkflowInv, CarriedInv, Becomes
  <1>3. eng' = [v \in Workers |-> eng'[v]]
    BY DEF WorkflowInv, CarriedInv, Becomes
  <1>4. \A q \in Requests : RequestOK(req'[q], rows')
    BY <1>1, CarriedOn DEF WorkflowInv, CarriedInv
  <1>5. run' = "created" \/ RunTerminal(run') \/ Initialized'
    BY <1>1, StillInitialized
  <1>6. QED
    BY <1>1, <1>2, <1>3, <1>4, <1>5 DEF WorkflowInv, CarriedInv

(* A step of a worker that gains no right to call. *)
LEMMA WorkerStep ==
    ASSUME WorkflowInv, NEW w \in Workers, NEW e, Becomes(w, e), EngineOK(e, rows'),
           Extends(rows, rows'), \A n \in Effectful : Harmless(rows, rows', n),
           \A n \in Effectful : Holds(e, n) => Holds(eng[w], n),
           UNCHANGED <<approvals, req, calls>>,
           run' \in RunStates, run' = "created" \/ RunTerminal(run') \/ Initialized
    PROVE  WorkflowInv'
  <1>1. CarriedInv'
    BY WorkerCarries DEF WorkflowInv, CarriedInv
  <1>2. ASSUME NEW n \in Effectful PROVE EffectOK(n, rows', eng', calls')
    <2>1. EffectOK(n, rows, eng, calls)
      BY DEF WorkflowInv, EffectInv
    <2>2. \A v \in Workers : Holds(eng'[v], n) => Holds(eng[v], n)
      BY DEF WorkflowInv, CarriedInv, Becomes
    <2>3. QED
      BY <2>1, <2>2, EffectFrame
  <1>3. QED
    BY <1>1, <1>2 DEF WorkflowInv, EffectInv

(* A step of a request. *)
LEMMA RequestStep ==
    ASSUME WorkflowInv, Extends(rows, rows'), \A n \in Effectful : Harmless(rows, rows', n),
           NEW q \in Requests, NEW r, req' = [req EXCEPT ![q] = r], RequestOK(r, rows'),
           eng' = [v \in Workers |-> eng'[v]], \A v \in Workers : EngineOK(eng'[v], rows),
           \A n \in Effectful, v \in Workers : Holds(eng'[v], n) => Holds(eng[v], n),
           UNCHANGED calls, approvals' \in [Nodes -> Decisions \cup {Empty}],
           run' \in RunStates, run' = "created" \/ RunTerminal(run') \/ Initialized
    PROVE  WorkflowInv'
  <1>1. rows \in AllRows /\ rows' \in AllRows /\ \A n \in Nodes : Len(rows'[n]) <= MaxAttempts[n]
    BY DEF WorkflowInv, CarriedInv, Extends
  <1>2. \A v \in Workers : EngineOK(eng'[v], rows')
    BY <1>1, CarriedOn
  <1>3. /\ req' = [p \in Requests |-> req'[p]]
        /\ \A p \in Requests : RequestOK(req'[p], rows')
    BY <1>1, CarriedOn DEF WorkflowInv, CarriedInv
  <1>4. run' = "created" \/ RunTerminal(run') \/ Initialized'
    BY <1>1, StillInitialized
  <1>5. CarriedInv'
    BY <1>1, <1>2, <1>3, <1>4 DEF WorkflowInv, CarriedInv
  <1>6. ASSUME NEW n \in Effectful PROVE EffectOK(n, rows', eng', calls')
    <2>1. EffectOK(n, rows, eng, calls)
      BY DEF WorkflowInv, EffectInv
    <2>2. QED
      BY <2>1, EffectFrame
  <1>7. QED
    BY <1>5, <1>6 DEF WorkflowInv, EffectInv

-----------------------------------------------------------------------------
(* Workers at rest. *)
LEMMA AtRest ==
    ASSUME NEW rs \in AllRows
    PROVE  /\ Idle \in Engines /\ EngineOK(Idle, rs) /\ EngineOK(Down, rs)
           /\ \A pc \in {"create", "execute", "recover", "resettle"} : EngineOK([Idle EXCEPT !.pc = pc], rs)
           /\ \A n \in Nodes : ~Holds(Idle, n) /\ ~Holds(Down, n)
           /\ \A n \in Nodes : \A pc : ~Holds([Idle EXCEPT !.pc = pc], n)
  <1>1. NoSnap \in Snapshots /\ [n \in Nodes |-> NoWork] \in [Nodes -> Jobs]
    BY DEF NoSnap, Snapshots, NoWork, Jobs, Results
  <1>2. /\ Idle \in Engines /\ Idle.pc = "idle" /\ \A n \in Nodes : Idle.jobs[n].res = "none"
    BY <1>1 DEF Idle, Engines, NoWork
  <1>3. \A pc \in {"down", "create", "execute", "recover", "resettle"} :
           /\ [Idle EXCEPT !.pc = pc] \in Engines
           /\ [Idle EXCEPT !.pc = pc].pc = pc
           /\ [Idle EXCEPT !.pc = pc].jobs = Idle.jobs
    BY <1>2, SMTT(30) DEF Engines
  <1>4. \A pc : [Idle EXCEPT !.pc = pc].jobs = Idle.jobs
    BY DEF Idle
  <1>5. \A pc \in {"down", "create", "execute", "recover", "resettle"} : EngineOK([Idle EXCEPT !.pc = pc], rs)
    BY <1>2, <1>3, SMTT(30) DEF EngineOK
  <1>6. EngineOK(Idle, rs)
    BY <1>2 DEF EngineOK
  <1>7. QED
    BY <1>2, <1>4, <1>5, <1>6 DEF Down, Holds

(* The runs a worker may make of a run. *)
LEMMA RunMoves ==
    ASSUME WorkflowInv, NEW expected, NEW to, to # "running"
    PROVE  /\ RunAfter(expected, to) \in RunStates
           /\ \/ RunAfter(expected, to) = "created" \/ RunTerminal(RunAfter(expected, to))
              \/ Initialized
  BY DEF WorkflowInv, CarriedInv, RunAfter, validRunTransition, RunStates, RunTerminal

(* The current attempts as a snapshot. *)
LEMMA SnapshotOK ==
    ASSUME rows \in AllRows, Initialized
    PROVE  /\ CurrentAttempts \in Snapshots
           /\ \A n \in Nodes : /\ CurrentAttempts[n].k \in 1..Len(rows[n])
                               /\ CurrentAttempts[n].k = Len(rows[n])
                               /\ CurrentAttempts[n].st = Current(n).st
                               /\ Current(n) \in Rows /\ Current(n) = rows[n][Len(rows[n])]
                               /\ Len(rows[n]) >= 1
  <1>1. ASSUME NEW n \in Nodes
        PROVE  /\ Len(rows[n]) \in Nat /\ Len(rows[n]) >= 1 /\ Len(rows[n]) \in 1..Len(rows[n])
               /\ Current(n) = rows[n][Len(rows[n])] /\ Current(n) \in Rows /\ Current(n).st \in NodeStates
    <2>1. Len(rows[n]) \in Nat /\ Len(rows[n]) >= 1
      BY FirstRow DEF Initialized
    <2>2. Current(n) = rows[n][Len(rows[n])]
      BY DEF Current
    <2>3. Len(rows[n]) \in 1..Len(rows[n])
      BY <2>1, SMTT(30)
    <2>4. Current(n) \in Rows
      BY <2>2, <2>3, FirstRow
    <2>5. QED
      BY <2>1, <2>2, <2>3, <2>4 DEF Rows
  <1>2. QED
    BY <1>1 DEF CurrentAttempts, Snapshots

(* A worker whose context ends, or that goes on with less to do. *)
LEMMA AbortStep ==
    ASSUME WorkflowInv, NEW w \in Workers, Abort(w), UNCHANGED <<rows, approvals, req, calls>>
    PROVE  WorkflowInv'
  <1>0. rows \in AllRows /\ run \in RunStates
        /\ (run = "created" \/ RunTerminal(run) \/ Initialized)
    BY DEF WorkflowInv, CarriedInv
  <1>1. EngineOK(Idle, rows) /\ \A n \in Effectful : ~Holds(Idle, n)
    BY <1>0, AtRest, EffectsAreNotRetried
  <1>2. run' \in RunStates /\ (run' = "created" \/ RunTerminal(run') \/ Initialized)
    BY <1>0, RunMoves DEF Abort
  <1>3. QED
    BY <1>1, <1>2, RowsStay, WorkerStep DEF Abort

(* CreateRun writes the first attempts. *)
LEMMA CreateStep ==
    ASSUME WorkflowInv, NEW w \in Workers, CreateAttempt(w)
    PROVE  WorkflowInv'
  <1> DEFINE missing == {n \in Nodes : rows[n] = <<>>}
             m == First(missing)
  <1>0. rows \in AllRows /\ run \in RunStates
        /\ (run = "created" \/ RunTerminal(run) \/ Initialized)
        /\ EngineOK(eng[w], rows) /\ eng = [v \in Workers |-> eng[v]]
    BY DEF WorkflowInv, CarriedInv
  <1>1. CASE missing = {}
    <2> DEFINE e == [Idle EXCEPT !.pc = "execute"]
    <2>1. EngineOK(e, rows) /\ \A n \in Effectful : ~Holds(e, n)
      BY <1>0, AtRest, EffectsAreNotRetried
    <2>2. Becomes(w, e) /\ UNCHANGED <<rows, run, approvals, req, calls>>
      BY <1>1 DEF CreateAttempt
    <2> HIDE DEF e
    <2>3. QED
      BY <1>0, <2>1, <2>2, RowsStay, WorkerStep
  <1>2. CASE missing # {}
    <2>1. m \in Nodes /\ rows[m] = <<>>
      BY <1>2, OrderAssumption
    <2>2. /\ rows' = [rows EXCEPT ![m] = <<NewRow>>] /\ Becomes(w, eng[w])
          /\ UNCHANGED <<run, approvals, req, calls>>
      BY <1>0, <1>2 DEF CreateAttempt, Becomes
    <2> HIDE DEF m
    <2>3. /\ <<NewRow>> \in Seq(Rows) /\ Len(<<NewRow>>) = 1
          /\ <<NewRow>>[1] = NewRow /\ NewRow.st = "pending"
      <3>1. NewRow \in Rows /\ NewRow.st = "pending"
        BY DEF NewRow, Rows, NodeStates
      <3>2. QED
        BY <3>1, SMTT(30)
    <2>4. /\ rows' \in AllRows /\ rows'[m] = <<NewRow>> /\ \A n \in Nodes \ {m} : rows'[n] = rows[n]
      BY <1>0, <2>1, <2>2, <2>3 DEF AllRows
    <2>5. Extends(rows, rows')
      <3>1. \A n \in Nodes : Len(rows[n]) <= Len(rows[n]) /\ Len(rows[n]) <= MaxAttempts[n]
        BY RowsStay DEF Extends
      <3>2. MaxAttempts[m] \in Nat \ {0} /\ Len(rows[m]) = 0
        BY <2>1, WorkflowAssumption
      <3>3. Len(rows'[m]) = 1 /\ Len(rows[m]) <= 1 /\ 1 <= MaxAttempts[m]
        BY <2>3, <2>4, <3>2, SMTT(30)
      <3>4. \A n \in Nodes : Len(rows[n]) <= Len(rows'[n]) /\ Len(rows'[n]) <= MaxAttempts[n]
        BY <2>4, <3>1, <3>3
      <3>5. QED
        BY <2>4, <3>4 DEF Extends
    <2>6. ASSUME NEW n \in Effectful PROVE Harmless(rows, rows', n)
      <3>1. n \in Nodes /\ Harmless(rows, rows, n)
        BY EffectsAreNotRetried, RowsStay
      <3>2. CASE n = m
        <4>1. rows[n] = <<>> /\ rows'[n][1].st = "pending"
          BY <2>1, <2>3, <2>4, <3>2
        <4>2. QED
          BY <4>1 DEF Harmless
      <3>3. CASE n # m
        BY <2>4, <3>1, <3>3 DEF Harmless
      <3>4. QED
        BY <3>2, <3>3
    <2>7. EngineOK(eng[w], rows')
      BY <1>0, <2>5, CarriedOn
    <2>8. QED
      BY <1>0, <2>2, <2>5, <2>6, <2>7, WorkerStep
  <1>3. QED
    BY <1>1, <1>2

(* What every step of a worker starts from. *)
LEMMA Given ==
    ASSUME WorkflowInv, NEW w \in Workers
    PROVE  /\ rows \in AllRows /\ run \in RunStates /\ approvals \in [Nodes -> Decisions \cup {Empty}]
           /\ run = "created" \/ RunTerminal(run) \/ Initialized
           /\ EngineOK(eng[w], rows) /\ eng[w] \in Engines
           /\ eng = [v \in Workers |-> eng[v]] /\ calls \in [Nodes -> 0..2]
  BY DEF WorkflowInv, CarriedInv, EngineOK

(* A step that only moves a worker, and gives it no right to call. *)
LEMMA QuietStep ==
    ASSUME WorkflowInv, NEW w \in Workers, NEW e, Becomes(w, e), EngineOK(e, rows),
           \A n \in Effectful : Holds(e, n) => Holds(eng[w], n),
           UNCHANGED <<run, rows, approvals, req, calls>>
    PROVE  WorkflowInv'
  BY RowsStay, WorkerStep, Given

(* A worker on its way into a run, or idle. *)
LEMMA EnterOK ==
    ASSUME WorkflowInv, NEW w \in Workers, Enter(w)
    PROVE  \E e : /\ Becomes(w, e) /\ EngineOK(e, rows)
                  /\ \A n \in Effectful : ~Holds(e, n)
  <1>0. rows \in AllRows
    BY Given
  <1>1. CASE ~Drivable
    <2>1. Becomes(w, Idle) /\ EngineOK(Idle, rows) /\ \A n \in Effectful : ~Holds(Idle, n)
      BY <1>0, <1>1, AtRest, EffectsAreNotRetried DEF Enter
    <2>2. QED
      BY <2>1
  <1>2. CASE Drivable
    <2> DEFINE e == [Idle EXCEPT !.pc = "enter"]
    <2>1. /\ e \in Engines /\ e.pc = "enter" /\ e.jobs = Idle.jobs
          /\ \A n \in Nodes : Idle.jobs[n].res = "none"
      BY <1>0, AtRest DEF Engines, Idle, NoWork
    <2>2. \A n \in Nodes : Len(rows[n]) >= 1
      BY <1>0, <1>2, FirstRow DEF Drivable, Initialized
    <2>3. EngineOK(e, rows) /\ \A n \in Effectful : ~Holds(e, n)
      BY <2>1, <2>2, EffectsAreNotRetried DEF EngineOK, Holds
    <2>4. Becomes(w, e)
      BY <1>2 DEF Enter
    <2> HIDE DEF e
    <2>5. QED
      BY <2>3, <2>4
  <1>3. QED
    BY <1>1, <1>2

LEMMA ExecuteStep ==
    ASSUME WorkflowInv, NEW w \in Workers, ExecuteCreated(w) \/ Resume(w)
    PROVE  WorkflowInv'
  <1>1. Enter(w) /\ UNCHANGED <<run, rows, approvals, req, calls>>
    BY DEF ExecuteCreated, Resume, store
  <1>2. PICK e : Becomes(w, e) /\ EngineOK(e, rows) /\ \A n \in Effectful : ~Holds(e, n)
    BY <1>1, EnterOK
  <1>3. QED
    BY <1>1, <1>2, QuietStep

LEMMA RereadStep ==
    ASSUME WorkflowInv, NEW w \in Workers, Reread(w)
    PROVE  WorkflowInv'
  <1> DEFINE b == [eng[w] EXCEPT !.pc = "begin", !.seen = run]
             s == [eng[w] EXCEPT !.pc = "sweep"]
  <1>0. /\ rows \in AllRows /\ EngineOK(eng[w], rows) /\ eng[w] \in Engines /\ eng[w].pc = "enter"
        /\ run \in RunStates
    BY Given DEF Reread, At
  <1>1. UNCHANGED <<run, rows, approvals, req, calls>>
    BY DEF Reread, store
  <1>2. Becomes(w, Idle) \/ Becomes(w, b) \/ Becomes(w, s)
    BY DEF Reread
  <1>3. EngineOK(Idle, rows) /\ \A n \in Effectful : ~Holds(Idle, n)
    BY <1>0, AtRest, EffectsAreNotRetried
  <1>4. b \in Engines /\ b.pc = "begin" /\ b.jobs = eng[w].jobs
    BY <1>0 DEF Engines
  <1>5. s \in Engines /\ s.pc = "sweep" /\ s.jobs = eng[w].jobs
    BY <1>0 DEF Engines
  <1> HIDE DEF b, s
  <1>6. EngineOK(b, rows) /\ \A n \in Effectful : Holds(b, n) => Holds(eng[w], n)
    BY <1>0, <1>4 DEF EngineOK, Holds
  <1>7. EngineOK(s, rows) /\ \A n \in Effectful : Holds(s, n) => Holds(eng[w], n)
    BY <1>0, <1>5 DEF EngineOK, Holds
  <1>8. CASE Becomes(w, Idle)
    BY <1>1, <1>3, <1>8, QuietStep
  <1>9. CASE Becomes(w, b)
    BY <1>1, <1>6, <1>9, QuietStep
  <1>10. CASE Becomes(w, s)
    BY <1>1, <1>7, <1>10, QuietStep
  <1>11. QED
    BY <1>2, <1>8, <1>9, <1>10

LEMMA BeginStep ==
    ASSUME WorkflowInv, NEW w \in Workers, Begin(w)
    PROVE  WorkflowInv'
  <1> DEFINE s == [eng[w] EXCEPT !.pc = "sweep", !.seen = Empty]
  <1>0. /\ rows \in AllRows /\ EngineOK(eng[w], rows) /\ eng[w] \in Engines /\ eng[w].pc = "begin"
        /\ run \in RunStates
    BY Given DEF Begin, At
  <1>1. UNCHANGED <<rows, approvals, req, calls>> /\ (Becomes(w, Idle) \/ Becomes(w, s))
    BY DEF Begin
  <1>2. run' \in RunStates
    BY <1>0 DEF Begin, updateRunState, RunAfter, RunStates
  <1>3. Initialized
    BY <1>0, FirstRow DEF EngineOK, Initialized
  <1>4. EngineOK(Idle, rows) /\ \A n \in Effectful : ~Holds(Idle, n)
    BY <1>0, AtRest, EffectsAreNotRetried
  <1>5. s \in Engines /\ s.pc = "sweep" /\ s.jobs = eng[w].jobs
    BY <1>0 DEF Engines
  <1> HIDE DEF s
  <1>6. EngineOK(s, rows) /\ \A n \in Effectful : Holds(s, n) => Holds(eng[w], n)
    BY <1>0, <1>5 DEF EngineOK, Holds
  <1>7. CASE Becomes(w, Idle)
    BY <1>1, <1>2, <1>3, <1>4, <1>7, RowsStay, WorkerStep
  <1>8. CASE Becomes(w, s)
    BY <1>1, <1>2, <1>3, <1>6, <1>8, RowsStay, WorkerStep
  <1>9. QED
    BY <1>1, <1>7, <1>8

LEMMA SweepStep ==
    ASSUME WorkflowInv, NEW w \in Workers, Sweep(w)
    PROVE  WorkflowInv'
  <1>0. /\ rows \in AllRows /\ EngineOK(eng[w], rows) /\ eng[w] \in Engines /\ eng[w].pc = "sweep"
        /\ run \in RunStates /\ (run = "created" \/ RunTerminal(run) \/ Initialized)
    BY Given DEF Sweep, At
  <1>1. Initialized
    BY <1>0, FirstRow DEF EngineOK, Initialized
  <1> DEFINE snap == CurrentAttempts
             waiting == {n \in Nodes : snap[n].st = "waiting"}
             e == [eng[w] EXCEPT !.pc = "approve", !.snap = snap, !.todo = waiting, !.prog = FALSE]
  <1>2. Becomes(w, e) /\ UNCHANGED <<run, rows, approvals, req, calls>>
    BY DEF Sweep, store
  <1>3. snap \in Snapshots /\ \A n \in Nodes : snap[n].k \in 1..Len(rows[n])
    BY <1>0, <1>1, SnapshotOK
  <1> HIDE DEF snap
  <1>4. e \in Engines /\ e.pc = "approve" /\ e.snap = snap /\ e.jobs = eng[w].jobs
    BY <1>0, <1>3 DEF Engines
  <1> HIDE DEF e
  <1>5. EngineOK(e, rows)
    BY <1>0, <1>3, <1>4 DEF EngineOK
  <1>6. \A n \in Effectful : Holds(e, n) => Holds(eng[w], n)
    BY <1>4 DEF Holds
  <1>7. QED
    BY <1>0, <1>2, <1>5, <1>6, RowsStay, WorkerStep

(* A worker notes a state in its snapshot. *)
LEMMA SnapWrite ==
    ASSUME NEW e \in Engines, NEW n \in Nodes, NEW st \in NodeStates, NEW f,
           f = [e EXCEPT !.snap[n].st = st]
    PROVE  /\ f \in Engines /\ f.pc = e.pc /\ f.jobs = e.jobs /\ f.node = e.node
           /\ \A m \in Nodes : f.snap[m].k = e.snap[m].k
  <1> DEFINE s == [e.snap EXCEPT ![n] = [e.snap[n] EXCEPT !.st = st]]
  <1>1. e.snap \in Snapshots /\ e.snap[n] \in [st : NodeStates \cup {"none"}, k : Nat]
    BY DEF Engines, Snapshots
  <1>2. [e.snap[n] EXCEPT !.st = st] \in [st : NodeStates \cup {"none"}, k : Nat]
        /\ [e.snap[n] EXCEPT !.st = st].k = e.snap[n].k
    BY <1>1
  <1>3. s \in Snapshots /\ \A m \in Nodes : s[m].k = e.snap[m].k
    BY <1>1, <1>2 DEF Snapshots
  <1>4. f = [e EXCEPT !.snap = s]
    OBVIOUS
  <1> HIDE DEF s
  <1>5. QED
    BY <1>3, <1>4, SMTT(30) DEF Engines

(* A recorded decision is applied by the sweep. *)
LEMMA ApplyDecisionStep ==
    ASSUME WorkflowInv, NEW w \in Workers, ApplyDecision(w)
    PROVE  WorkflowInv'
  <1>0. /\ rows \in AllRows /\ EngineOK(eng[w], rows) /\ eng[w] \in Engines /\ eng[w].pc = "approve"
        /\ run \in RunStates /\ (run = "created" \/ RunTerminal(run) \/ Initialized)
    BY Given DEF ApplyDecision, At
  <1>1. PICK n \in eng[w].todo :
           LET k == eng[w].snap[n].k
               e == [eng[w] EXCEPT !.todo = @ \ {n}]
           IN IF approvals[n] # Empty /\ Accepts(n, k, "waiting", "pending")
                THEN rows' = SavedAs(n, k, "pending") /\ Becomes(w, [e EXCEPT !.snap[n].st = "pending"])
                ELSE Becomes(w, e) /\ UNCHANGED rows
    BY DEF ApplyDecision
  <1>2. UNCHANGED <<run, approvals, req, calls>>
    BY DEF ApplyDecision
  <1> DEFINE k == eng[w].snap[n].k
             e == [eng[w] EXCEPT !.todo = @ \ {n}]
             f == [e EXCEPT !.snap[n].st = "pending"]
  <1>3. n \in Nodes /\ k \in 1..Len(rows[n]) /\ eng[w].snap \in Snapshots
    BY <1>0 DEF EngineOK, Engines
  <1>4. e \in Engines /\ e.pc = "approve" /\ e.snap = eng[w].snap /\ e.jobs = eng[w].jobs
    BY <1>0 DEF Engines
  <1>5. /\ f \in Engines /\ f.pc = "approve" /\ f.jobs = eng[w].jobs
        /\ \A m \in Nodes : f.snap[m].k = eng[w].snap[m].k
    <2> HIDE DEF e
    <2>1. QED
      <3>1. /\ f = [e EXCEPT !.snap[n].st = "pending"]
            /\ n \in Nodes /\ "pending" \in NodeStates
        BY <1>3 DEF NodeStates
      <3> HIDE DEF f
      <3>2. QED
        BY <1>4, <3>1, SnapWrite, SMTT(30)
  <1> HIDE DEF e, f
  <1>6. EngineOK(e, rows) /\ EngineOK(f, rows)
    BY <1>0, <1>4, <1>5 DEF EngineOK
  <1>7. \A m \in Effectful : (Holds(e, m) => Holds(eng[w], m)) /\ (Holds(f, m) => Holds(eng[w], m))
    BY <1>4, <1>5 DEF Holds
  <1>8. CASE approvals[n] # Empty /\ Accepts(n, k, "waiting", "pending")
    <2>1. rows' = SavedAs(n, k, "pending") /\ Becomes(w, f)
      BY <1>1, <1>8 DEF e, f
    <2>2. rows[n][k].st = "waiting"
      BY <1>3, <1>8, ExpectedWrite, EmptyIsNothing DEF NodeStates
    <2>3. Extends(rows, rows') /\ \A m \in Effectful : Harmless(rows, rows', m)
      BY <1>3, <1>8, <2>1, <2>2, SavedAsRows DEF Out
    <2>4. EngineOK(f, rows')
      BY <1>0, <1>6, <2>3, CarriedOn
    <2>5. QED
      BY <1>0, <1>2, <1>7, <2>1, <2>3, <2>4, WorkerStep
  <1>9. CASE ~(approvals[n] # Empty /\ Accepts(n, k, "waiting", "pending"))
    <2>1. UNCHANGED rows /\ Becomes(w, e)
      BY <1>1, <1>9 DEF e
    <2>2. QED
      BY <1>0, <1>2, <1>6, <1>7, <2>1, RowsStay, WorkerStep
  <1>10. QED
    BY <1>8, <1>9

LEMMA DecidedStep ==
    ASSUME WorkflowInv, NEW w \in Workers, Decided(w)
    PROVE  WorkflowInv'
  <1> DEFINE e == [eng[w] EXCEPT !.pc = "visit", !.todo = Nodes]
  <1>1. EngineOK(eng[w], rows) /\ eng[w] \in Engines /\ eng[w].pc = "approve"
    BY Given DEF Decided, At
  <1>2. e \in Engines /\ e.pc = "visit" /\ e.snap = eng[w].snap /\ e.jobs = eng[w].jobs
    BY <1>1 DEF Engines
  <1>3. Becomes(w, e) /\ UNCHANGED <<run, rows, approvals, req, calls>>
    BY DEF Decided, store
  <1> HIDE DEF e
  <1>4. EngineOK(e, rows) /\ \A n \in Effectful : Holds(e, n) => Holds(eng[w], n)
    BY <1>1, <1>2 DEF EngineOK, Holds
  <1>5. QED
    BY <1>3, <1>4, QuietStep

(* A claim takes a pending or claimed row. *)
LEMMA ClaimedRows ==
    ASSUME WorkflowInv, NEW n \in Nodes, NEW w \in Workers, Len(rows[n]) >= 1, Claimable(n, w)
    PROVE  /\ Extends(rows, Claimed(n, w))
           /\ \A m \in Effectful : Harmless(rows, Claimed(n, w), m)
           /\ Len(rows[n]) \in 1..Len(rows[n])
  <1> DEFINE k == Len(rows[n])
             r == [rows[n][k] EXCEPT !.st = "claimed", !.owner = w]
  <1>1. rows \in AllRows /\ k \in 1..Len(rows[n]) /\ rows[n][k] \in Rows
    <2>1. rows \in AllRows
      BY DEF WorkflowInv, CarriedInv
    <2>2. k \in 1..Len(rows[n])
      BY <2>1, FirstRow, SMTT(30)
    <2>3. QED
      BY <2>1, <2>2, FirstRow
  <1>2. rows[n][k].st \notin Out
    BY DEF Claimable, Current, Out
  <1>3. r \in Rows /\ r.st = "claimed"
    BY <1>1 DEF Rows, NodeStates
  <1>4. Claimed(n, w) = [rows EXCEPT ![n] = [rows[n] EXCEPT ![k] = r]]
    <2>1. rows[n] \in Seq(Rows)
      BY <1>1 DEF AllRows
    <2>2. QED
      BY <1>1, <2>1 DEF Claimed, AllRows
  <1>5. KeepsOut(rows[n][k], r)
    BY <1>2, <1>3 DEF KeepsOut
  <1> HIDE DEF k, r
  <1>6. QED
    BY <1>1, <1>3, <1>4, <1>5, RowReplaced DEF k

(* A sweep skips a node or claims it. *)
LEMMA VisitStep ==
    ASSUME WorkflowInv, NEW w \in Workers, Visit(w)
    PROVE  WorkflowInv'
  <1> DEFINE n == First(Due(eng[w]))
             k == eng[w].snap[n].k
             e == [eng[w] EXCEPT !.todo = @ \ {n}]
             job == [k |-> Len(rows[n]), res |-> "claimed", sel |-> Empty]
             skipped == [e EXCEPT !.snap[n].st = "skipped", !.prog = TRUE]
             taken == [e EXCEPT !.jobs[n] = job, !.prog = TRUE]
             unmapped == [e EXCEPT !.pc = "unmapped", !.node = n, !.snap[n].k = job.k]
  <1>0. /\ rows \in AllRows /\ EngineOK(eng[w], rows) /\ eng[w] \in Engines /\ eng[w].pc = "visit"
        /\ run \in RunStates /\ (run = "created" \/ RunTerminal(run) \/ Initialized)
    BY Given DEF Visit, At
  <1>1. n \in Nodes
    <2>1. Due(eng[w]) \in SUBSET Nodes
      BY <1>0 DEF Due, Engines
    <2>2. Due(eng[w]) # {}
      BY DEF Visit
    <2>3. First(Due(eng[w])) \in Due(eng[w])
      BY <2>1, <2>2, OrderAssumption
    <2>4. QED
      BY <2>1, <2>3
  <1>2. UNCHANGED <<run, approvals, req, calls>>
    BY DEF Visit
  <1>3. \/ /\ Accepts(n, k, "pending", "skipped")
           /\ rows' = SavedAs(n, k, "skipped") /\ Becomes(w, skipped)
        \/ Becomes(w, e) /\ UNCHANGED rows
        \/ Claimable(n, w) /\ rows' = Claimed(n, w) /\ (Becomes(w, taken) \/ Becomes(w, unmapped))
    BY DEF Visit
  <1> HIDE DEF n
  <1>4. /\ k \in 1..Len(rows[n]) /\ Len(rows[n]) \in Nat /\ Len(rows[n]) >= 1
        /\ Len(rows[n]) \in 1..Len(rows[n])
    BY <1>0, <1>1, FirstRow, SMTT(30) DEF EngineOK
  <1>5. /\ e \in Engines /\ e.pc = "visit" /\ e.snap = eng[w].snap /\ e.jobs = eng[w].jobs
    BY <1>0 DEF Engines
  <1>6. job \in Jobs /\ job.res = "claimed" /\ job.k = Len(rows[n])
    BY <1>4 DEF Jobs, Results
  <1> HIDE DEF job
  <1> DEFINE skipped1 == [e EXCEPT !.snap[n].st = "skipped"]
             js == [e.jobs EXCEPT ![n] = job]
             s == [e.snap EXCEPT ![n] = [e.snap[n] EXCEPT !.k = job.k]]
  <1> HIDE DEF e
  <1>7. /\ skipped \in Engines /\ skipped.pc = "visit" /\ skipped.jobs = eng[w].jobs
        /\ \A m \in Nodes : skipped.snap[m].k = eng[w].snap[m].k
    <2>1. /\ skipped1 \in Engines /\ skipped1.pc = "visit" /\ skipped1.jobs = eng[w].jobs
          /\ \A m \in Nodes : skipped1.snap[m].k = eng[w].snap[m].k
      <3>1. skipped1 = [e EXCEPT !.snap[n].st = "skipped"] /\ "skipped" \in NodeStates
        BY DEF NodeStates
      <3> HIDE DEF skipped1
      <3>2. QED
        BY <1>1, <1>5, <3>1, SnapWrite, SMTT(30)
    <2>2. skipped = [skipped1 EXCEPT !.prog = TRUE]
      BY <1>5 DEF Engines
    <2> HIDE DEF skipped1
    <2>3. QED
      BY <2>1, <2>2 DEF Engines
  <1>8. /\ taken \in Engines /\ taken.pc = "visit" /\ taken.snap = eng[w].snap
        /\ taken.jobs[n] = job /\ \A m \in Nodes \ {n} : taken.jobs[m] = eng[w].jobs[m]
    <2>1. /\ js \in [Nodes -> Jobs] /\ js[n] = job
          /\ \A m \in Nodes \ {n} : js[m] = eng[w].jobs[m]
      BY <1>1, <1>5, <1>6 DEF Engines
    <2>2. taken = [e EXCEPT !.jobs = js, !.prog = TRUE]
      BY <1>5 DEF Engines
    <2> HIDE DEF js, taken
    <2>3. taken \in Engines /\ taken.pc = e.pc /\ taken.snap = e.snap /\ taken.jobs = js
      BY <1>5, <2>1, <2>2 DEF Engines
    <2>4. QED
      BY <1>5, <2>1, <2>3
  <1>9. /\ unmapped \in Engines /\ unmapped.pc = "unmapped" /\ unmapped.node = n
        /\ unmapped.jobs = eng[w].jobs /\ unmapped.snap[n].k = Len(rows[n])
        /\ \A m \in Nodes \ {n} : unmapped.snap[m].k = eng[w].snap[m].k
    <2>1. /\ s \in Snapshots /\ s[n].k = Len(rows[n])
          /\ \A m \in Nodes \ {n} : s[m].k = eng[w].snap[m].k
      BY <1>1, <1>4, <1>5, <1>6 DEF Engines, Snapshots
    <2>2. unmapped = [e EXCEPT !.pc = "unmapped", !.node = n, !.snap = s]
      BY <1>5 DEF Engines
    <2> HIDE DEF s, unmapped
    <2>3. /\ unmapped \in Engines /\ unmapped.pc = "unmapped" /\ unmapped.node = n
          /\ unmapped.jobs = e.jobs /\ unmapped.snap = s
      BY <1>1, <1>5, <2>1, <2>2 DEF Engines
    <2>4. QED
      BY <1>5, <2>1, <2>3
  <1> HIDE DEF skipped, taken, unmapped
  <1>10. EngineOK(e, rows) /\ EngineOK(skipped, rows) /\ EngineOK(taken, rows) /\ EngineOK(unmapped, rows)
    <2>1. EngineOK(e, rows) /\ EngineOK(skipped, rows)
      BY <1>0, <1>5, <1>7 DEF EngineOK
    <2>2. EngineOK(taken, rows)
      BY <1>0, <1>4, <1>6, <1>8 DEF EngineOK
    <2>3. EngineOK(unmapped, rows)
      BY <1>0, <1>1, <1>4, <1>9 DEF EngineOK
    <2>4. QED
      BY <2>1, <2>2, <2>3
  <1>11. \A m \in Effectful : /\ Holds(e, m) => Holds(eng[w], m)
                              /\ Holds(skipped, m) => Holds(eng[w], m)
                              /\ Holds(taken, m) => Holds(eng[w], m)
                              /\ Holds(unmapped, m) => Holds(eng[w], m)
    BY <1>5, <1>6, <1>7, <1>8, <1>9, EffectsAreNotRetried DEF Holds
  <1>12. CASE Becomes(w, e) /\ UNCHANGED rows
    BY <1>2, <1>10, <1>11, <1>12, QuietStep
  <1>13. CASE Accepts(n, k, "pending", "skipped") /\ rows' = SavedAs(n, k, "skipped") /\ Becomes(w, skipped)
    <2>1. rows[n][k].st = "pending"
      BY <1>1, <1>4, <1>13, ExpectedWrite, EmptyIsNothing DEF NodeStates
    <2>2. Extends(rows, rows') /\ \A m \in Effectful : Harmless(rows, rows', m)
      BY <1>1, <1>4, <1>13, <2>1, SavedAsRows DEF Out
    <2>3. EngineOK(skipped, rows')
      BY <1>0, <1>10, <2>2, CarriedOn
    <2>4. QED
      BY <1>0, <1>2, <1>11, <1>13, <2>2, <2>3, WorkerStep
  <1>14. CASE Claimable(n, w) /\ rows' = Claimed(n, w) /\ (Becomes(w, taken) \/ Becomes(w, unmapped))
    <2>1. Extends(rows, rows') /\ \A m \in Effectful : Harmless(rows, rows', m)
      BY <1>1, <1>4, <1>14, ClaimedRows
    <2>2. EngineOK(taken, rows') /\ EngineOK(unmapped, rows')
      BY <1>0, <1>10, <2>1, CarriedOn
    <2>3. QED
      BY <1>0, <1>2, <1>11, <1>14, <2>1, <2>2, WorkerStep
  <1>15. QED
    BY <1>3, <1>12, <1>13, <1>14

LEMMA FailUnmappedStep ==
    ASSUME WorkflowInv, NEW w \in Workers, FailUnmapped(w)
    PROVE  WorkflowInv'
  <1> DEFINE n == eng[w].node
             k == eng[w].snap[n].k
             s == [eng[w].snap EXCEPT ![n] = [eng[w].snap[n] EXCEPT !.st = "failed"]]
             e == [eng[w] EXCEPT !.pc = "visit", !.node = 0, !.snap[n].st = "failed", !.prog = TRUE]
  <1>0. /\ rows \in AllRows /\ EngineOK(eng[w], rows) /\ eng[w] \in Engines /\ eng[w].pc = "unmapped"
        /\ run \in RunStates /\ (run = "created" \/ RunTerminal(run) \/ Initialized)
    BY Given DEF FailUnmapped, At
  <1>1. n \in Nodes /\ k \in 1..Len(rows[n])
    BY <1>0 DEF EngineOK
  <1>2. UNCHANGED <<approvals, req, calls>>
    BY DEF FailUnmapped
  <1>3. \/ /\ Accepts(n, k, "claimed", "failed") /\ rows' = SavedAs(n, k, "failed")
           /\ Becomes(w, e) /\ UNCHANGED run
        \/ Abort(w) /\ UNCHANGED rows
    BY DEF FailUnmapped
  <1>4. CASE Abort(w) /\ UNCHANGED rows
    BY <1>2, <1>4, AbortStep
  <1>5. CASE /\ Accepts(n, k, "claimed", "failed") /\ rows' = SavedAs(n, k, "failed")
             /\ Becomes(w, e) /\ UNCHANGED run
    <2>1. s \in Snapshots /\ \A m \in Nodes : s[m].k = eng[w].snap[m].k
      BY <1>0, <1>1, SMTT(30) DEF Engines, Snapshots, NodeStates
    <2>2. e = [eng[w] EXCEPT !.pc = "visit", !.node = 0, !.snap = s, !.prog = TRUE]
      BY <1>0 DEF Engines
    <2> HIDE DEF s, e
    <2>3. e \in Engines /\ e.pc = "visit" /\ e.snap = s /\ e.jobs = eng[w].jobs
      BY <1>0, <2>1, <2>2 DEF Engines
    <2>4. EngineOK(e, rows) /\ \A m \in Effectful : Holds(e, m) => Holds(eng[w], m)
      BY <1>0, <2>1, <2>3 DEF EngineOK, Holds
    <2>5. rows[n][k].st = "claimed"
      BY <1>1, <1>5, ExpectedWrite, EmptyIsNothing DEF NodeStates
    <2>6. Extends(rows, rows') /\ \A m \in Effectful : Harmless(rows, rows', m)
      BY <1>1, <1>5, <2>5, SavedAsRows DEF Out
    <2>7. EngineOK(e, rows')
      BY <1>0, <2>4, <2>6, CarriedOn
    <2>8. QED
      BY <1>0, <1>2, <1>5, <2>4, <2>6, <2>7, WorkerStep
  <1>6. QED
    BY <1>3, <1>4, <1>5

LEMMA VisitedStep ==
    ASSUME WorkflowInv, NEW w \in Workers, Visited(w)
    PROVE  WorkflowInv'
  <1> DEFINE e == [eng[w] EXCEPT !.pc = "pool", !.todo = {}, !.snap = NoSnap]
  <1>1. EngineOK(eng[w], rows) /\ eng[w] \in Engines /\ eng[w].pc = "visit"
    BY Given DEF Visited, At
  <1>2. NoSnap \in Snapshots
    BY DEF NoSnap, Snapshots
  <1>3. e \in Engines /\ e.pc = "pool" /\ e.jobs = eng[w].jobs
    BY <1>1, <1>2 DEF Engines
  <1>4. Becomes(w, e) /\ UNCHANGED <<run, rows, approvals, req, calls>>
    BY DEF Visited, store
  <1> HIDE DEF e
  <1>5. EngineOK(e, rows) /\ \A n \in Effectful : Holds(e, n) => Holds(eng[w], n)
    BY <1>1, <1>3 DEF EngineOK, Holds
  <1>6. QED
    BY <1>4, <1>5, QuietStep

(* The right to call is gained by the write that marks the attempt         *)
(* dispatched: the row was claimed, so nobody had it.                      *)
LEMMA DispatchStep ==
    ASSUME WorkflowInv, NEW w \in Workers, NEW n \in Nodes, Dispatch(w, n)
    PROVE  WorkflowInv'
  <1> DEFINE k == eng[w].jobs[n].k
             row == [rows[n][k] EXCEPT !.st = "running", !.disp = TRUE,
                                       !.owner = IF @ = w THEN w ELSE NoOwner]
             With(res) == [eng[w] EXCEPT !.jobs[n].res = res]
  <1>0. /\ rows \in AllRows /\ EngineOK(eng[w], rows) /\ eng[w] \in Engines /\ eng[w].pc = "pool"
        /\ run \in RunStates /\ (run = "created" \/ RunTerminal(run) \/ Initialized)
        /\ eng[w].jobs[n].res = "claimed" /\ calls \in [Nodes -> 0..2]
        /\ eng = [v \in Workers |-> eng[v]]
    BY Given DEF Dispatch, At
  <1>1. k \in 1..Len(rows[n])
    BY <1>0 DEF EngineOK
  <1>2. UNCHANGED <<run, approvals, req, calls>>
    BY DEF Dispatch
  <1>3. \/ /\ Accepts(n, k, "claimed", "running")
           /\ rows' = Saved(n, k, row) /\ Becomes(w, With("running"))
        \/ Becomes(w, With("conflict")) /\ UNCHANGED rows
    BY DEF Dispatch
  <1>4. ASSUME NEW res \in {"running", "conflict"}
        PROVE  /\ EngineOK(With(res), rows) /\ With(res).jobs[n].res = res
               /\ \A m \in Nodes \ {n} : With(res).jobs[m] = eng[w].jobs[m]
    <2> DEFINE js == [eng[w].jobs EXCEPT ![n] = [eng[w].jobs[n] EXCEPT !.res = res]]
               e == With(res)
    <2>1. eng[w].jobs[n] \in Jobs /\ eng[w].jobs \in [Nodes -> Jobs]
      BY <1>0 DEF Engines
    <2>2. [eng[w].jobs[n] EXCEPT !.res = res] \in Jobs /\ [eng[w].jobs[n] EXCEPT !.res = res].res = res
          /\ [eng[w].jobs[n] EXCEPT !.res = res].k = k
      BY <2>1 DEF Jobs, Results
    <2>3. /\ js \in [Nodes -> Jobs] /\ js[n].res = res /\ js[n].k = k
          /\ \A m \in Nodes \ {n} : js[m] = eng[w].jobs[m]
      BY <2>1, <2>2
    <2>4. e = [eng[w] EXCEPT !.jobs = js]
      BY <1>0 DEF Engines
    <2> HIDE DEF js, e
    <2>5. e \in Engines /\ e.pc = "pool" /\ e.jobs = js
      BY <1>0, <2>3, <2>4 DEF Engines
    <2>6. EngineOK(e, rows)
      BY <1>0, <1>1, <2>3, <2>5 DEF EngineOK
    <2>7. QED
      BY <2>3, <2>5, <2>6 DEF e
  <1> HIDE DEF With
  <1>5. CASE Becomes(w, With("conflict")) /\ UNCHANGED rows
    <2>1. \A m \in Effectful : Holds(With("conflict"), m) => Holds(eng[w], m)
      BY <1>4, EffectsAreNotRetried DEF Holds
    <2>2. QED
      BY <1>2, <1>4, <1>5, <2>1, QuietStep
  <1>6. CASE /\ Accepts(n, k, "claimed", "running")
             /\ rows' = Saved(n, k, row) /\ Becomes(w, With("running"))
    <2>1. rows[n][k].st = "claimed" /\ rows[n][k] \in Rows
      BY <1>1, <1>6, ExpectedWrite, AcceptedWrite, EmptyIsNothing DEF NodeStates
    <2>2. row \in Rows /\ row.st = "running" /\ row.disp
      BY <2>1 DEF Rows, NodeStates
    <2>3. KeepsOut(rows[n][k], row)
      BY <2>2 DEF KeepsOut, Out
    <2> HIDE DEF row
    <2>4. Extends(rows, rows') /\ \A m \in Effectful : Harmless(rows, rows', m)
      BY <1>1, <1>6, <2>2, <2>3, SavedRows
    <2>5. EngineOK(With("running"), rows')
      BY <1>0, <1>4, <2>4, CarriedOn
    <2>6. CarriedInv'
      BY <1>0, <1>2, <1>6, <2>4, <2>5, WorkerCarries
    <2>7. ASSUME NEW m \in Effectful PROVE EffectOK(m, rows', eng', calls')
      <3>1. EffectOK(m, rows, eng, calls) /\ m \in Nodes /\ MaxAttempts[m] = 1
        BY EffectsAreNotRetried DEF WorkflowInv, EffectInv
      <3>2. \A v \in Workers : eng'[v] = IF v = w THEN With("running") ELSE eng[v]
        BY <1>0, <1>6 DEF Becomes
      <3>3. CASE m # n
        <4>1. \A v \in Workers : Holds(eng'[v], m) => Holds(eng[v], m)
          BY <1>4, <3>1, <3>2, <3>3 DEF Holds
        <4>2. QED
          BY <1>2, <2>4, <3>1, <4>1, EffectFrame
      <3>4. CASE m = n
        <4>1. k = 1 /\ rows[n] # <<>>
          <5>1. Len(rows[n]) <= 1 /\ Len(rows[n]) \in Nat
            BY <1>0, <3>1, <3>4, FirstRow, RowsStay DEF Extends
          <5>2. QED
            BY <1>0, <1>1, <5>1, FirstRow, SMTT(30)
        <4>2. rows[n][1].st \notin Out
          BY <2>1, <4>1 DEF Out
        <4>3. calls[n] = 0 /\ \A v \in Workers : ~Holds(eng[v], n)
          BY <3>1, <3>4, <4>2 DEF EffectOK
        <4>4. rows'[n] # <<>> /\ rows'[n][1].st = "running" /\ rows'[n][1].disp
          <5>1. Saved(n, k, row)[n][k] = [row EXCEPT !.owner = IF Terminal(row.st) THEN NoOwner ELSE row.owner]
            BY <1>0, <1>1, SMTT(30) DEF Saved, AllRows
          <5>2. Saved(n, k, row)[n][k].st = "running" /\ Saved(n, k, row)[n][k].disp
            BY <2>2, <5>1 DEF Rows
          <5>3. Len(rows[n]) <= Len(rows'[n]) /\ Len(rows[n]) >= 1 /\ rows' \in AllRows
            BY <1>0, <2>4, <4>1, FirstRow DEF Extends
          <5>4. rows'[n] # <<>>
            BY <1>0, <5>3, FirstRow, SMTT(30)
          <5>5. QED
            BY <1>6, <4>1, <5>2, <5>4
        <4>5. \A v \in Workers : Holds(eng'[v], n) => v = w
          BY <3>2, <4>3
        <4>6. QED
          BY <1>2, <3>4, <4>3, <4>4, <4>5 DEF EffectOK, Out
      <3>5. QED
        BY <3>3, <3>4
    <2>8. QED
      BY <2>6, <2>7 DEF WorkflowInv, EffectInv
  <1>7. QED
    BY <1>3, <1>5, <1>6

(* Only the gate keeps a node from being called. *)
LEMMA ReturnsOK ==
    ASSUME NEW w \in Workers, NEW n \in Nodes, NEW out \in Returns(w, n)
    PROVE  /\ out \in Results \ {"none", "claimed", "running", "conflict"}
           /\ out = "gate" <=> Returns(w, n) = {"gate"}
  <1>1. Outcomes[n] \subseteq {"ok", "retry", "timeout", "fail"}
    BY WorkflowAssumption
  <1>2. \/ Returns(w, n) = {"gate"}
        \/ Returns(w, n) \subseteq {"ok", "retry", "timeout", "fail", "cancelled"}
    BY <1>1 DEF Returns
  <1>3. QED
    BY <1>2 DEF Results

(* The call itself: who may make it has the right to, and loses it.  *)
LEMMA CallStep ==
    ASSUME WorkflowInv, NEW w \in Workers, NEW n \in Nodes, Call(w, n)
    PROVE  WorkflowInv'
  <1>0. /\ rows \in AllRows /\ EngineOK(eng[w], rows) /\ eng[w] \in Engines /\ eng[w].pc = "pool"
        /\ run \in RunStates /\ (run = "created" \/ RunTerminal(run) \/ Initialized)
        /\ eng[w].jobs[n].res = "running" /\ calls \in [Nodes -> 0..2]
        /\ eng = [v \in Workers |-> eng[v]]
    BY Given DEF Call, At
  <1>1. UNCHANGED <<run, rows, approvals, req>>
    BY DEF Call, store
  <1>2. PICK out \in Returns(w, n) :
          \E b \in IF out = "ok" THEN Selects[n] ELSE {Empty} :
            Becomes(w, [eng[w] EXCEPT !.jobs[n].res = out, !.jobs[n].sel = b])
    BY DEF Call
  <1>3. PICK b \in IF out = "ok" THEN Selects[n] ELSE {Empty} :
          Becomes(w, [eng[w] EXCEPT !.jobs[n].res = out, !.jobs[n].sel = b])
    BY <1>2
  <1>4. /\ out \in Results \ {"none", "claimed", "running", "conflict"}
        /\ out = "gate" <=> Returns(w, n) = {"gate"}
    BY ReturnsOK
  <1>5. b \in Labels \cup {Empty}
    BY <1>3, WorkflowAssumption
  <1> DEFINE j == [[eng[w].jobs[n] EXCEPT !.res = out] EXCEPT !.sel = b]
             js == [eng[w].jobs EXCEPT ![n] = j]
             e == [eng[w] EXCEPT !.jobs = js]
  <1>6. Becomes(w, e)
    <2>1. [eng[w] EXCEPT !.jobs[n].res = out, !.jobs[n].sel = b] = e
      BY <1>0 DEF Engines
    <2>2. QED
      BY <1>3, <2>1
  <1>7. eng[w].jobs[n] \in Jobs /\ eng[w].jobs \in [Nodes -> Jobs]
    BY <1>0 DEF Engines
  <1>8. j \in Jobs /\ j.res = out /\ j.k = eng[w].jobs[n].k
    BY <1>4, <1>5, <1>7 DEF Jobs
  <1> HIDE DEF j
  <1>9. js \in [Nodes -> Jobs] /\ js[n] = j /\ \A m \in Nodes \ {n} : js[m] = eng[w].jobs[m]
    BY <1>7, <1>8
  <1> HIDE DEF js
  <1>10. e \in Engines /\ e.pc = "pool" /\ e.jobs = js
    BY <1>0, <1>9 DEF Engines
  <1> HIDE DEF e
  <1>11. EngineOK(e, rows)
    BY <1>0, <1>8, <1>9, <1>10 DEF EngineOK
  <1>12. /\ calls' \in [Nodes -> 0..2] /\ \A m \in Nodes \ {n} : calls'[m] = calls[m]
         /\ out = "gate" => calls'[n] = calls[n]
         /\ out # "gate" /\ calls[n] = 0 => calls'[n] = 1
    <2>1. calls' = [calls EXCEPT ![n] = IF Returns(w, n) = {"gate"} \/ calls[n] = 2
                                        THEN calls[n] ELSE calls[n] + 1]
      BY DEF Call
    <2>2. calls[n] \in 0..2
      BY <1>0
    <2>3. QED
      BY <1>0, <1>4, <2>1, <2>2, SMTT(30)
  <1>13. CarriedInv'
    <2>1. Extends(rows, rows')
      BY <1>1, RowsStay
    <2>2. QED
      BY <1>0, <1>1, <1>6, <1>11, <1>12, <2>1, WorkerCarries
  <1>14. ASSUME NEW m \in Effectful PROVE EffectOK(m, rows', eng', calls')
    <2>1. EffectOK(m, rows, eng, calls) /\ m \in Nodes /\ Harmless(rows, rows', m)
      BY <1>1, EffectsAreNotRetried, RowsStay DEF WorkflowInv, EffectInv
    <2>2. \A v \in Workers : eng'[v] = IF v = w THEN e ELSE eng[v]
      BY <1>0, <1>6 DEF Becomes
    <2>3. m # n => (Holds(e, m) => Holds(eng[w], m))
      BY <1>9, <1>10, <2>1 DEF Holds
    <2>4. m = n => Holds(eng[w], m)
      BY <1>0 DEF Holds
    <2>5. CASE m # n \/ out = "gate"
      <3>1. \A v \in Workers : Holds(eng'[v], m) => Holds(eng[v], m)
        BY <2>2, <2>3, <2>4
      <3>2. calls'[m] = calls[m]
        BY <1>12, <2>1, <2>5
      <3>3. QED
        BY <2>1, <3>1, <3>2, EffectFrame
    <2>6. CASE m = n /\ out # "gate"
      <3>1. /\ calls[m] = 0 /\ rows[m] # <<>> /\ rows[m][1].st \in Out
            /\ \A v \in Workers : Holds(eng[v], m) => v = w
        BY <2>1, <2>4, <2>6 DEF EffectOK
      <3>2. ~Holds(e, m)
        BY <1>4, <1>8, <1>9, <1>10, <2>6 DEF Holds
      <3>3. \A v \in Workers : ~Holds(eng'[v], m)
        BY <2>2, <3>1, <3>2
      <3>4. calls'[m] = 1
        BY <1>12, <2>6, <3>1
      <3>5. QED
        BY <1>1, <2>1, <3>1, <3>3, <3>4 DEF EffectOK
    <2>7. QED
      BY <2>5, <2>6
  <1>15. QED
    BY <1>13, <1>14 DEF WorkflowInv, EffectInv

LEMMA GateUnreadStep ==
    ASSUME WorkflowInv, NEW w \in Workers, NEW n \in Nodes, GateUnread(w, n)
    PROVE  WorkflowInv'
  <1> DEFINE j == [eng[w].jobs[n] EXCEPT !.res = "gate"]
             js == [eng[w].jobs EXCEPT ![n] = j]
             e == [eng[w] EXCEPT !.jobs = js]
  <1>0. /\ EngineOK(eng[w], rows) /\ eng[w] \in Engines /\ eng[w].pc = "pool"
        /\ eng[w].jobs[n].res = "running"
    BY Given DEF GateUnread, At
  <1>1. UNCHANGED <<run, rows, approvals, req, calls>>
    BY DEF GateUnread, store
  <1>2. Becomes(w, e)
    <2>1. [eng[w] EXCEPT !.jobs[n].res = "gate"] = e
      BY <1>0 DEF Engines
    <2>2. QED
      BY <2>1 DEF GateUnread
  <1>3. eng[w].jobs[n] \in Jobs /\ eng[w].jobs \in [Nodes -> Jobs]
    BY <1>0 DEF Engines
  <1>4. j \in Jobs /\ j.res = "gate" /\ j.k = eng[w].jobs[n].k
    BY <1>3 DEF Jobs, Results
  <1> HIDE DEF j
  <1>5. js \in [Nodes -> Jobs] /\ js[n] = j /\ \A m \in Nodes \ {n} : js[m] = eng[w].jobs[m]
    BY <1>3, <1>4
  <1> HIDE DEF js
  <1>6. e \in Engines /\ e.pc = "pool" /\ e.jobs = js
    BY <1>0, <1>5 DEF Engines
  <1> HIDE DEF e
  <1>7. EngineOK(e, rows)
    BY <1>0, <1>4, <1>5, <1>6 DEF EngineOK
  <1>8. \A m \in Effectful : Holds(e, m) => Holds(eng[w], m)
    BY <1>0, <1>5, <1>6, EffectsAreNotRetried DEF Holds
  <1>9. QED
    BY <1>1, <1>2, <1>7, <1>8, QuietStep

LEMMA RecordStep ==
    ASSUME WorkflowInv, NEW w \in Workers, Record(w)
    PROVE  WorkflowInv'
  <1> DEFINE n == First(Active(eng[w]))
             job == eng[w].jobs[n]
             pc == IF Retried(n, job) THEN "append" ELSE "save"
             e(s) == [eng[w] EXCEPT !.pc = pc, !.node = n, !.seen = s, !.want = Recorded(n, job)]
  <1>0. rows \in AllRows /\ EngineOK(eng[w], rows) /\ eng[w] \in Engines /\ eng[w].pc = "pool"
    BY Given DEF Record, At
  <1>1. PICK s \in {rows[n][job.k].st, "pending"} :
           Becomes(w, e(s)) /\ UNCHANGED <<run, rows, approvals, req, calls>>
    BY DEF Record, store
  <1>2. n \in Nodes /\ job.res # "none"
    <2>1. Active(eng[w]) \in SUBSET Nodes /\ Active(eng[w]) # {}
      BY DEF Record, Active
    <2>2. First(Active(eng[w])) \in Active(eng[w])
      BY <2>1, OrderAssumption
    <2>3. QED
      BY <2>2 DEF Active
  <1> HIDE DEF n
  <1>3. job.k \in 1..Len(rows[n])
    BY <1>0, <1>2 DEF EngineOK
  <1>4. s \in NodeStates
    <2>1. rows[n][job.k] \in Rows
      BY <1>0, <1>2, <1>3, FirstRow
    <2>2. QED
      BY <2>1 DEF Rows, NodeStates
  <1>5. /\ Recorded(n, job) \in {"succeeded", "failed", "cancelled", "needs_manual_action", "waiting"}
        /\ Recorded(n, job) = "waiting" => job.res = "gate"
    BY DEF Recorded
  <1>6. /\ pc \in {"append", "save"} /\ (pc = "append" => Retried(n, job))
    OBVIOUS
  <1>7. Recorded(n, job) \in NodeStates
    BY <1>5 DEF NodeStates
  <1> HIDE DEF pc
  <1>8. /\ e(s) \in Engines /\ e(s).pc = pc /\ e(s).node = n /\ e(s).jobs = eng[w].jobs
        /\ e(s).want = Recorded(n, job)
    BY <1>0, <1>2, <1>4, <1>6, <1>7 DEF Engines
  <1> HIDE DEF e
  <1>9. EngineOK(e(s), rows) /\ \A m \in Effectful : Holds(e(s), m) => Holds(eng[w], m)
    BY <1>0, <1>2, <1>5, <1>6, <1>8 DEF EngineOK, Holds
  <1>10. QED
    BY <1>1, <1>9, QuietStep

(* A retry's attempt is appended once, within the policy, and never for an *)
(* effectful node.                                                         *)
LEMMA AppendStep ==
    ASSUME WorkflowInv, NEW w \in Workers, AppendRetry(w)
    PROVE  WorkflowInv'
  <1> DEFINE n == eng[w].node
             k == eng[w].jobs[n].k
             e == [eng[w] EXCEPT !.pc = "save"]
             f == [eng[w] EXCEPT !.pc = "park"]
  <1>0. /\ rows \in AllRows /\ EngineOK(eng[w], rows) /\ eng[w] \in Engines /\ eng[w].pc = "append"
        /\ run \in RunStates /\ (run = "created" \/ RunTerminal(run) \/ Initialized)
    BY Given DEF AppendRetry, At
  <1>1. /\ UNCHANGED <<run, approvals, req, calls>>
        /\ \/ rows' = Appended(n, k) /\ Becomes(w, e)
           \/ UNCHANGED rows /\ Becomes(w, f)
    BY DEF AppendRetry
  <1>2. n \in Nodes /\ k \in 1..Len(rows[n]) /\ k < MaxAttempts[n]
    BY <1>0 DEF EngineOK, Retried
  <1>3. n \notin Effectful
    <2>1. k >= 1 /\ k \in Nat
      BY <1>0, <1>2, FirstRow, SMTT(30)
    <2>2. QED
      BY <1>2, <2>1, EffectsAreNotRetried, SMTT(30)
  <1>4. /\ e \in Engines /\ e.pc = "save" /\ e.jobs = eng[w].jobs /\ e.node = n /\ e.want = eng[w].want
    BY <1>0 DEF Engines
  <1>4a. f \in Engines /\ f.pc = "park" /\ f.jobs = eng[w].jobs /\ f.node = n
    BY <1>0 DEF Engines
  <1> HIDE DEF e, f
  <1>5. EngineOK(e, rows) /\ \A m \in Effectful : Holds(e, m) => Holds(eng[w], m)
    BY <1>0, <1>4 DEF EngineOK, Holds
  <1>5a. EngineOK(f, rows) /\ \A m \in Effectful : Holds(f, m) => Holds(eng[w], m)
    BY <1>0, <1>4a DEF EngineOK, Holds
  <1> HIDE DEF n, k
  <1>6. Extends(rows, rows') /\ \A m \in Effectful : Harmless(rows, rows', m)
    <2>1. CASE rows' = rows
      BY <2>1, RowsStay
    <2>2. CASE ~(Len(rows[n]) > k) /\ rows' # rows
      <3>1. rows' = [rows EXCEPT ![n] = Append(rows[n], NewRow)]
        BY <1>1, <2>2 DEF Appended
      <3>2. NewRow \in Rows
        BY DEF NewRow, Rows, NodeStates
      <3>3. /\ Append(rows[n], NewRow) \in Seq(Rows)
            /\ Len(Append(rows[n], NewRow)) = Len(rows[n]) + 1
        BY <1>0, <1>2, <3>2, SMTT(30) DEF AllRows
      <3>4. /\ rows' \in AllRows /\ Len(rows'[n]) = Len(rows[n]) + 1
            /\ \A m \in Nodes \ {n} : rows'[m] = rows[m]
        BY <1>0, <1>2, <3>1, <3>3 DEF AllRows
      <3>5. Len(rows[n]) <= Len(rows'[n]) /\ Len(rows'[n]) <= MaxAttempts[n]
        <4>1. Len(rows[n]) \in Nat /\ k \in Nat /\ MaxAttempts[n] \in Nat
          BY <1>0, <1>2, FirstRow, WorkflowAssumption, SMTT(30)
        <4>2. QED
          BY <1>2, <2>2, <3>4, <4>1, SMTT(30)
      <3>6. \A m \in Nodes : Len(rows[m]) <= Len(rows[m]) /\ Len(rows[m]) <= MaxAttempts[m]
        BY RowsStay DEF Extends
      <3>7. Extends(rows, rows')
        BY <3>4, <3>5, <3>6 DEF Extends
      <3>8. ASSUME NEW m \in Effectful PROVE Harmless(rows, rows', m)
        <4>1. rows'[m] = rows[m] /\ Harmless(rows, rows, m)
          BY <1>3, <3>4, RowsStay, EffectsAreNotRetried
        <4>2. QED
          BY <4>1 DEF Harmless
      <3>9. QED
        BY <3>7, <3>8
    <2>3. Len(rows[n]) > k => rows' = rows
      BY <1>1 DEF Appended
    <2>4. QED
      BY <2>1, <2>2, <2>3
  <1>7. EngineOK(e, rows') /\ EngineOK(f, rows')
    BY <1>0, <1>5, <1>5a, <1>6, CarriedOn
  <1>8. QED
    BY <1>0, <1>1, <1>5, <1>5a, <1>6, <1>7, WorkerStep

(* A recorded outcome leaves the worker without the job. *)
LEMMA Cleared ==
    ASSUME NEW e, NEW rs, EngineOK(e, rs), e.pc \in {"save", "park"}
    PROVE  /\ EngineOK(Clear(e, e.node), rs) /\ ~Holds(Clear(e, e.node), e.node)
           /\ \A m \in Nodes : Holds(Clear(e, e.node), m) => Holds(e, m)
  <1> DEFINE n == e.node
             js == [e.jobs EXCEPT ![n] = NoWork]
             f == [e EXCEPT !.jobs = js, !.pc = "pool", !.node = 0, !.seen = Empty, !.want = Empty]
  <1>1. e \in Engines /\ n \in Nodes
    BY DEF EngineOK
  <1>2. Clear(e, n) = f
    BY <1>1 DEF Clear, Engines
  <1>3. NoWork \in Jobs /\ NoWork.res = "none"
    BY DEF NoWork, Jobs, Results
  <1>4. e.jobs \in [Nodes -> Jobs]
    BY <1>1 DEF Engines
  <1>5. /\ js \in [Nodes -> Jobs] /\ js[n].res = "none"
        /\ \A m \in Nodes \ {n} : js[m] = e.jobs[m]
    BY <1>1, <1>3, <1>4
  <1> HIDE DEF js
  <1>6. f \in Engines /\ f.pc = "pool" /\ f.jobs = js
    BY <1>1, <1>5 DEF Engines
  <1> HIDE DEF f
  <1>7. EngineOK(f, rs)
    BY <1>5, <1>6 DEF EngineOK
  <1>8. ~Holds(f, n) /\ \A m \in Nodes : Holds(f, m) => Holds(e, m)
    BY <1>1, <1>5, <1>6 DEF Holds
  <1>9. QED
    BY <1>2, <1>7, <1>8

(* What Saved does to the rows, whatever it writes. *)
LEMMA SavedAnyRow ==
    ASSUME WorkflowInv, NEW n \in Nodes, NEW k \in 1..Len(rows[n]), NEW r \in Rows
    PROVE  /\ Extends(rows, Saved(n, k, r)) /\ Saved(n, k, r)[n][k].st = r.st
           /\ \A m \in Nodes \ {n} : Saved(n, k, r)[m] = rows[m]
  <1> DEFINE x == [r EXCEPT !.owner = IF Terminal(r.st) THEN NoOwner ELSE r.owner]
             rt == [rows EXCEPT ![n] = [rows[n] EXCEPT ![k] = x]]
  <1>1. x \in Rows /\ x.st = r.st
    BY DEF Rows
  <1>2. /\ rows \in AllRows
        /\ \A m \in Nodes : Len(rows[m]) <= Len(rows[m]) /\ Len(rows[m]) <= MaxAttempts[m]
    BY RowsStay DEF Extends
  <1>3. Saved(n, k, r) = rt
    BY <1>2 DEF Saved, AllRows
  <1> HIDE DEF x
  <1>4. /\ rt \in AllRows /\ rt[n] = [rows[n] EXCEPT ![k] = x]
        /\ \A m \in Nodes \ {n} : rt[m] = rows[m]
        /\ Len(rt[n]) = Len(rows[n]) /\ rt[n][k] = x
    BY <1>1, <1>2, SMTT(30) DEF AllRows
  <1> HIDE DEF rt
  <1>5. Extends(rows, rt)
    BY <1>2, <1>4 DEF Extends
  <1>6. QED
    BY <1>1, <1>3, <1>4, <1>5

(* The outcome is written; only the gate's outcome makes the node wait, and*)
(* with it goes the right to call the node.                                *)
LEMMA SaveOutcomeStep ==
    ASSUME WorkflowInv, NEW w \in Workers, SaveOutcome(w)
    PROVE  WorkflowInv'
  <1> DEFINE n == eng[w].node
             k == eng[w].jobs[n].k
             row == [rows[n][k] EXCEPT !.st = eng[w].want, !.sel = eng[w].jobs[n].sel]
             e == [eng[w] EXCEPT !.pc = "park"]
             f == Clear(eng[w], n)
  <1>0. /\ rows \in AllRows /\ EngineOK(eng[w], rows) /\ eng[w] \in Engines /\ eng[w].pc = "save"
        /\ run \in RunStates /\ (run = "created" \/ RunTerminal(run) \/ Initialized)
        /\ calls \in [Nodes -> 0..2] /\ eng = [v \in Workers |-> eng[v]]
    BY Given DEF SaveOutcome, At
  <1>1. UNCHANGED <<run, approvals, req, calls>>
    BY DEF SaveOutcome
  <1>2. \/ /\ Accepts(n, k, eng[w].seen, eng[w].want)
           /\ rows' = Saved(n, k, row) /\ Becomes(w, f)
        \/ Becomes(w, e) /\ UNCHANGED rows
    BY DEF SaveOutcome
  <1>3. /\ n \in Nodes /\ k \in 1..Len(rows[n]) /\ eng[w].jobs[n] \in Jobs
        /\ eng[w].want \in {"succeeded", "failed", "cancelled", "needs_manual_action", "waiting"}
        /\ eng[w].want = "waiting" => Holds(eng[w], n)
    BY <1>0 DEF EngineOK, Engines, Holds
  <1>4. /\ EngineOK(f, rows) /\ ~Holds(f, n) /\ \A m \in Nodes : Holds(f, m) => Holds(eng[w], m)
    BY <1>0, Cleared
  <1> HIDE DEF f
  <1>5. rows[n][k] \in Rows
    BY <1>0, <1>3, FirstRow
  <1>6. row \in Rows /\ row.st = eng[w].want
    <2>1. eng[w].want \in NodeStates
      BY <1>3 DEF NodeStates
    <2>2. eng[w].jobs[n].sel \in Labels \cup {Empty}
      BY <1>3 DEF Jobs
    <2>3. QED
      BY <1>5, <2>1, <2>2 DEF Rows
  <1>7. CASE Becomes(w, e) /\ UNCHANGED rows
    <2>1. e \in Engines /\ e.pc = "park" /\ e.jobs = eng[w].jobs /\ e.node = n
      BY <1>0 DEF Engines
    <2> HIDE DEF e
    <2>2. EngineOK(e, rows) /\ \A m \in Effectful : Holds(e, m) => Holds(eng[w], m)
      BY <1>0, <2>1 DEF EngineOK, Holds
    <2>3. QED
      BY <1>1, <1>7, <2>2, QuietStep
  <1> HIDE DEF row, n, k
  <1>8. CASE rows' = Saved(n, k, row) /\ Becomes(w, f) /\ (n \in Effectful => eng[w].want # "waiting")
    <2>1. n \in Effectful => KeepsOut(rows[n][k], row)
      BY <1>3, <1>6, <1>8 DEF KeepsOut, Out
    <2>2. Extends(rows, rows') /\ \A m \in Effectful : Harmless(rows, rows', m)
      BY <1>3, <1>6, <1>8, <2>1, SavedRows
    <2>3. EngineOK(f, rows') /\ \A m \in Effectful : Holds(f, m) => Holds(eng[w], m)
      BY <1>0, <1>4, <2>2, CarriedOn, EffectsAreNotRetried
    <2>4. QED
      BY <1>0, <1>1, <1>8, <2>2, <2>3, WorkerStep
  <1>9. CASE rows' = Saved(n, k, row) /\ Becomes(w, f) /\ n \in Effectful /\ eng[w].want = "waiting"
    <2>1. Extends(rows, rows') /\ rows'[n][k].st = "waiting" /\ \A m \in Nodes \ {n} : rows'[m] = rows[m]
      BY <1>3, <1>6, <1>9, SavedAnyRow
    <2>2. EngineOK(f, rows')
      BY <1>0, <1>4, <2>1, CarriedOn
    <2>3. CarriedInv'
      BY <1>0, <1>1, <1>9, <2>1, <2>2, WorkerCarries
    <2>4. ASSUME NEW m \in Effectful PROVE EffectOK(m, rows', eng', calls')
      <3>1. EffectOK(m, rows, eng, calls) /\ m \in Nodes /\ MaxAttempts[m] = 1 /\ Harmless(rows, rows, m)
        BY EffectsAreNotRetried, RowsStay DEF WorkflowInv, EffectInv
      <3>2. \A v \in Workers : eng'[v] = IF v = w THEN f ELSE eng[v]
        BY <1>0, <1>9 DEF Becomes
      <3>3. \A v \in Workers : Holds(eng'[v], m) => Holds(eng[v], m)
        BY <1>4, <3>1, <3>2
      <3>4. CASE m # n
        <4>1. Harmless(rows, rows', m)
          BY <2>1, <3>1, <3>4 DEF Harmless
        <4>2. QED
          BY <1>1, <3>1, <3>3, <4>1, EffectFrame
      <3>5. CASE m = n
        <4>1. k = 1
          <5>1. Len(rows[n]) <= 1 /\ Len(rows[n]) \in Nat
            BY <1>0, <1>3, <3>1, <3>5, FirstRow, RowsStay DEF Extends
          <5>2. QED
            BY <1>3, <5>1, SMTT(30)
        <4>2. calls[n] = 0 /\ \A v \in Workers : Holds(eng[v], n) => v = w
          BY <1>3, <1>9, <3>1, <3>5 DEF EffectOK
        <4>3. \A v \in Workers : ~Holds(eng'[v], n)
          BY <1>4, <3>2, <3>3, <3>5, <4>2
        <4>4. QED
          BY <1>1, <2>1, <3>5, <4>1, <4>2, <4>3, SMTT(30) DEF EffectOK
      <3>6. QED
        BY <3>4, <3>5
    <2>5. QED
      BY <2>3, <2>4 DEF WorkflowInv, EffectInv
  <1>10. QED
    BY <1>2, <1>7, <1>8, <1>9

LEMMA ParkStep ==
    ASSUME WorkflowInv, NEW w \in Workers, Park(w)
    PROVE  WorkflowInv'
  <1> DEFINE n == eng[w].node
             k == eng[w].jobs[n].k
             f == Clear(eng[w], n)
  <1>0. /\ rows \in AllRows /\ EngineOK(eng[w], rows) /\ eng[w] \in Engines /\ eng[w].pc = "park"
        /\ run \in RunStates /\ (run = "created" \/ RunTerminal(run) \/ Initialized)
    BY Given DEF Park, At
  <1>1. Becomes(w, f) /\ UNCHANGED <<run, approvals, req, calls>>
    BY DEF Park
  <1>2. \/ Accepts(n, k, Empty, "needs_manual_action") /\ rows' = SavedAs(n, k, "needs_manual_action")
        \/ rows' = rows
    BY DEF Park
  <1>3. n \in Nodes /\ k \in 1..Len(rows[n])
    BY <1>0 DEF EngineOK
  <1>4. /\ EngineOK(f, rows) /\ \A m \in Nodes : Holds(f, m) => Holds(eng[w], m)
    BY <1>0, Cleared
  <1> HIDE DEF f, n, k
  <1>5. Extends(rows, rows') /\ \A m \in Effectful : Harmless(rows, rows', m)
    BY <1>2, <1>3, SavedAsRows, RowsStay DEF Out
  <1>6. EngineOK(f, rows') /\ \A m \in Effectful : Holds(f, m) => Holds(eng[w], m)
    BY <1>0, <1>4, <1>5, CarriedOn, EffectsAreNotRetried
  <1>7. QED
    BY <1>0, <1>1, <1>5, <1>6, WorkerStep

LEMMA EndSweepStep ==
    ASSUME WorkflowInv, NEW w \in Workers, EndSweep(w)
    PROVE  WorkflowInv'
  <1> DEFINE pc == AfterSweep(eng[w])
             e == [eng[w] EXCEPT !.pc = pc]
  <1>0. rows \in AllRows /\ EngineOK(eng[w], rows) /\ eng[w] \in Engines /\ eng[w].pc = "pool"
    BY Given DEF EndSweep, At
  <1>1. UNCHANGED <<rows, approvals, req, calls>>
    BY DEF EndSweep
  <1>2. \/ Becomes(w, Idle) /\ UNCHANGED run
        \/ Abort(w)
        \/ Becomes(w, e) /\ UNCHANGED run
    BY DEF EndSweep
  <1>3. CASE Becomes(w, Idle) /\ UNCHANGED run
    <2>1. EngineOK(Idle, rows) /\ \A n \in Effectful : ~Holds(Idle, n)
      BY <1>0, AtRest, EffectsAreNotRetried
    <2>2. QED
      BY <1>1, <1>3, <2>1, QuietStep
  <1>4. CASE Abort(w)
    BY <1>1, <1>4, AbortStep
  <1>5. CASE Becomes(w, e) /\ UNCHANGED run
    <2>1. pc \in {"sweep", "settle"}
      BY DEF AfterSweep
    <2> HIDE DEF pc
    <2>2. e \in Engines /\ e.pc = pc /\ e.jobs = eng[w].jobs
      BY <1>0, <2>1 DEF Engines
    <2> HIDE DEF e
    <2>3. EngineOK(e, rows) /\ \A n \in Effectful : Holds(e, n) => Holds(eng[w], n)
      BY <1>0, <2>1, <2>2 DEF EngineOK, Holds
    <2>4. QED
      BY <1>1, <1>5, <2>3, QuietStep
  <1>6. QED
    BY <1>2, <1>3, <1>4, <1>5

(* What recomputeRunState may call for. *)
LEMMA TargetOK == Target \in Targets \cup {Empty}
  BY DEF Target, Targets

(* A worker about to write the state its run calls for. *)
LEMMA Settling ==
    ASSUME NEW rs \in AllRows, NEW pc \in {"settled", "resettled"}, NEW t \in Targets
    PROVE  /\ EngineOK([Idle EXCEPT !.pc = pc, !.want = t], rs)
           /\ \A n \in Nodes : ~Holds([Idle EXCEPT !.pc = pc, !.want = t], n)
  <1> DEFINE e == [Idle EXCEPT !.pc = pc, !.want = t]
  <1>1. Idle \in Engines /\ \A n \in Nodes : ~Holds(Idle, n)
    BY AtRest
  <1>2. \A n \in Nodes : Idle.jobs[n].res = "none"
    BY DEF Idle, NoWork
  <1>3. e \in Engines /\ e.pc = pc /\ e.want = t /\ e.jobs = Idle.jobs
    BY <1>1 DEF Engines
  <1> HIDE DEF e
  <1>4. EngineOK(e, rs) /\ \A n \in Nodes : ~Holds(e, n)
    BY <1>2, <1>3 DEF EngineOK, Holds
  <1>5. QED
    BY <1>4 DEF e

LEMMA SettleStep ==
    ASSUME WorkflowInv, NEW w \in Workers, Settle(w)
    PROVE  WorkflowInv'
  <1> DEFINE pc == IF At(w, "settle") THEN "settled" ELSE "resettled"
  <1>0. rows \in AllRows
    BY Given
  <1>1. UNCHANGED <<run, rows, approvals, req, calls>>
    BY DEF Settle, store
  <1>2. CASE Target = Empty
    <2>1. Becomes(w, Idle)
      BY <1>2 DEF Settle
    <2>2. EngineOK(Idle, rows) /\ \A n \in Effectful : ~Holds(Idle, n)
      BY <1>0, AtRest, EffectsAreNotRetried
    <2>3. QED
      BY <1>1, <2>1, <2>2, QuietStep
  <1>3. CASE Target # Empty
    <2>1. Becomes(w, [Idle EXCEPT !.pc = pc, !.want = Target])
      BY <1>3 DEF Settle
    <2>2. Target \in Targets /\ pc \in {"settled", "resettled"}
      BY <1>3, TargetOK
    <2> DEFINE e == [Idle EXCEPT !.pc = pc, !.want = Target]
    <2> HIDE DEF pc
    <2>3. EngineOK(e, rows) /\ \A n \in Nodes : ~Holds(e, n)
      BY <1>0, <2>2, Settling
    <2> HIDE DEF e
    <2>4. \A n \in Effectful : Holds(e, n) => Holds(eng[w], n)
      BY <2>3, EffectsAreNotRetried
    <2>5. QED
      BY <1>1, <2>1, <2>3, <2>4, QuietStep DEF e
  <1>4. QED
    BY <1>2, <1>3

LEMMA SettledStep ==
    ASSUME WorkflowInv, NEW w \in Workers, Settled(w)
    PROVE  WorkflowInv'
  <1>0. rows \in AllRows /\ eng[w].want \in Targets
    BY Given DEF Settled, At, EngineOK
  <1>1. /\ Becomes(w, Idle) /\ UNCHANGED <<rows, approvals, req, calls>>
        /\ run' = RunAfter(Empty, eng[w].want)
    BY DEF Settled, updateRunState
  <1>2. EngineOK(Idle, rows) /\ \A n \in Effectful : ~Holds(Idle, n)
    BY <1>0, AtRest, EffectsAreNotRetried
  <1>3. run' \in RunStates /\ (run' = "created" \/ RunTerminal(run') \/ Initialized)
    <2>1. eng[w].want # "running"
      BY <1>0 DEF Targets
    <2>2. QED
      BY <1>1, <2>1, RunMoves
  <1>4. QED
    BY <1>1, <1>2, <1>3, RowsStay, WorkerStep

(* The contexts a worker may be left with. *)
LEMMA ContextWrite ==
    ASSUME NEW e, EngineOK(e, rows), NEW c \in {"cancelled", "expired"}
    PROVE  /\ EngineOK([e EXCEPT !.ctx = c], rows)
           /\ \A n \in Nodes : Holds([e EXCEPT !.ctx = c], n) => Holds(e, n)
  <1> DEFINE f == [e EXCEPT !.ctx = c]
  <1>0. e \in Engines
    BY DEF EngineOK
  <1>1. /\ f \in Engines /\ f.pc = e.pc /\ f.snap = e.snap /\ f.jobs = e.jobs
        /\ f.node = e.node /\ f.want = e.want
    BY <1>0 DEF Engines
  <1> HIDE DEF f
  <1>2. EngineOK(f, rows) /\ \A n \in Nodes : Holds(f, n) => Holds(e, n)
    BY <1>1, SMTT(30) DEF EngineOK, Holds
  <1>3. QED
    BY <1>2 DEF f

LEMMA ContextStep ==
    ASSUME WorkflowInv, NEW w \in Workers, ContextEnds(w)
    PROVE  WorkflowInv'
  <1>1. PICK c \in Contexts : Becomes(w, [eng[w] EXCEPT !.ctx = c])
    BY DEF ContextEnds
  <1>2. c \in {"cancelled", "expired"}
    BY WorkflowAssumption
  <1>3. UNCHANGED <<run, rows, approvals, req, calls>>
    BY DEF ContextEnds, store
  <1> DEFINE e == [eng[w] EXCEPT !.ctx = c]
  <1>4. EngineOK(eng[w], rows)
    BY Given
  <1>5. EngineOK(e, rows) /\ \A n \in Nodes : Holds(e, n) => Holds(eng[w], n)
    BY <1>2, <1>4, ContextWrite
  <1> HIDE DEF e
  <1>6. QED
    BY <1>1, <1>3, <1>5, QuietStep, EffectsAreNotRetried DEF e

LEMMA StartStep ==
    ASSUME WorkflowInv, NEW w \in Workers, Start(w)
    PROVE  WorkflowInv'
  <1> DEFINE e == [Idle EXCEPT !.pc = "recover"]
  <1>1. Becomes(w, e) /\ UNCHANGED <<run, rows, approvals, req, calls>>
    BY DEF Start, store
  <1>2. EngineOK(e, rows) /\ \A n \in Nodes : ~Holds(e, n)
    BY Given, AtRest
  <1> HIDE DEF e
  <1>3. QED
    BY <1>1, <1>2, QuietStep, EffectsAreNotRetried

(* A run that is neither new nor over was executed: its attempts exist. *)
LEMMA RecoverListStep ==
    ASSUME WorkflowInv, NEW w \in Workers, RecoverList(w)
    PROVE  WorkflowInv'
  <1> DEFINE open == {n \in Nodes : Current(n).st \in {"claimed", "running"}}
             expired == {n \in open : Current(n).owner = NoOwner}
             seen == IF open = expired THEN Empty ELSE "live"
             snap == CurrentAttempts
             e == [Idle EXCEPT !.pc = "recovering", !.snap = snap, !.todo = expired, !.seen = seen]
  <1>0. /\ rows \in AllRows /\ EngineOK(Idle, rows) /\ Idle \in Engines
        /\ \A n \in Nodes : ~Holds(Idle, n)
        /\ run = "created" \/ RunTerminal(run) \/ Initialized
    BY Given, AtRest
  <1>1. UNCHANGED <<run, rows, approvals, req, calls>>
    BY DEF RecoverList, store
  <1>2. CASE RunTerminal(run) \/ run \in {"needs_manual_action", "created"}
    <2>1. Becomes(w, Idle)
      BY <1>2 DEF RecoverList
    <2>2. QED
      BY <1>0, <1>1, <2>1, QuietStep, EffectsAreNotRetried
  <1>3. CASE ~(RunTerminal(run) \/ run \in {"needs_manual_action", "created"})
    <2>1. Becomes(w, e)
      BY <1>3 DEF RecoverList
    <2>2. Initialized
      BY <1>0, <1>3
    <2>3. snap \in Snapshots /\ \A n \in Nodes : snap[n].k \in 1..Len(rows[n])
      BY <1>0, <2>2, SnapshotOK
    <2>4. expired \in SUBSET Nodes /\ seen \in NodeStates \cup {Empty, "live"}
      OBVIOUS
    <2> HIDE DEF snap, expired, seen, open
    <2>5. \A n \in Nodes : Idle.jobs[n].res = "none"
      BY DEF Idle, NoWork
    <2>6. e \in Engines /\ e.pc = "recovering" /\ e.snap = snap /\ e.jobs = Idle.jobs
      BY <1>0, <2>3, <2>4 DEF Engines
    <2> HIDE DEF e
    <2>7. EngineOK(e, rows) /\ \A n \in Nodes : ~Holds(e, n)
      BY <2>3, <2>5, <2>6 DEF EngineOK, Holds
    <2>8. QED
      BY <1>1, <2>1, <2>7, QuietStep, EffectsAreNotRetried
  <1>4. QED
    BY <1>2, <1>3

(* Recover takes an attempt back, unless its node may have been called: an *)
(* effectful row found running is marked dispatched.                       *)
LEMMA RequeuedKeepsOut ==
    ASSUME WorkflowInv, NEW n \in Effectful, NEW k \in 1..Len(rows[n]), NEW expected,
           Accepts(n, k, expected, Requeued(n, rows[n][k]).st)
    PROVE  KeepsOut(rows[n][k], Requeued(n, rows[n][k]))
  <1> DEFINE old == rows[n][k]
             new == Requeued(n, old)
  <1>0. n \in Nodes /\ MaxAttempts[n] = 1 /\ EffectOK(n, rows, eng, calls) /\ rows \in AllRows
    BY EffectsAreNotRetried DEF WorkflowInv, EffectInv, CarriedInv
  <1>1. k = 1 /\ rows[n] # <<>>
    <2>1. Len(rows[n]) <= 1 /\ Len(rows[n]) \in Nat
      BY <1>0, FirstRow, RowsStay DEF Extends
    <2>2. QED
      BY <1>0, <2>1, FirstRow, SMTT(30)
  <1>2. old.st = "running" => old.disp
    BY <1>0, <1>1 DEF EffectOK
  <1>3. validNodeTransition(old.st, new.st) /\ old \in Rows
    BY <1>0, AcceptedWrite
  <1>4. CASE old.disp
    <2>1. new.st = "needs_manual_action"
      BY <1>3, <1>4 DEF Requeued, Rows
    <2>2. QED
      BY <2>1 DEF KeepsOut, Out
  <1>5. CASE ~old.disp
    <2>1. new.st = "pending"
      BY <1>3, <1>5 DEF Requeued, Rows
    <2>2. old.st \notin Out
      BY <1>2, <1>3, <1>5, <2>1 DEF validNodeTransition, Out
    <2>3. QED
      BY <2>1, <2>2 DEF KeepsOut
  <1>6. QED
    BY <1>4, <1>5

LEMMA RecoverNodeStep ==
    ASSUME WorkflowInv, NEW w \in Workers, RecoverNode(w)
    PROVE  WorkflowInv'
  <1>0. /\ rows \in AllRows /\ EngineOK(eng[w], rows) /\ eng[w] \in Engines /\ eng[w].pc = "recovering"
        /\ run \in RunStates /\ (run = "created" \/ RunTerminal(run) \/ Initialized)
    BY Given DEF RecoverNode, At
  <1>1. UNCHANGED <<run, approvals, req, calls>>
    BY DEF RecoverNode
  <1>2. PICK n \in eng[w].todo :
          LET k == eng[w].snap[n].k
              row == Requeued(n, rows[n][k])
              e == [eng[w] EXCEPT !.todo = @ \ {n}]
          IN \/ IF Accepts(n, k, eng[w].snap[n].st, row.st)
                  THEN rows' = Saved(n, k, row) /\ Becomes(w, [e EXCEPT !.prog = TRUE])
                  ELSE Becomes(w, e) /\ UNCHANGED rows
             \/ Becomes(w, e) /\ UNCHANGED rows
    BY DEF RecoverNode
  <1> DEFINE k == eng[w].snap[n].k
             row == Requeued(n, rows[n][k])
             e == [eng[w] EXCEPT !.todo = @ \ {n}]
             f == [e EXCEPT !.prog = TRUE]
  <1>3. n \in Nodes /\ k \in 1..Len(rows[n])
    BY <1>0 DEF EngineOK, Engines
  <1>4. e \in Engines /\ e.pc = "recovering" /\ e.snap = eng[w].snap /\ e.jobs = eng[w].jobs
    BY <1>0 DEF Engines
  <1>5. \/ /\ Accepts(n, k, eng[w].snap[n].st, row.st)
           /\ rows' = Saved(n, k, row) /\ Becomes(w, f)
        \/ Becomes(w, e) /\ UNCHANGED rows
    BY <1>2
  <1> HIDE DEF e
  <1>6. f \in Engines /\ f.pc = "recovering" /\ f.snap = eng[w].snap /\ f.jobs = eng[w].jobs
    BY <1>4 DEF Engines
  <1> HIDE DEF f
  <1>7. EngineOK(e, rows) /\ EngineOK(f, rows)
    BY <1>0, <1>4, <1>6 DEF EngineOK
  <1>8. \A m \in Effectful : (Holds(e, m) => Holds(eng[w], m)) /\ (Holds(f, m) => Holds(eng[w], m))
    BY <1>4, <1>6 DEF Holds
  <1>9. CASE Becomes(w, e) /\ UNCHANGED rows
    BY <1>1, <1>7, <1>8, <1>9, QuietStep
  <1>10. CASE /\ Accepts(n, k, eng[w].snap[n].st, row.st)
              /\ rows' = Saved(n, k, row) /\ Becomes(w, f)
    <2>1. rows[n][k] \in Rows
      BY <1>0, <1>3, FirstRow
    <2>2. row \in Rows
      BY <2>1 DEF Requeued, Rows, NodeStates
    <2>3. n \in Effectful => KeepsOut(rows[n][k], row)
      BY <1>3, <1>10, RequeuedKeepsOut
    <2> HIDE DEF row, k
    <2>4. Extends(rows, rows') /\ \A m \in Effectful : Harmless(rows, rows', m)
      BY <1>3, <1>10, <2>2, <2>3, SavedRows
    <2>5. EngineOK(f, rows')
      BY <1>0, <1>7, <2>4, CarriedOn
    <2>6. QED
      BY <1>0, <1>1, <1>8, <1>10, <2>4, <2>5, WorkerStep
  <1>11. QED
    BY <1>5, <1>9, <1>10

LEMMA RecoveredStep ==
    ASSUME WorkflowInv, NEW w \in Workers, Recovered(w)
    PROVE  WorkflowInv'
  <1> DEFINE e == [Idle EXCEPT !.pc = "resettle"]
  <1>1. (Becomes(w, e) \/ Becomes(w, Idle)) /\ UNCHANGED <<run, rows, approvals, req, calls>>
    BY DEF Recovered, store
  <1>2. /\ EngineOK(e, rows) /\ EngineOK(Idle, rows)
        /\ \A n \in Nodes : ~Holds(e, n) /\ ~Holds(Idle, n)
    BY Given, AtRest
  <1> HIDE DEF e
  <1>3. QED
    BY <1>1, <1>2, QuietStep, EffectsAreNotRetried

-----------------------------------------------------------------------------
(* Requests.  What every step of a request starts from. *)
LEMMA GivenRequest ==
    ASSUME WorkflowInv, NEW q \in Requests
    PROVE  /\ rows \in AllRows /\ run \in RunStates /\ approvals \in [Nodes -> Decisions \cup {Empty}]
           /\ run = "created" \/ RunTerminal(run) \/ Initialized
           /\ RequestOK(req[q], rows) /\ req[q] \in Handlers
           /\ eng = [v \in Workers |-> eng[v]] /\ \A v \in Workers : EngineOK(eng[v], rows)
           /\ Extends(rows, rows) /\ \A n \in Effectful : Harmless(rows, rows, n)
  BY RowsStay DEF WorkflowInv, CarriedInv, RequestOK

(* A step of a request that leaves the workers alone. *)
LEMMA HandlerStep ==
    ASSUME WorkflowInv, Extends(rows, rows'), \A n \in Effectful : Harmless(rows, rows', n),
           NEW q \in Requests, NEW r, req' = [req EXCEPT ![q] = r], RequestOK(r, rows'),
           UNCHANGED <<eng, calls>>, approvals' \in [Nodes -> Decisions \cup {Empty}],
           run' \in RunStates, run' = "created" \/ RunTerminal(run') \/ Initialized
    PROVE  WorkflowInv'
  <1>1. eng' = [v \in Workers |-> eng'[v]] /\ \A v \in Workers : EngineOK(eng'[v], rows)
    BY GivenRequest
  <1>2. \A n \in Effectful, v \in Workers : Holds(eng'[v], n) => Holds(eng[v], n)
    OBVIOUS
  <1>3. QED
    BY <1>1, <1>2, RequestStep

(* A request that has nothing left to do. *)
LEMMA QuietRequest ==
    ASSUME NEW rs
    PROVE  /\ Quiet \in Handlers /\ RequestOK(Quiet, rs)
           /\ \A pc \in {"settle", "resume", "execute", "list"}, v \in Workers \cup {NoOwner} :
                RequestOK([Quiet EXCEPT !.pc = pc, !.at = v], rs)
  <1>1. Quiet \in Handlers /\ Quiet.pc = "idle" /\ Quiet.todo = {}
    BY DEF Quiet, Handlers
  <1>2. RequestOK(Quiet, rs)
    BY <1>1 DEF RequestOK
  <1>3. ASSUME NEW pc \in {"settle", "resume", "execute", "list"}, NEW v \in Workers \cup {NoOwner}
        PROVE  RequestOK([Quiet EXCEPT !.pc = pc, !.at = v], rs)
    <2> DEFINE r == [Quiet EXCEPT !.pc = pc, !.at = v]
    <2>1. r \in Handlers /\ r.pc = pc /\ r.todo = {}
      BY <1>1 DEF Handlers
    <2> HIDE DEF r
    <2>2. RequestOK(r, rs)
      BY <2>1 DEF RequestOK
    <2>3. QED
      BY <2>2 DEF r
  <1>4. QED
    BY <1>1, <1>2, <1>3

(* A request about to execute the run it decided. *)
LEMMA DrivingRequest ==
    ASSUME WorkflowInv, NEW q \in Requests, NEW rs
    PROVE  RequestOK(Driving(q), rs)
  <1>1. req[q].at \in Workers \cup {NoOwner}
    BY GivenRequest DEF Handlers
  <1>2. QED
    BY <1>1, QuietRequest DEF Driving

LEMMA DecideReadStep ==
    ASSUME WorkflowInv, NEW q \in Requests, NEW w \in Workers, DecideRead(q, w)
    PROVE  WorkflowInv'
  <1>0. rows \in AllRows /\ run \in RunStates /\ Initialized
    BY GivenRequest DEF DecideRead
  <1>1. UNCHANGED <<run, rows, approvals, eng, calls>>
    BY DEF DecideRead, store
  <1>2. PICK n \in Nodes, d \in Answers :
          req' = [req EXCEPT ![q] = [Quiet EXCEPT !.pc = "record", !.at = w, !.dec = d, !.was = run,
                                                  !.todo = {<<n, Len(rows[n])>>}]]
    BY DEF DecideRead
  <1> DEFINE todo == {<<n, Len(rows[n])>>}
             r == [Quiet EXCEPT !.pc = "record", !.at = w, !.dec = d, !.was = run, !.todo = todo]
  <1>3. Len(rows[n]) \in Nat /\ Len(rows[n]) \in 1..Len(rows[n])
    BY <1>0, SnapshotOK, FirstRow
  <1>4. d \in Decisions
    BY WorkflowAssumption
  <1>5. todo \in SUBSET (Nodes \X Nat) /\ todo # {} /\ \A p \in todo : p[2] \in 1..Len(rows[p[1]])
    BY <1>3, SMTT(30)
  <1> HIDE DEF todo
  <1>6. Quiet \in Handlers
    BY QuietRequest
  <1>7. r \in Handlers /\ r.pc = "record" /\ r.dec = d /\ r.todo = todo
    BY <1>0, <1>4, <1>5, <1>6 DEF Handlers
  <1>8. req' = [req EXCEPT ![q] = r]
    BY <1>2 DEF todo
  <1> HIDE DEF r
  <1>9. RequestOK(r, rows)
    BY <1>4, <1>5, <1>7 DEF RequestOK
  <1>10. QED
    BY <1>1, <1>8, <1>9, GivenRequest, HandlerStep

LEMMA RecordApprovalStep ==
    ASSUME WorkflowInv, NEW q \in Requests, RecordApproval(q)
    PROVE  WorkflowInv'
  <1> DEFINE p == CHOOSE p \in req[q].todo : TRUE
             r == [req[q] EXCEPT !.pc = "decide"]
  <1>0. /\ RequestOK(req[q], rows) /\ req[q] \in Handlers /\ req[q].pc = "record"
        /\ approvals \in [Nodes -> Decisions \cup {Empty}]
    BY GivenRequest DEF RecordApproval
  <1>1. UNCHANGED <<run, rows, eng, calls>>
    BY DEF RecordApproval
  <1>2. p[1] \in Nodes /\ req[q].dec \in Decisions
    <2>1. req[q].todo # {} /\ req[q].dec \in Decisions
      BY <1>0 DEF RequestOK
    <2>2. p \in req[q].todo /\ req[q].todo \in SUBSET (Nodes \X Nat)
      BY <1>0, <2>1 DEF Handlers
    <2>3. QED
      BY <2>1, <2>2
  <1>3. \/ approvals' = [approvals EXCEPT ![p[1]] = req[q].dec] /\ req' = [req EXCEPT ![q] = r]
        \/ UNCHANGED approvals /\ req' = [req EXCEPT ![q] = Quiet]
    BY DEF RecordApproval
  <1> HIDE DEF p
  <1>4. approvals' \in [Nodes -> Decisions \cup {Empty}]
    BY <1>0, <1>2, <1>3
  <1>5. r \in Handlers /\ r.pc = "decide" /\ r.dec = req[q].dec /\ r.todo = req[q].todo
    BY <1>0 DEF Handlers
  <1> HIDE DEF r
  <1>6. RequestOK(r, rows) /\ RequestOK(Quiet, rows)
    BY <1>0, <1>5, QuietRequest DEF RequestOK
  <1>7. QED
    BY <1>1, <1>3, <1>4, <1>6, GivenRequest, HandlerStep

LEMMA ApplyRequestStep ==
    ASSUME WorkflowInv, NEW q \in Requests, ApplyRequest(q)
    PROVE  WorkflowInv'
  <1> DEFINE p == CHOOSE p \in req[q].todo : TRUE
             refused == req[q].dec = "rejected" /\ p[1] \in Gated
             to == IF refused THEN "failed" ELSE "pending"
             After(pc) == [Quiet EXCEPT !.pc = pc, !.at = req[q].at]
  <1>0. RequestOK(req[q], rows) /\ req[q] \in Handlers /\ req[q].pc = "decide" /\ rows \in AllRows
    BY GivenRequest DEF ApplyRequest
  <1>1. UNCHANGED <<run, approvals, eng, calls>>
    BY DEF ApplyRequest
  <1>2. /\ p[1] \in Nodes /\ p[2] \in 1..Len(rows[p[1]])
    <2>1. p \in req[q].todo
      BY <1>0 DEF RequestOK
    <2>2. QED
      BY <1>0, <2>1 DEF RequestOK, Handlers
  <1>3. \/ /\ Accepts(p[1], p[2], "waiting", to) /\ rows' = SavedAs(p[1], p[2], to)
           /\ \E r \in {After("settle"), After("resume"), Driving(q)} : req' = [req EXCEPT ![q] = r]
        \/ rows' = rows /\ req' = [req EXCEPT ![q] = Quiet]
    BY DEF ApplyRequest
  <1>4. to \in {"failed", "pending"}
    OBVIOUS
  <1>5. req[q].at \in Workers \cup {NoOwner}
    BY <1>0 DEF Handlers
  <1> HIDE DEF p, to
  <1>6. Extends(rows, rows') /\ \A m \in Effectful : Harmless(rows, rows', m)
    <2>1. CASE rows' = rows
      BY <2>1, RowsStay
    <2>2. CASE Accepts(p[1], p[2], "waiting", to) /\ rows' = SavedAs(p[1], p[2], to)
      <3>1. rows[p[1]][p[2]].st = "waiting"
        BY <1>2, <2>2, ExpectedWrite, EmptyIsNothing DEF NodeStates
      <3>2. QED
        BY <1>2, <1>4, <2>2, <3>1, SavedAsRows DEF Out
    <2>3. QED
      BY <1>3, <2>1, <2>2
  <1>7. PICK r \in {After("settle"), After("resume"), Driving(q), Quiet} : req' = [req EXCEPT ![q] = r]
    BY <1>3
  <1>8. RequestOK(r, rows')
    <2>1. RequestOK(After("settle"), rows') /\ RequestOK(After("resume"), rows')
      BY <1>5, QuietRequest
    <2>2. RequestOK(Quiet, rows') /\ RequestOK(Driving(q), rows')
      BY QuietRequest, DrivingRequest
    <2> HIDE DEF After
    <2>3. QED
      BY <2>1, <2>2
  <1>9. QED
    BY <1>1, <1>6, <1>7, <1>8, GivenRequest, HandlerStep

LEMMA ResumeRunStep ==
    ASSUME WorkflowInv, NEW q \in Requests, ResumeRun(q)
    PROVE  WorkflowInv'
  <1>1. /\ run' = RunAfter("waiting_for_approval", "running") /\ req' = [req EXCEPT ![q] = Driving(q)]
        /\ UNCHANGED <<rows, approvals, eng, calls>>
    BY DEF ResumeRun, updateRunState
  <1>2. run' \in RunStates /\ (run' = "created" \/ RunTerminal(run') \/ Initialized)
    <2>1. run \in RunStates /\ (run = "created" \/ RunTerminal(run) \/ Initialized)
      BY GivenRequest
    <2>2. run' \in {run, "running"} /\ (run' = run \/ run = "waiting_for_approval")
      <3>1. Empty # "waiting_for_approval"
        BY EmptyIsNothing DEF RunStates
      <3>2. QED
        BY <1>1, <3>1 DEF RunAfter
    <2>3. QED
      BY <2>1, <2>2 DEF RunStates, RunTerminal
  <1>3. RequestOK(Driving(q), rows)
    BY DrivingRequest
  <1>4. QED
    BY <1>1, <1>2, <1>3, GivenRequest, HandlerStep

LEMMA SettleRequestStep ==
    ASSUME WorkflowInv, NEW q \in Requests, SettleRequest(q)
    PROVE  WorkflowInv'
  <1> DEFINE r == [req[q] EXCEPT !.pc = "settled", !.want = Target]
  <1>0. RequestOK(req[q], rows) /\ req[q] \in Handlers
    BY GivenRequest
  <1>1. UNCHANGED <<run, rows, approvals, eng, calls>>
    BY DEF SettleRequest, store
  <1>2. CASE Target = Empty
    <2>1. req' = [req EXCEPT ![q] = Driving(q)] /\ RequestOK(Driving(q), rows)
      BY <1>2, DrivingRequest DEF SettleRequest
    <2>2. QED
      BY <1>1, <2>1, GivenRequest, HandlerStep
  <1>3. CASE Target # Empty
    <2>1. Target \in Targets
      BY <1>3, TargetOK
    <2>2. req' = [req EXCEPT ![q] = r]
      BY <1>3 DEF SettleRequest
    <2>3. r \in Handlers /\ r.pc = "settled" /\ r.want = Target /\ r.todo = req[q].todo
      BY <1>0, <2>1 DEF Handlers
    <2> HIDE DEF r
    <2>4. RequestOK(r, rows)
      BY <1>0, <2>1, <2>3 DEF RequestOK
    <2>5. QED
      BY <1>1, <2>2, <2>4, GivenRequest, HandlerStep
  <1>4. QED
    BY <1>2, <1>3

LEMMA SettledRequestStep ==
    ASSUME WorkflowInv, NEW q \in Requests, SettledRequest(q) \/ CancelEnd(q)
    PROVE  WorkflowInv'
  <1>1. PICK to \in Targets \cup {"cancelled"} : run' = RunAfter(Empty, to)
    <2>1. CASE CancelEnd(q)
      BY <2>1 DEF CancelEnd, updateRunState
    <2>2. CASE SettledRequest(q)
      <3>1. req[q].want \in Targets
        BY <2>2, GivenRequest DEF SettledRequest, RequestOK
      <3>2. QED
        BY <2>2, <3>1 DEF SettledRequest, updateRunState
    <2>3. QED
      BY <2>1, <2>2
  <1>2. PICK r \in {Quiet, Driving(q)} :
           req' = [req EXCEPT ![q] = r] /\ UNCHANGED <<rows, approvals, eng, calls>>
    BY DEF SettledRequest, CancelEnd
  <1>3. run' \in RunStates /\ (run' = "created" \/ RunTerminal(run') \/ Initialized)
    <2>1. to # "running"
      BY DEF Targets
    <2>2. QED
      BY <1>1, <2>1, RunMoves
  <1>4. RequestOK(r, rows)
    BY QuietRequest, DrivingRequest
  <1>5. QED
    BY <1>2, <1>3, <1>4, GivenRequest, HandlerStep

(* The approve handler's Execute: refused, or a worker enters the run. *)
LEMMA ExecuteDecidedStep ==
    ASSUME WorkflowInv, NEW q \in Requests, ExecuteDecided(q)
    PROVE  WorkflowInv'
  <1> DEFINE w == req[q].at
             r == [req[q] EXCEPT !.pc = "refused"]
  <1>0. /\ eng = [v \in Workers |-> eng[v]] /\ \A v \in Workers : EngineOK(eng[v], rows)
        /\ RequestOK(req[q], rows) /\ req[q] \in Handlers
    BY GivenRequest
  <1>1. UNCHANGED <<run, rows, approvals, calls>>
    BY DEF ExecuteDecided, store
  <1>2. \/ req' = [req EXCEPT ![q] = r] /\ UNCHANGED eng
        \/ req' = [req EXCEPT ![q] = Quiet] /\ (Enter(w) \/ UNCHANGED eng)
    BY DEF ExecuteDecided
  <1>3. r \in Handlers /\ r.pc = "refused" /\ r.todo = req[q].todo
    BY <1>0 DEF Handlers
  <1> HIDE DEF r
  <1>4. RequestOK(r, rows) /\ RequestOK(Quiet, rows)
    BY <1>0, <1>3, QuietRequest DEF RequestOK
  <1>5. CASE UNCHANGED eng
    BY <1>1, <1>2, <1>4, <1>5, GivenRequest, HandlerStep
  <1>6. CASE req' = [req EXCEPT ![q] = Quiet] /\ Enter(w) /\ w \in Workers
    <2>1. PICK e : Becomes(w, e) /\ EngineOK(e, rows) /\ \A n \in Effectful : ~Holds(e, n)
      BY <1>6, EnterOK
    <2> HIDE DEF w
    <2>2. /\ eng' = [v \in Workers |-> eng'[v]]
          /\ \A v \in Workers : eng'[v] = eng[v] \/ eng'[v] = e
      BY <1>0, <2>1 DEF Becomes
    <2>3. /\ \A v \in Workers : EngineOK(eng'[v], rows)
          /\ \A n \in Effectful, v \in Workers : Holds(eng'[v], n) => Holds(eng[v], n)
      BY <1>0, <2>1, <2>2
    <2>4. QED
      BY <1>1, <1>4, <1>6, <2>2, <2>3, GivenRequest, RequestStep
  <1>7. CASE Enter(w) /\ w \notin Workers
    <2>1. PICK e : eng' = [eng EXCEPT ![w] = e]
      BY <1>7 DEF Enter, Becomes
    <2> HIDE DEF w
    <2>2. UNCHANGED eng
      BY <1>0, <1>7, <2>1
    <2>3. QED
      BY <1>5, <2>2
  <1>8. QED
    BY <1>2, <1>5, <1>6, <1>7

LEMMA RefusedStep ==
    ASSUME WorkflowInv, NEW q \in Requests, Refused(q)
    PROVE  WorkflowInv'
  <1>1. req' = [req EXCEPT ![q] = Quiet] /\ UNCHANGED <<run, rows, approvals, eng, calls>>
    BY DEF Refused, store
  <1>2. RequestOK(Quiet, rows)
    BY QuietRequest
  <1>3. QED
    BY <1>1, <1>2, GivenRequest, HandlerStep

(* A failing store call ends a request, or makes it go on with less to do. *)
LEMMA RequestFailsStep ==
    ASSUME WorkflowInv, NEW q \in Requests, RequestFails(q)
    PROVE  WorkflowInv'
  <1>0. RequestOK(req[q], rows) /\ req[q] \in Handlers
    BY GivenRequest
  <1>1. UNCHANGED <<run, rows, approvals, eng, calls>>
    BY DEF RequestFails, store
  <1>2. \/ \E r \in {Quiet, Driving(q)} : req' = [req EXCEPT ![q] = r]
        \/ /\ req[q].pc = "cancel"
           /\ \E p \in req[q].todo : req' = [req EXCEPT ![q].todo = @ \ {p}]
    BY DEF RequestFails
  <1>3. CASE \E r \in {Quiet, Driving(q)} : req' = [req EXCEPT ![q] = r]
    <2>1. RequestOK(Quiet, rows) /\ RequestOK(Driving(q), rows)
      BY QuietRequest, DrivingRequest
    <2>2. QED
      BY <1>1, <1>3, <2>1, GivenRequest, HandlerStep
  <1>4. CASE req[q].pc = "cancel" /\ \E p \in req[q].todo : req' = [req EXCEPT ![q].todo = @ \ {p}]
    <2>1. PICK p \in req[q].todo : req' = [req EXCEPT ![q].todo = @ \ {p}]
      BY <1>4
    <2> DEFINE todo == req[q].todo \ {p}
               r == [req[q] EXCEPT !.todo = todo]
    <2>2. todo \in SUBSET (Nodes \X Nat) /\ todo \subseteq req[q].todo /\ req' = [req EXCEPT ![q] = r]
      BY <1>0, <2>1 DEF Handlers
    <2> HIDE DEF todo
    <2>3. r \in Handlers /\ r.pc = "cancel" /\ r.todo = todo
      BY <1>0, <1>4, <2>2 DEF Handlers
    <2> HIDE DEF r
    <2>4. RequestOK(r, rows)
      BY <1>0, <2>2, <2>3 DEF RequestOK
    <2>5. QED
      BY <1>1, <2>2, <2>4, GivenRequest, HandlerStep
  <1>5. QED
    BY <1>2, <1>3, <1>4

LEMMA CancelStartStep ==
    ASSUME WorkflowInv, NEW q \in Requests, NEW w \in Workers, CancelStart(q, w)
    PROVE  WorkflowInv'
  <1> DEFINE r == [Quiet EXCEPT !.pc = "list", !.at = w]
             c == [eng[w] EXCEPT !.ctx = "cancelled"]
  <1>0. /\ eng = [v \in Workers |-> eng[v]] /\ \A v \in Workers : EngineOK(eng[v], rows)
    BY GivenRequest
  <1>1. req' = [req EXCEPT ![q] = r] /\ UNCHANGED <<run, rows, approvals, calls>>
    BY DEF CancelStart, store
  <1>2. Becomes(w, c) \/ Becomes(w, eng[w])
    BY DEF CancelStart
  <1>3. RequestOK(r, rows)
    BY QuietRequest
  <1>4. EngineOK(c, rows) /\ \A n \in Nodes : Holds(c, n) => Holds(eng[w], n)
    BY <1>0, ContextWrite
  <1> HIDE DEF r, c
  <1>5. /\ eng' = [v \in Workers |-> eng'[v]]
        /\ \A v \in Workers : eng'[v] = eng[v] \/ (v = w /\ eng'[v] = c)
    BY <1>0, <1>2 DEF Becomes
  <1>6. /\ \A v \in Workers : EngineOK(eng'[v], rows)
        /\ \A n \in Effectful, v \in Workers : Holds(eng'[v], n) => Holds(eng[v], n)
    BY <1>0, <1>4, <1>5, EffectsAreNotRetried
  <1>7. QED
    BY <1>1, <1>3, <1>5, <1>6, GivenRequest, RequestStep

LEMMA CancelListStep ==
    ASSUME WorkflowInv, NEW q \in Requests, CancelList(q)
    PROVE  WorkflowInv'
  <1> DEFINE open == {n \in Nodes : rows[n] # <<>> /\ ~Terminal(Current(n).st)}
             todo == {<<n, Len(rows[n])>> : n \in open}
             r == [req[q] EXCEPT !.pc = "cancel", !.todo = todo]
  <1>0. /\ RequestOK(req[q], rows) /\ req[q] \in Handlers /\ rows \in AllRows
        /\ req = [p \in Requests |-> req[p]]
    BY GivenRequest DEF WorkflowInv, CarriedInv
  <1>1. UNCHANGED <<run, rows, approvals, eng, calls>>
    BY DEF CancelList, store
  <1>2. req' = [req EXCEPT ![q].pc = "cancel", ![q].todo = todo]
    BY DEF CancelList
  <1>3. todo \in SUBSET (Nodes \X Nat) /\ \A p \in todo : p[2] \in 1..Len(rows[p[1]])
    <2>1. ASSUME NEW n \in open PROVE n \in Nodes /\ Len(rows[n]) \in Nat /\ Len(rows[n]) \in 1..Len(rows[n])
      <3>1. n \in Nodes /\ rows[n] # <<>>
        OBVIOUS
      <3>2. Len(rows[n]) \in Nat /\ Len(rows[n]) >= 1
        BY <1>0, <3>1, FirstRow
      <3>3. QED
        BY <3>1, <3>2, SMTT(30)
    <2> HIDE DEF open
    <2>2. QED
      BY <2>1, SMTT(30)
  <1> HIDE DEF todo, open
  <1>4. req' = [req EXCEPT ![q] = r]
    BY <1>0, <1>2
  <1>5. r \in Handlers /\ r.pc = "cancel" /\ r.todo = todo
    BY <1>0, <1>3 DEF Handlers
  <1> HIDE DEF r
  <1>6. RequestOK(r, rows)
    BY <1>3, <1>5 DEF RequestOK
  <1>7. QED
    BY <1>1, <1>4, <1>6, GivenRequest, HandlerStep

LEMMA CancelNodeStep ==
    ASSUME WorkflowInv, NEW q \in Requests, CancelNode(q)
    PROVE  WorkflowInv'
  <1>0. RequestOK(req[q], rows) /\ req[q] \in Handlers /\ rows \in AllRows /\ req[q].pc = "cancel"
    BY GivenRequest DEF CancelNode
  <1>1. UNCHANGED <<run, approvals, eng, calls>>
    BY DEF CancelNode
  <1>2. PICK p \in req[q].todo :
          /\ rows' = IF Accepts(p[1], p[2], Empty, "cancelled")
                       THEN SavedAs(p[1], p[2], "cancelled") ELSE rows
          /\ req' = [req EXCEPT ![q].todo = @ \ {p}]
    BY DEF CancelNode
  <1> DEFINE todo == req[q].todo \ {p}
             r == [req[q] EXCEPT !.todo = todo]
  <1>3. p[1] \in Nodes /\ p[2] \in 1..Len(rows[p[1]])
    BY <1>0 DEF RequestOK, Handlers
  <1>4. Extends(rows, rows') /\ \A m \in Effectful : Harmless(rows, rows', m)
    BY <1>2, <1>3, SavedAsRows, RowsStay DEF Out
  <1>5. req' = [req EXCEPT ![q] = r]
    BY <1>2
  <1>6. todo \in SUBSET (Nodes \X Nat) /\ todo \subseteq req[q].todo
    BY <1>0 DEF Handlers
  <1> HIDE DEF todo
  <1>7. r \in Handlers /\ r.pc = "cancel" /\ r.todo = todo
    BY <1>0, <1>6 DEF Handlers
  <1> HIDE DEF r
  <1>8. RequestOK(r, rows)
    BY <1>0, <1>6, <1>7 DEF RequestOK
  <1>9. RequestOK(r, rows')
    BY <1>0, <1>4, <1>8, CarriedOn
  <1>10. QED
    BY <1>1, <1>4, <1>5, <1>9, GivenRequest, HandlerStep

-----------------------------------------------------------------------------
(* A process stops: its worker and its requests are gone. *)
LEMMA CrashStep ==
    ASSUME WorkflowInv, NEW w \in Workers, Crash(w)
    PROVE  WorkflowInv'
  <1>0. /\ rows \in AllRows /\ EngineOK(Down, rows) /\ \A n \in Nodes : ~Holds(Down, n)
        /\ eng = [v \in Workers |-> eng[v]]
    BY Given, AtRest
  <1>1. Becomes(w, Down) /\ UNCHANGED <<run, rows, approvals, calls>>
    BY DEF Crash, store
  <1>2. req' = [q \in Requests |-> IF req[q].at = w THEN Quiet ELSE req[q]]
    BY DEF Crash
  <1>3. /\ eng' = [v \in Workers |-> eng'[v]]
        /\ \A v \in Workers : eng'[v] = IF v = w THEN Down ELSE eng[v]
    BY <1>0, <1>1 DEF Becomes
  <1>4. \A v \in Workers : EngineOK(eng'[v], rows')
    BY <1>0, <1>1, <1>3 DEF WorkflowInv, CarriedInv
  <1>5. /\ req' = [q \in Requests |-> req'[q]]
        /\ \A q \in Requests : RequestOK(req'[q], rows')
    BY <1>1, <1>2, QuietRequest DEF WorkflowInv, CarriedInv
  <1>6. CarriedInv'
    BY <1>1, <1>3, <1>4, <1>5 DEF WorkflowInv, CarriedInv, Initialized
  <1>7. ASSUME NEW n \in Effectful PROVE EffectOK(n, rows', eng', calls')
    <2>1. EffectOK(n, rows, eng, calls) /\ n \in Nodes /\ Harmless(rows, rows', n)
      BY <1>1, RowsStay, EffectsAreNotRetried DEF WorkflowInv, EffectInv
    <2>2. \A v \in Workers : Holds(eng'[v], n) => Holds(eng[v], n)
      BY <1>0, <1>3, <2>1
    <2>3. QED
      BY <1>1, <2>1, <2>2, EffectFrame
  <1>8. QED
    BY <1>6, <1>7 DEF WorkflowInv, EffectInv

(* A lease runs out: the row is what it was, but nobody's. *)
LEMMA LeaseStep ==
    ASSUME WorkflowInv, NEW n \in Nodes, LeaseExpires(n)
    PROVE  WorkflowInv'
  <1> DEFINE k == Len(rows[n])
             r == [rows[n][k] EXCEPT !.owner = NoOwner]
  <1>0. rows \in AllRows /\ rows[n] # <<>> /\ UNCHANGED <<run, approvals, eng, req, calls>>
    BY DEF WorkflowInv, CarriedInv, LeaseExpires
  <1>1. k \in 1..Len(rows[n]) /\ k \in Nat
    BY <1>0, FirstRow, SMTT(30)
  <1>2. rows[n][k] \in Rows
    BY <1>0, <1>1, FirstRow
  <1>3. r \in Rows /\ r.st = rows[n][k].st /\ r.disp = rows[n][k].disp
    BY <1>2 DEF Rows
  <1>4. rows' = [rows EXCEPT ![n] = [rows[n] EXCEPT ![k] = r]]
    BY <1>0 DEF LeaseExpires
  <1> HIDE DEF r
  <1>5. n \in Effectful => KeepsOut(rows[n][k], r)
    <2>1. SUFFICES ASSUME n \in Effectful PROVE KeepsOut(rows[n][k], r)
      OBVIOUS
    <2>2. MaxAttempts[n] = 1 /\ EffectOK(n, rows, eng, calls)
      BY <2>1, EffectsAreNotRetried DEF WorkflowInv, EffectInv
    <2>3. k = 1
      <3>1. Len(rows[n]) <= MaxAttempts[n]
        BY DEF WorkflowInv, CarriedInv
      <3>2. k <= 1
        BY <2>2, <3>1
      <3>3. k \in Nat /\ k >= 1
        BY <1>0, FirstRow
      <3> HIDE DEF k
      <3>4. QED
        BY <3>2, <3>3, SMTT(30)
    <2>4. rows[n][k].st = "running" => rows[n][k].disp
      BY <1>0, <2>2, <2>3 DEF EffectOK
    <2>5. QED
      BY <1>3, <2>4 DEF KeepsOut
  <1> HIDE DEF k
  <1>6. Extends(rows, rows') /\ \A m \in Effectful : Harmless(rows, rows', m)
    BY <1>1, <1>3, <1>4, <1>5, RowReplaced DEF k
  <1>7. /\ rows' \in AllRows /\ \A m \in Nodes : Len(rows'[m]) <= MaxAttempts[m]
        /\ \A v \in Workers : EngineOK(eng'[v], rows')
        /\ \A q \in Requests : RequestOK(req'[q], rows')
    BY <1>0, <1>6, CarriedOn DEF WorkflowInv, CarriedInv, Extends
  <1>8. run' = "created" \/ RunTerminal(run') \/ Initialized'
    BY <1>0, <1>6, StillInitialized DEF WorkflowInv, CarriedInv
  <1>9. CarriedInv'
    BY <1>0, <1>7, <1>8 DEF WorkflowInv, CarriedInv
  <1>10. ASSUME NEW m \in Effectful PROVE EffectOK(m, rows', eng', calls')
    <2>1. EffectOK(m, rows, eng, calls)
      BY DEF WorkflowInv, EffectInv
    <2>2. QED
      BY <1>0, <1>6, <2>1, EffectFrame
  <1>11. QED
    BY <1>9, <1>10 DEF WorkflowInv, EffectInv

-----------------------------------------------------------------------------
(* The invariant holds of a run that was just created. *)
LEMMA FreshWorkflow ==
    ASSUME WorkflowInit
    PROVE  WorkflowInv
  <1>1. /\ run = "created" /\ rows = [n \in Nodes |-> <<>>] /\ approvals = [n \in Nodes |-> Empty]
        /\ req = [q \in Requests |-> Quiet] /\ calls = [n \in Nodes |-> 0]
    BY DEF WorkflowInit
  <1>2. PICK w \in Workers :
          eng = [v \in Workers |-> IF v = w THEN [Idle EXCEPT !.pc = "create"] ELSE Idle]
    BY DEF WorkflowInit
  <1>3. rows \in AllRows /\ \A n \in Nodes : rows[n] = <<>> /\ Len(rows[n]) = 0
    BY <1>1, SMTT(30) DEF AllRows
  <1>4. \A n \in Nodes : Len(rows[n]) <= MaxAttempts[n]
    BY <1>3, WorkflowAssumption, SMTT(30)
  <1>5. /\ EngineOK(Idle, rows) /\ EngineOK([Idle EXCEPT !.pc = "create"], rows)
        /\ \A n \in Nodes : ~Holds(Idle, n) /\ ~Holds([Idle EXCEPT !.pc = "create"], n)
    BY <1>3, AtRest
  <1>6. /\ eng = [v \in Workers |-> eng[v]] /\ \A v \in Workers : EngineOK(eng[v], rows)
        /\ \A v \in Workers, n \in Nodes : ~Holds(eng[v], n)
    BY <1>2, <1>5
  <1>7. req = [q \in Requests |-> req[q]] /\ \A q \in Requests : RequestOK(req[q], rows)
    BY <1>1, QuietRequest
  <1>8. run \in RunStates /\ approvals \in [Nodes -> Decisions \cup {Empty}] /\ calls \in [Nodes -> 0..2]
    BY <1>1, SMTT(30) DEF RunStates
  <1>9. CarriedInv
    BY <1>1, <1>3, <1>4, <1>6, <1>7, <1>8 DEF CarriedInv
  <1>10. ASSUME NEW n \in Effectful PROVE EffectOK(n, rows, eng, calls)
    <2>1. n \in Nodes
      BY EffectsAreNotRetried
    <2>2. calls[n] = 0 /\ rows[n] = <<>> /\ \A v \in Workers : ~Holds(eng[v], n)
      BY <1>1, <1>3, <1>6, <2>1
    <2>3. QED
      BY <2>2, SMTT(30) DEF EffectOK
  <1>11. QED
    BY <1>9, <1>10 DEF WorkflowInv, EffectInv

(* A failing store call ends what a worker was doing. *)
LEMMA StoreFailsStep ==
    ASSUME WorkflowInv, NEW w \in Workers, StoreFails(w)
    PROVE  WorkflowInv'
  <1>1. (Abort(w) \/ (Becomes(w, Idle) /\ UNCHANGED run)) /\ UNCHANGED <<rows, approvals, req, calls>>
    BY DEF StoreFails
  <1>2. EngineOK(Idle, rows) /\ \A n \in Effectful : ~Holds(Idle, n)
    BY Given, AtRest, EffectsAreNotRetried
  <1>3. QED
    BY <1>1, <1>2, AbortStep, QuietStep

(* Every step of a worker keeps the invariant. *)
LEMMA WorkStep ==
    ASSUME WorkflowInv, NEW w \in Workers, Work(w)
    PROVE  WorkflowInv'
  <1>1. CASE \E n \in Nodes : Dispatch(w, n) \/ Call(w, n)
    BY <1>1, DispatchStep, CallStep
  <1>8. CASE ExecuteCreated(w) \/ Reread(w) \/ Begin(w)
    BY <1>8, ExecuteStep, RereadStep, BeginStep
  <1>2. CASE CreateAttempt(w) \/ Sweep(w) \/ ApplyDecision(w) \/ Decided(w)
    BY <1>2, CreateStep, SweepStep, ApplyDecisionStep, DecidedStep
  <1>3. CASE Visit(w) \/ FailUnmapped(w) \/ Visited(w)
    BY <1>3, VisitStep, FailUnmappedStep, VisitedStep
  <1>4. CASE Record(w) \/ AppendRetry(w) \/ SaveOutcome(w) \/ Park(w)
    BY <1>4, RecordStep, AppendStep, SaveOutcomeStep, ParkStep
  <1>5. CASE EndSweep(w) \/ Settle(w) \/ Settled(w)
    BY <1>5, EndSweepStep, SettleStep, SettledStep
  <1>6. CASE Start(w) \/ RecoverList(w) \/ RecoverNode(w) \/ Recovered(w)
    BY <1>6, StartStep, RecoverListStep, RecoverNodeStep, RecoveredStep
  <1>7. QED
    BY <1>1, <1>2, <1>3, <1>4, <1>5, <1>6, <1>8 DEF Work

(* Every step of a request keeps the invariant. *)
LEMMA HandleStep ==
    ASSUME WorkflowInv, NEW q \in Requests, Handle(q)
    PROVE  WorkflowInv'
  <1>1. CASE RecordApproval(q) \/ ApplyRequest(q) \/ ResumeRun(q) \/ SettleRequest(q)
    BY <1>1, RecordApprovalStep, ApplyRequestStep, ResumeRunStep, SettleRequestStep
  <1>2. CASE SettledRequest(q) \/ CancelEnd(q)
    BY <1>2, SettledRequestStep
  <1>3. CASE CancelList(q) \/ CancelNode(q)
    BY <1>3, CancelListStep, CancelNodeStep
  <1>4. CASE ExecuteDecided(q) \/ Refused(q)
    BY <1>4, ExecuteDecidedStep, RefusedStep
  <1>5. QED
    BY <1>1, <1>2, <1>3, <1>4 DEF Handle

(* Every step keeps the invariant, one that changes nothing included. *)
LEMMA WorkflowKeepsInv ==
    ASSUME WorkflowInv, [WorkflowNext]_vars
    PROVE  WorkflowInv'
  <1>1. CASE \E w \in Workers : Work(w) \/ Resume(w) \/ StoreFails(w) \/ ContextEnds(w) \/ Crash(w)
    BY <1>1, WorkStep, ExecuteStep, StoreFailsStep, ContextStep, CrashStep
  <1>6. CASE \E w \in Workers, n \in Nodes : GateUnread(w, n)
    BY <1>6, GateUnreadStep
  <1>2. CASE \E q \in Requests : \/ Handle(q) \/ RequestFails(q)
                                \/ \E w \in Workers : DecideRead(q, w) \/ CancelStart(q, w)
    BY <1>2, HandleStep, RequestFailsStep, DecideReadStep, CancelStartStep
  <1>3. CASE \E n \in Nodes : LeaseExpires(n)
    BY <1>3, LeaseStep
  <1>4. CASE UNCHANGED vars
    <2>1. UNCHANGED <<run, rows, approvals, eng, req, calls>>
      BY <1>4 DEF vars, store
    <2>2. CarriedInv'
      BY <2>1 DEF WorkflowInv, CarriedInv, Initialized
    <2>3. EffectInv'
      BY <2>1 DEF WorkflowInv, EffectInv
    <2>4. QED
      BY <2>2, <2>3 DEF WorkflowInv
  <1>5. QED
    BY <1>1, <1>2, <1>3, <1>4, <1>6 DEF WorkflowNext

LEMMA WorkflowInvariance == WorkflowSpec => []WorkflowInv
  <1>1. WorkflowInit => WorkflowInv
    BY FreshWorkflow
  <1>2. WorkflowInv /\ [WorkflowNext]_vars => WorkflowInv'
    BY WorkflowKeepsInv
  <1>3. QED
    BY <1>1, <1>2, PTL DEF WorkflowSpec

(* The run and its rows are ones the store can hold, no node has more      *)
(* attempts than its retry policy allows (recordOutcome, the operation key *)
(* of AppendNodeExecution) and only an operator's decision is recorded, on *)
(* either store and whichever workers, requests and recoveries write.      *)
THEOREM WorkflowTypes == WorkflowSpec => []WorkflowTypeOK
  <1>1. ASSUME WorkflowInv PROVE WorkflowTypeOK
    <2>1. rows \in AllRows /\ \A n \in Nodes : Len(rows[n]) <= MaxAttempts[n]
      BY <1>1 DEF WorkflowInv, CarriedInv
    <2>2. \A n \in Nodes : Range(rows[n]) \subseteq Rows
      BY <2>1, SMTT(30) DEF AllRows, Range
    <2>3. QED
      BY <1>1, <2>1, <2>2 DEF WorkflowInv, CarriedInv, WorkflowTypeOK
  <1>2. QED
    BY <1>1, WorkflowInvariance, PTL

(* No effectful node is called twice (TryClaim, the dispatched mark that   *)
(* executeNode writes before the call, Recover's parking of what was       *)
(* dispatched): for any definition whose effectful nodes are not retried,  *)
(* on either store, with any number of gateways sweeping, crashing,        *)
(* recovering and losing their leases, and any requests that approve,      *)
(* reject and cancel.                                                      *)
THEOREM EffectsHappenOnce == WorkflowSpec => []EffectOnce
  <1>1. ASSUME WorkflowInv PROVE EffectOnce
    <2>1. SUFFICES ASSUME NEW n \in Effectful PROVE calls[n] <= 1
      BY DEF EffectOnce
    <2>2. calls[n] \in {0, 1}
      BY <1>1 DEF WorkflowInv, EffectInv, EffectOK
    <2>3. QED
      BY <2>2, SMTT(30)
  <1>2. QED
    BY <1>1, WorkflowInvariance, PTL

-----------------------------------------------------------------------------
(* Document m keeps every active marker of document c, up to the cap as of *)
(* the clock reading now.                                                  *)
Covers(m, c, now) ==
    \A d \in Deployments :
        /\ c[d].status = Retired => m[d].status = Retired
        /\ c[d].status = Cooldown /\ Pending(c[d].until)
           => \/ m[d].status = Retired
              \/ /\ m[d].status = Cooldown
                 /\ m[d].until >= Least(c[d].until, MaxCooldown + now)

CurrentCovers ==
    \A r \in Replicas :
        round[r].at = "swap" /\ round[r].current
            => Covers(round[r].merged, doc, round[r].now)

SyncInv == TypeOK /\ CurrentCovers

SwapRounds ==
    [at : {"swap"}, now : - MaxLag..0, tries : 0..Retries, local : Documents,
     merged : Documents, current : BOOLEAN]

HealthEntries == [status : Status, fails : 0..FailCap, until : Int]

----------------------------------------------------------------------------
(* Deadlines and markers *)

(* Normalising a marker yields one, within the cap.                        *)
LEMMA NormalizeEntryType ==
    ASSUME NEW e \in [status : {NoStatus, Cooldown, Retired}, until : Int,
                      origin : Replicas \cup {NoReplica}],
           NEW now \in - MaxLag..0
    PROVE  /\ NormalizeEntry(e, now) \in Markers
           /\ NormalizeEntry(e, now).until <= MaxCooldown
           /\ NormalizeEntry(e, now).status = Cooldown
                => NormalizeEntry(e, now).until > now
  <1> USE SyncAssumption DEF MaxLag
  <1>1. CASE e.status = Retired
    BY <1>1, SMTT(30) DEF NormalizeEntry, Markers, NoDeadline, Retired, Cooldown
  <1>2. CASE e.status = Cooldown /\ e.until > now
    <2>1. Least(e.until, now + MaxCooldown) \in -2..MaxCooldown
          /\ Least(e.until, now + MaxCooldown) > now
      BY <1>2, SMTT(30) DEF Least
    <2> DEFINE u == Least(e.until, now + MaxCooldown)
    <2>2. [e EXCEPT !.until = u] \in Markers /\ [e EXCEPT !.until = u].until = u
      BY <2>1 DEF Markers
    <2>3. NormalizeEntry(e, now) = [e EXCEPT !.until = u]
      BY <1>2 DEF NormalizeEntry, Retired, Cooldown
    <2> HIDE DEF u
    <2>4. QED
      BY <2>1, <2>2, <2>3, SMTT(30) DEF u
  <1>3. CASE ~(e.status = Retired) /\ ~(e.status = Cooldown /\ e.until > now)
    BY <1>3, SMTT(30) DEF NormalizeEntry, Markers, NoMarker, Marker, NoDeadline, NoStatus, Cooldown
  <1>4. QED
    BY <1>1, <1>2, <1>3

(* The absent marker is a marker.                                          *)
LEMMA NoMarkerType == NoMarker \in Markers
  BY SyncAssumption, SMTT(30) DEF NoMarker, Marker, Markers, NoDeadline, MaxLag

(* Merging two documents yields a document.                                *)
LEMMA MergeType ==
    ASSUME NEW c \in Documents, NEW m \in Documents, NEW now \in - MaxLag..0
    PROVE  Merge(c, m, now) \in Documents
  <1> SUFFICES ASSUME NEW d \in Deployments
               PROVE  mergeEntry(NormalizeEntry(c[d], now), NormalizeEntry(m[d], now)) \in Markers
    BY DEF Merge, Documents
  <1>1. /\ c[d] \in [status : {NoStatus, Cooldown, Retired}, until : Int,
                     origin : Replicas \cup {NoReplica}]
        /\ m[d] \in [status : {NoStatus, Cooldown, Retired}, until : Int,
                     origin : Replicas \cup {NoReplica}]
    BY SyncAssumption, SMTT(30) DEF Documents, Markers
  <1>2. NormalizeEntry(c[d], now) \in Markers /\ NormalizeEntry(m[d], now) \in Markers
    BY <1>1, NormalizeEntryType
  <1>3. QED
    BY <1>2 DEF mergeEntry

(* The merge keeps every active marker of the document it starts from.     *)
LEMMA MergeCovers ==
    ASSUME NEW c \in Documents, NEW m \in Documents, NEW now \in - MaxLag..0
    PROVE  Covers(Merge(c, m, now), c, now)
  <1> SUFFICES ASSUME NEW d \in Deployments
               PROVE  /\ c[d].status = Retired => Merge(c, m, now)[d].status = Retired
                      /\ c[d].status = Cooldown /\ Pending(c[d].until)
                         => \/ Merge(c, m, now)[d].status = Retired
                            \/ /\ Merge(c, m, now)[d].status = Cooldown
                               /\ Merge(c, m, now)[d].until
                                    >= Least(c[d].until, MaxCooldown + now)
    BY DEF Covers
  <1> DEFINE x == NormalizeEntry(c[d], now)
             y == NormalizeEntry(m[d], now)
  <1>1. Merge(c, m, now)[d] = mergeEntry(x, y)
    BY DEF Merge
  <1>2. c[d] \in Markers /\ m[d] \in Markers
    BY DEF Documents
  <1>3. y \in Markers
    BY <1>2, NormalizeEntryType, SyncAssumption, SMTT(30) DEF Markers
  <1>4. CASE c[d].status = Retired
    <2>1. x.status = Retired /\ x # NoMarker
      BY <1>2, <1>4 DEF NormalizeEntry, Markers, NoMarker, Marker, NoStatus, Retired
    <2>2. QED
      BY <1>1, <1>4, <2>1 DEF mergeEntry, Retired, Cooldown
  <1>5. CASE c[d].status = Cooldown /\ Pending(c[d].until)
    <2>1. c[d].until > now /\ now + MaxCooldown = MaxCooldown + now
      BY <1>2, <1>5, SyncAssumption, SMTT(30) DEF Pending, Markers, MaxLag
    <2>2. x = [c[d] EXCEPT !.until = Least(@, MaxCooldown + now)]
      BY <1>5, <2>1 DEF NormalizeEntry, Cooldown, Retired
    <2>3. /\ x.status = Cooldown /\ x # NoMarker
          /\ x.until = Least(c[d].until, MaxCooldown + now) /\ x.until \in Int
      BY <1>2, <1>5, <2>2, SyncAssumption, SMTT(30)
         DEF Markers, NoMarker, Marker, NoStatus, Cooldown, Least, MaxLag
    <2> HIDE DEF x, y
    <2>4. \/ mergeEntry(x, y).status = Retired
          \/ mergeEntry(x, y).status = Cooldown /\ mergeEntry(x, y).until >= x.until
      <3>1. CASE y = NoMarker
        BY <2>3, <3>1, SMTT(30) DEF mergeEntry
      <3>2. CASE y # NoMarker /\ y.status = Retired
        BY <2>3, <3>2 DEF mergeEntry, Cooldown, Retired
      <3>3. CASE y # NoMarker /\ y.status = Cooldown
        BY <1>3, <2>3, <3>3, SMTT(30) DEF mergeEntry, Markers, Cooldown, Retired
      <3>4. CASE y # NoMarker /\ y.status = NoStatus
        <4>1. y = NoMarker
          BY <3>4, SMTT(30) DEF y, NormalizeEntry, NoStatus, Retired, Cooldown
        <4>2. QED
          BY <3>4, <4>1
      <3>5. QED
        BY <1>3, <3>1, <3>2, <3>3, <3>4 DEF Markers
    <2>5. QED
      BY <1>1, <1>5, <2>3, <2>4 DEF Cooldown, Retired
  <1>6. QED
    BY <1>4, <1>5 DEF Cooldown, Retired

(* Ageing keeps the type of a document ...                                 *)
LEMMA AgedMarkersType ==
    ASSUME NEW m \in Documents
    PROVE  AgedMarkers(m) \in Documents
  <1> SUFFICES ASSUME NEW d \in Deployments
               PROVE  [m[d] EXCEPT !.until = Ticked(@)] \in Markers
    BY DEF AgedMarkers, Documents
  <1>1. m[d] \in Markers /\ m[d].until \in -2..MaxCooldown
    BY DEF Documents, Markers
  <1>2. Ticked(m[d].until) \in -2..MaxCooldown
    BY <1>1, SyncAssumption, SMTT(30) DEF Ticked
  <1>3. QED
    BY <1>1, <1>2 DEF Markers

(* ... and a covering document covering.                                   *)
LEMMA AgedMarkersCover ==
    ASSUME NEW m \in Documents, NEW c \in Documents, NEW now \in - MaxLag..0,
           now > - MaxLag, Covers(m, c, now)
    PROVE  Covers(AgedMarkers(m), AgedMarkers(c), now - 1)
  <1> DEFINE am == AgedMarkers(m)
             ac == AgedMarkers(c)
  <1> SUFFICES ASSUME NEW d \in Deployments
               PROVE  /\ ac[d].status = Retired => am[d].status = Retired
                      /\ ac[d].status = Cooldown /\ Pending(ac[d].until)
                         => \/ am[d].status = Retired
                            \/ /\ am[d].status = Cooldown
                               /\ am[d].until >= Least(ac[d].until, MaxCooldown + (now - 1))
    BY DEF Covers
  <1>1. /\ m[d] \in Markers /\ c[d] \in Markers
        /\ m[d].until \in Int /\ c[d].until \in Int
    BY SyncAssumption, SMTT(30) DEF Documents, Markers
  <1>2. /\ am[d].status = m[d].status /\ am[d].until = Ticked(m[d].until)
        /\ ac[d].status = c[d].status /\ ac[d].until = Ticked(c[d].until)
    BY <1>1 DEF AgedMarkers, Markers
  <1> HIDE DEF am, ac
  <1>3. CASE c[d].status = Retired
    BY <1>2, <1>3 DEF Covers, Retired, Cooldown
  <1>4. CASE c[d].status = Cooldown /\ Pending(Ticked(c[d].until))
    <2>1. c[d].until >= 2 /\ Pending(c[d].until) /\ Ticked(c[d].until) = c[d].until - 1
      BY <1>1, <1>4, SMTT(30) DEF Ticked, Pending
    <2>2. CASE m[d].status = Retired
      BY <1>2, <1>4, <2>2 DEF Retired, Cooldown
    <2>3. CASE m[d].status = Cooldown /\ m[d].until >= Least(c[d].until, MaxCooldown + now)
      <3>1. m[d].until >= 2
        BY <1>1, <2>1, <2>3, SyncAssumption, SMTT(30) DEF Least, MaxLag
      <3>2. Ticked(m[d].until) = m[d].until - 1
        BY <1>1, <3>1, SMTT(30) DEF Ticked
      <3>3. Ticked(m[d].until) >= Least(Ticked(c[d].until), MaxCooldown + (now - 1))
        BY <1>1, <2>1, <2>3, <3>2, SyncAssumption, SMTT(30) DEF Least, MaxLag
      <3>4. QED
        BY <1>2, <1>4, <2>3, <3>3 DEF Retired, Cooldown
    <2>4. QED
      BY <1>4, <2>1, <2>2, <2>3 DEF Covers
  <1>5. QED
    BY <1>2, <1>3, <1>4 DEF Retired, Cooldown

----------------------------------------------------------------------------
(* The methods of the health manager that the replicas call keep the type  *)
(* of an entry.                                                            *)
LEMMA BumpType == \A n \in 0..FailCap : Bump(n) \in 0..FailCap
  BY FailCapAssumption, SMTT(30) DEF Bump

(* Each method of the manager yields a well-typed entry.                   *)
LEMMA HealthOperatorsType ==
    ASSUME NEW s \in HealthEntries, NEW u \in Int
    PROVE  /\ AfterApplySharedCooldown(s, u) \in HealthEntries
           /\ normalizeGlobal(s) \in HealthEntries
           /\ AfterEnterCooldown(s, u) \in HealthEntries
           /\ AfterRetire(s) \in HealthEntries
           /\ AfterRecordSuccess(s) \in HealthEntries
           /\ Invalidated \in HealthEntries /\ NoEntry \in HealthEntries
           /\ Aged(s) \in HealthEntries
  <1> USE FailCapAssumption DEF HealthEntries
  <1>1. \A st \in Status, n \in 0..FailCap, v \in Int : Entry(st, n, v) \in HealthEntries
    BY DEF Entry
  <1>2. /\ NoStatus \in Status /\ Unknown \in Status /\ Healthy \in Status
        /\ HalfOpen \in Status /\ Cooldown \in Status /\ Retired \in Status
    BY DEF Status
  <1>3. 0 \in 0..FailCap /\ NoDeadline \in Int /\ Bump(s.fails) \in 0..FailCap
    BY BumpType, SMTT(30) DEF NoDeadline
  <1>4. Ticked(s.until) \in Int
    BY SMTT(30) DEF Ticked
  <1>5. AfterApplySharedCooldown(s, u) \in HealthEntries /\ AfterEnterCooldown(s, u) \in HealthEntries
    BY <1>1, <1>2 DEF AfterApplySharedCooldown, AfterEnterCooldown
  <1>6. normalizeGlobal(s) \in HealthEntries /\ AfterRecordSuccess(s) \in HealthEntries
    BY <1>1, <1>2, <1>3 DEF normalizeGlobal, AfterRecordSuccess
  <1>7. AfterRetire(s) \in HealthEntries /\ Invalidated \in HealthEntries /\ NoEntry \in HealthEntries
    BY <1>1, <1>2, <1>3 DEF AfterRetire, Invalidated, NoEntry
  <1>8. Aged(s) \in HealthEntries
    BY <1>4 DEF Aged
  <1>9. QED
    BY <1>5, <1>6, <1>7, <1>8

----------------------------------------------------------------------------
(* One lemma per action.  Most of them change one round, or one manager.   *)

(* A replica between two rounds.                                           *)
LEMMA OffType == Off \in Rounds /\ Off.at # "swap"
  BY DEF Off, Rounds

(* A step that moves one round on, to one that covers the document.        *)
LEMMA RoundChanges ==
    ASSUME SyncInv, NEW r \in Replicas, NEW x \in Rounds,
           round' = [round EXCEPT ![r] = x], UNCHANGED <<doc, calm>>,
           state' \in [Replicas -> [Deployments -> HealthEntries]],
           x.at = "swap" /\ x.current => Covers(x.merged, doc, x.now)
    PROVE  SyncInv'
  <1>1. round' \in [Replicas -> Rounds]
    BY DEF SyncInv, TypeOK
  <1>2. TypeOK'
    BY <1>1 DEF SyncInv, TypeOK, HealthEntries
  <1>3. \A q \in Replicas : round'[q] = IF q = r THEN x ELSE round[q]
    BY DEF SyncInv, TypeOK
  <1>4. CurrentCovers'
    BY <1>3, SMTT(30) DEF SyncInv, CurrentCovers, Covers
  <1>5. QED
    BY <1>2, <1>4 DEF SyncInv

(* A step of one health manager outside a round.                           *)
LEMMA ManagerChanges ==
    ASSUME SyncInv, NEW r \in Replicas, NEW d \in Deployments, NEW s \in HealthEntries,
           Become(r, d, s)
    PROVE  SyncInv'
  <1>1. state' \in [Replicas -> [Deployments -> HealthEntries]]
    BY DEF Become, SyncInv, TypeOK, HealthEntries
  <1>2. TypeOK'
    BY <1>1 DEF Become, SyncInv, TypeOK, HealthEntries
  <1>3. CurrentCovers'
    BY DEF Become, SyncInv, CurrentCovers, Covers
  <1>4. QED
    BY <1>2, <1>3 DEF SyncInv

(* The deadlines to apply are within the cap.                              *)
LEMMA LoadSharedStep ==
    ASSUME SyncInv, NEW r \in Replicas, LoadShared(r)
    PROVE  SyncInv'
  <1> DEFINE none == [d \in Deployments |-> NoMarker]
             view == Merge(none, doc, 0)
             x == [at |-> "apply", now |-> 0,
                   todo |-> [d \in Deployments |-> DeadlineFor(r, view[d])]]
  <1>1. state' \in [Replicas -> [Deployments -> HealthEntries]] /\ UNCHANGED <<doc, calm>>
    BY DEF LoadShared, SyncInv, TypeOK, HealthEntries
  <1>2. 0 \in - MaxLag..0 /\ none \in Documents /\ doc \in Documents
    BY NoMarkerType, SMTT(30) DEF MaxLag, Documents, SyncInv, TypeOK
  <1>3. view \in Documents
    BY <1>2, MergeType
  <1> HIDE DEF view
  <1>4. \A d \in Deployments : DeadlineFor(r, view[d]) \in -2..MaxCooldown
    BY <1>3, SyncAssumption, SMTT(30) DEF Documents, Markers, DeadlineFor, NoDeadline, MaxLag
  <1>5. x \in Rounds /\ x.at # "swap"
    BY <1>2, <1>4 DEF Rounds
  <1>6. CASE round' = [round EXCEPT ![r] = x]
    BY <1>1, <1>5, <1>6, RoundChanges
  <1>7. CASE RoundFails(r)
    BY <1>1, <1>7, OffType, RoundChanges DEF RoundFails
  <1>8. QED
    BY <1>6, <1>7 DEF LoadShared, view

(* Applying a marker changes the manager only.                             *)
LEMMA ApplyEntryStep ==
    ASSUME SyncInv, NEW r \in Replicas, NEW d \in Deployments, ApplyEntry(r, d)
    PROVE  SyncInv'
  <1>1. /\ round[r] \in [at : {"apply"}, now : - MaxLag..0, todo : [Deployments -> -2..MaxCooldown]]
        /\ state \in [Replicas -> [Deployments -> HealthEntries]]
    BY SMTT(30) DEF ApplyEntry, SyncInv, TypeOK, Rounds, Off, HealthEntries
  <1> DEFINE x == [round[r] EXCEPT !.todo[d] = NoDeadline]
             u == round[r].todo[d]
  <1>2. x \in Rounds /\ x.at # "swap"
    BY <1>1, SyncAssumption, SMTT(30) DEF Rounds, NoDeadline, MaxLag
  <1>3. AfterApplySharedCooldown(state[r][d], u) \in HealthEntries
    <2>1. state[r][d] \in HealthEntries /\ u \in Int
      BY <1>1, SyncAssumption, SMTT(30)
    <2>2. QED
      BY <2>1, HealthOperatorsType
  <1>4. state' \in [Replicas -> [Deployments -> HealthEntries]]
    BY <1>1, <1>3 DEF ApplyEntry
  <1>5. round' = [round EXCEPT ![r] = x] /\ UNCHANGED <<doc, calm>>
    BY DEF ApplyEntry
  <1> HIDE DEF x
  <1>6. QED
    BY <1>2, <1>4, <1>5, RoundChanges

(* What a replica collects is within the cap.                              *)
LEMMA CollectStep ==
    ASSUME SyncInv, NEW r \in Replicas, Collect(r)
    PROVE  SyncInv'
  <1> DEFINE snapshot == [d \in Deployments |-> normalizeGlobal(state[r][d])]
             local == [d \in Deployments |-> NormalizeEntry(LocalMarker(r, snapshot[d]), 0)]
             x == [at |-> "load", now |-> 0, tries |-> 0, local |-> local]
  <1>1. state \in [Replicas -> [Deployments -> HealthEntries]]
    BY DEF SyncInv, TypeOK, HealthEntries
  <1>2. snapshot \in [Deployments -> HealthEntries]
    BY <1>1, HealthOperatorsType, SMTT(30)
  <1>3. state' \in [Replicas -> [Deployments -> HealthEntries]]
    BY <1>1, <1>2 DEF Collect
  <1>4. \A d \in Deployments : NormalizeEntry(LocalMarker(r, snapshot[d]), 0) \in Markers
    <2> SUFFICES ASSUME NEW d \in Deployments
                 PROVE  NormalizeEntry(LocalMarker(r, snapshot[d]), 0) \in Markers
      OBVIOUS
    <2>1. snapshot[d] \in HealthEntries
      BY <1>2
    <2> HIDE DEF snapshot
    <2>2. LocalMarker(r, snapshot[d]) \in
            [status : {NoStatus, Cooldown, Retired}, until : Int,
             origin : Replicas \cup {NoReplica}]
      BY <2>1, SMTT(30) DEF LocalMarker, HealthEntries, Marker, NoMarker, NoDeadline
    <2>3. 0 \in - MaxLag..0
      BY SMTT(30) DEF MaxLag
    <2>4. QED
      BY <2>2, <2>3, NormalizeEntryType
  <1>5. local \in Documents
    BY <1>4 DEF Documents
  <1>6. round' = [round EXCEPT ![r] = x] /\ UNCHANGED <<doc, calm>>
    BY DEF Collect
  <1> HIDE DEF local
  <1>7. x \in Rounds /\ x.at # "swap"
    BY <1>5, SyncAssumption, SMTT(30) DEF Rounds, MaxLag
  <1> HIDE DEF x
  <1>8. QED
    BY <1>3, <1>6, <1>7, RoundChanges

(* What a replica intends to write covers the document it has just loaded. *)
LEMMA PublishLoadStep ==
    ASSUME SyncInv, NEW r \in Replicas, PublishLoad(r)
    PROVE  SyncInv'
  <1> DEFINE merged == Merge(doc, round[r].local, round[r].now)
             x == [at |-> "swap", now |-> round[r].now, tries |-> round[r].tries,
                   local |-> round[r].local, merged |-> merged, current |-> TRUE]
  <1>1. /\ state' \in [Replicas -> [Deployments -> HealthEntries]]
        /\ UNCHANGED <<doc, calm>> /\ doc \in Documents
    BY DEF PublishLoad, SyncInv, TypeOK, HealthEntries
  <1>2. round[r] \in [at : {"load"}, now : - MaxLag..0, tries : 0..Retries, local : Documents]
    BY SMTT(30) DEF PublishLoad, SyncInv, TypeOK, Rounds, Off
  <1>3. merged \in Documents /\ Covers(merged, doc, round[r].now)
    BY <1>1, <1>2, MergeType, MergeCovers
  <1>4. \/ round' = [round EXCEPT ![r] = x]
        \/ round' = [round EXCEPT ![r] = Off]
    BY DEF PublishLoad, RoundFails
  <1> HIDE DEF merged
  <1>5. x \in Rounds
    BY <1>2, <1>3 DEF Rounds
  <1>6. Covers(x.merged, doc, x.now)
    BY <1>3
  <1> HIDE DEF x
  <1>7. QED
    BY <1>1, <1>4, <1>5, <1>6, OffType, RoundChanges

(* A write leaves no other replica with a current load. *)
LEMMA WriteStep ==
    ASSUME SyncInv, NEW r \in Replicas, round[r].at = "swap",
           doc' = round[r].merged, round' = Outdated([round EXCEPT ![r] = Off]),
           UNCHANGED <<state, calm>>
    PROVE  SyncInv'
  <1>1. round[r].merged \in Documents
    BY SMTT(30) DEF SyncInv, TypeOK, Rounds, Off
  <1> DEFINE rounds == [round EXCEPT ![r] = Off]
  <1>2. rounds \in [Replicas -> Rounds]
    BY OffType DEF SyncInv, TypeOK
  <1> HIDE DEF rounds
  <1>3. \A q \in Replicas : rounds[q].at = "swap" =>
            /\ [rounds[q] EXCEPT !.current = FALSE] \in Rounds
            /\ [rounds[q] EXCEPT !.current = FALSE].current = FALSE
    <2> SUFFICES ASSUME NEW q \in Replicas, rounds[q].at = "swap"
                 PROVE  /\ [rounds[q] EXCEPT !.current = FALSE] \in Rounds
                        /\ [rounds[q] EXCEPT !.current = FALSE].current = FALSE
      OBVIOUS
    <2>1. rounds[q] \in SwapRounds
      BY <1>2, SMTT(30) DEF Rounds, SwapRounds, Off
    <2>2. \A w \in SwapRounds : /\ [w EXCEPT !.current = FALSE] \in SwapRounds
                                /\ [w EXCEPT !.current = FALSE].current = FALSE
      BY DEF SwapRounds
    <2>3. SwapRounds \subseteq Rounds
      BY DEF SwapRounds, Rounds
    <2>4. QED
      BY <2>1, <2>2, <2>3
  <1>4. /\ round' \in [Replicas -> Rounds]
        /\ \A q \in Replicas : round'[q].at = "swap" => ~round'[q].current
    <2>1. round' = Outdated(rounds)
      BY DEF rounds
    <2>2. QED
      BY <1>2, <1>3, <2>1, ZenonT(40) DEF Outdated
  <1>5. TypeOK'
    BY <1>1, <1>4 DEF SyncInv, TypeOK
  <1>6. CurrentCovers'
    BY <1>4 DEF CurrentCovers
  <1>7. QED
    BY <1>5, <1>6 DEF SyncInv

(* The three outcomes of the compare-and-swap.                             *)
LEMMA SwapStep ==
    ASSUME SyncInv, NEW r \in Replicas, Swap(r) \/ SwapConflict(r) \/ SwapError(r)
    PROVE  SyncInv'
  <1>1. CASE Swap(r)
    BY <1>1, WriteStep DEF Swap
  <1>2. CASE SwapConflict(r)
    <2> DEFINE x == IF round[r].tries = Retries THEN Off
                    ELSE [at |-> "load", now |-> round[r].now,
                          tries |-> round[r].tries + 1, local |-> round[r].local]
    <2>1. round[r] \in [at : {"swap"}, now : - MaxLag..0, tries : 0..Retries,
                        local : Documents, merged : Documents, current : BOOLEAN]
      BY <1>2, SMTT(30) DEF SwapConflict, SyncInv, TypeOK, Rounds, Off
    <2>2. x \in Rounds /\ x.at # "swap"
      BY <2>1, OffType, SyncAssumption, SMTT(30) DEF Rounds
    <2>3. /\ round' = [round EXCEPT ![r] = x] /\ UNCHANGED <<doc, calm>>
          /\ state' \in [Replicas -> [Deployments -> HealthEntries]]
      BY <1>2 DEF SwapConflict, SyncInv, TypeOK, HealthEntries
    <2> HIDE DEF x
    <2>4. QED
      BY <2>2, <2>3, RoundChanges
  <1>3. CASE SwapError(r)
    <2>1. CASE round' = [round EXCEPT ![r] = Off] /\ UNCHANGED doc
      <3>1. /\ UNCHANGED <<doc, calm>>
            /\ state' \in [Replicas -> [Deployments -> HealthEntries]]
        BY <1>3, <2>1 DEF SwapError, SyncInv, TypeOK, HealthEntries
      <3>2. QED
        BY <2>1, <3>1, OffType, RoundChanges
    <2>2. CASE doc' = round[r].merged /\ round' = Outdated([round EXCEPT ![r] = Off])
      BY <1>3, <2>2, WriteStep DEF SwapError
    <2>3. QED
      BY <1>3, <2>1, <2>2 DEF SwapError
  <1>4. QED
    BY <1>1, <1>2, <1>3

(* Incidents, successes and reloads of one replica.                        *)
LEMMA LocalStep ==
    ASSUME SyncInv, NEW r \in Replicas, NEW d \in Deployments,
           LocalCooldown(r, d) \/ LocalRetire(r, d) \/ LocalSuccess(r, d) \/ LocalInvalidate(r, d)
    PROVE  SyncInv'
  <1>1. state[r][d] \in HealthEntries
    BY DEF SyncInv, TypeOK, HealthEntries
  <1>2. CASE LocalCooldown(r, d)
    <2>1. PICK n \in Durations : Become(r, d, AfterEnterCooldown(state[r][d], n))
      BY <1>2 DEF LocalCooldown
    <2>2. n \in Int
      BY SyncAssumption, SMTT(30)
    <2>3. AfterEnterCooldown(state[r][d], n) \in HealthEntries
      BY <1>1, <2>2, HealthOperatorsType
    <2>4. QED
      BY <2>1, <2>3, ManagerChanges
  <1>3. 0 \in Int
    BY SMTT(30)
  <1>4. /\ AfterRetire(state[r][d]) \in HealthEntries
        /\ AfterRecordSuccess(state[r][d]) \in HealthEntries
        /\ Invalidated \in HealthEntries
    BY <1>1, <1>3, HealthOperatorsType
  <1>5. CASE LocalRetire(r, d) \/ LocalSuccess(r, d) \/ LocalInvalidate(r, d)
    BY <1>4, <1>5, ManagerChanges DEF LocalRetire, LocalSuccess, LocalInvalidate
  <1>6. QED
    BY <1>2, <1>5

(* A restart forgets the manager and the round.                            *)
LEMMA RestartStep ==
    ASSUME SyncInv, NEW r \in Replicas, Restart(r)
    PROVE  SyncInv'
  <1>1. NoEntry \in HealthEntries
    BY FailCapAssumption, SMTT(30) DEF NoEntry, Entry, HealthEntries, Status, NoDeadline
  <1>2. state' \in [Replicas -> [Deployments -> HealthEntries]]
    BY <1>1 DEF Restart, SyncInv, TypeOK, HealthEntries
  <1>3. round' = [round EXCEPT ![r] = Off] /\ UNCHANGED <<doc, calm>>
    BY DEF Restart
  <1>4. QED
    BY <1>2, <1>3, OffType, RoundChanges

(* A tick ages the document and every copy of it alike. *)
LEMMA AgedRoundType ==
    ASSUME NEW w \in Rounds, w.at # "off" => w.now > - MaxLag
    PROVE  /\ AgedRound(w) \in Rounds /\ AgedRound(w).at = w.at
           /\ w.at = "swap" => /\ AgedRound(w).current = w.current
                               /\ AgedRound(w).now = w.now - 1
                               /\ AgedRound(w).merged = AgedMarkers(w.merged)
  <1>1. CASE w = Off
    BY <1>1, OffType DEF AgedRound, Off
  <1>2. CASE w \in [at : {"apply"}, now : - MaxLag..0, todo : [Deployments -> -2..MaxCooldown]]
    <2> DEFINE x == [w EXCEPT !.now = @ - 1, !.todo = [d \in Deployments |-> Ticked(@[d])]]
    <2>1. AgedRound(w) = x
      BY <1>2 DEF AgedRound
    <2>2. w.now - 1 \in - MaxLag..0
      BY <1>2, SMTT(30) DEF MaxLag
    <2>3. \A d \in Deployments : Ticked(w.todo[d]) \in -2..MaxCooldown
      BY <1>2, SyncAssumption, SMTT(30) DEF Ticked
    <2>4. x \in [at : {"apply"}, now : - MaxLag..0, todo : [Deployments -> -2..MaxCooldown]]
          /\ x.at = w.at
      BY <1>2, <2>2, <2>3
    <2>5. QED
      BY <1>2, <2>1, <2>4 DEF Rounds
  <1>3. CASE w \in [at : {"load"}, now : - MaxLag..0, tries : 0..Retries, local : Documents]
    <2> DEFINE x == [w EXCEPT !.now = @ - 1, !.local = AgedMarkers(@)]
    <2>1. AgedRound(w) = x
      BY <1>3 DEF AgedRound
    <2>2. w.now - 1 \in - MaxLag..0
      BY <1>3, SMTT(30) DEF MaxLag
    <2>3. AgedMarkers(w.local) \in Documents
      BY <1>3, AgedMarkersType
    <2>4. x \in [at : {"load"}, now : - MaxLag..0, tries : 0..Retries, local : Documents]
          /\ x.at = w.at
      BY <1>3, <2>2, <2>3
    <2>5. QED
      BY <1>3, <2>1, <2>4 DEF Rounds
  <1>4. CASE w \in SwapRounds
    <2> DEFINE x == [w EXCEPT !.now = @ - 1, !.local = AgedMarkers(@), !.merged = AgedMarkers(@)]
    <2>1. AgedRound(w) = x
      BY <1>4 DEF AgedRound, SwapRounds
    <2>2. w.now - 1 \in - MaxLag..0
      BY <1>4, SMTT(30) DEF MaxLag, SwapRounds
    <2>3. AgedMarkers(w.local) \in Documents /\ AgedMarkers(w.merged) \in Documents
      BY <1>4, AgedMarkersType DEF SwapRounds
    <2>4. x \in SwapRounds
      BY <1>4, <2>2, <2>3 DEF SwapRounds
    <2>5. /\ x.at = w.at /\ x.current = w.current /\ x.now = w.now - 1
          /\ x.merged = AgedMarkers(w.merged)
      BY <1>4 DEF SwapRounds
    <2>6. SwapRounds \subseteq Rounds
      BY DEF SwapRounds, Rounds
    <2> HIDE DEF x
    <2>7. QED
      BY <2>1, <2>4, <2>5, <2>6
  <1>5. QED
    BY <1>1, <1>2, <1>3, <1>4 DEF Rounds, SwapRounds

(* Time passing on both sides keeps the pending writes covering.            *)
LEMMA TickStep ==
    ASSUME SyncInv, Tick
    PROVE  SyncInv'
  <1>1. /\ state \in [Replicas -> [Deployments -> HealthEntries]]
        /\ doc \in Documents /\ round \in [Replicas -> Rounds]
    BY DEF SyncInv, TypeOK, HealthEntries
  <1>2. \A r \in Replicas, d \in Deployments : Aged(state[r][d]) \in HealthEntries
    <2> SUFFICES ASSUME NEW r \in Replicas, NEW d \in Deployments
                 PROVE  Aged(state[r][d]) \in HealthEntries
      OBVIOUS
    <2>1. state[r][d] \in HealthEntries /\ 0 \in Int
      BY <1>1, SMTT(30)
    <2>2. QED
      BY <2>1, HealthOperatorsType
  <1>3. state' \in [Replicas -> [Deployments -> HealthEntries]]
    BY <1>2 DEF Tick
  <1>4. doc' = AgedMarkers(doc) /\ doc' \in Documents
    BY <1>1, AgedMarkersType DEF Tick
  <1>5. \A r \in Replicas :
           /\ round'[r] = AgedRound(round[r])
           /\ AgedRound(round[r]) \in Rounds /\ AgedRound(round[r]).at = round[r].at
           /\ round[r].at = "swap" =>
                 /\ round[r].now > - MaxLag
                 /\ AgedRound(round[r]).current = round[r].current
                 /\ AgedRound(round[r]).now = round[r].now - 1
                 /\ AgedRound(round[r]).merged = AgedMarkers(round[r].merged)
    BY <1>1, AgedRoundType DEF Tick
  <1>6. round' \in [Replicas -> Rounds]
    BY <1>5 DEF Tick
  <1>7. TypeOK'
    BY <1>3, <1>4, <1>6 DEF Tick, SyncInv, TypeOK, HealthEntries
  <1>8. CurrentCovers'
    <2> SUFFICES ASSUME NEW r \in Replicas, round'[r].at = "swap", round'[r].current
                 PROVE  Covers(round'[r].merged, doc', round'[r].now)
      BY DEF CurrentCovers, Covers
    <2>1. /\ round[r].at = "swap" /\ round[r].current /\ round[r].now > - MaxLag
          /\ round'[r].now = round[r].now - 1
          /\ round'[r].merged = AgedMarkers(round[r].merged)
      BY <1>5
    <2>2. round[r].merged \in Documents /\ round[r].now \in - MaxLag..0
      BY <1>1, <2>1, SMTT(30) DEF Rounds, Off
    <2>3. Covers(round[r].merged, doc, round[r].now)
      BY <2>1 DEF SyncInv, CurrentCovers
    <2>4. Covers(AgedMarkers(round[r].merged), AgedMarkers(doc), round[r].now - 1)
      BY <1>1, <2>1, <2>2, <2>3, AgedMarkersCover
    <2>5. QED
      BY <1>4, <2>1, <2>4
  <1>9. QED
    BY <1>7, <1>8 DEF SyncInv

----------------------------------------------------------------------------
(* The invariant holds at the start ...                                    *)
LEMMA SyncInvInit == Init => SyncInv
  <1> SUFFICES ASSUME Init PROVE SyncInv
    OBVIOUS
  <1>1. NoEntry \in HealthEntries
    BY FailCapAssumption, SMTT(30) DEF NoEntry, Entry, HealthEntries, Status, NoDeadline
  <1>2. TypeOK
    BY <1>1, NoMarkerType, OffType DEF Init, TypeOK, HealthEntries, Documents
  <1>3. CurrentCovers
    BY OffType DEF Init, CurrentCovers
  <1>4. QED
    BY <1>2, <1>3 DEF SyncInv

(* ... and every step keeps it.                                            *)
LEMMA SyncInvStep == SyncInv /\ [Next]_syncVars => SyncInv'
  <1> SUFFICES ASSUME SyncInv, [Next]_syncVars PROVE SyncInv'
    OBVIOUS
  <1>1. ASSUME NEW r \in Replicas, RoundStep(r) PROVE SyncInv'
    BY <1>1, LoadSharedStep, ApplyEntryStep, CollectStep, PublishLoadStep, SwapStep DEF RoundStep
  <1>2. ASSUME NEW r \in Replicas, Restart(r) PROVE SyncInv'
    BY <1>2, RestartStep
  <1>3. ASSUME NEW r \in Replicas, NEW d \in Deployments,
               LocalCooldown(r, d) \/ LocalRetire(r, d) \/ LocalSuccess(r, d) \/ LocalInvalidate(r, d)
        PROVE  SyncInv'
    BY <1>3, LocalStep
  <1>4. CASE CalmDown \/ UNCHANGED syncVars
    <2>1. UNCHANGED <<state, doc, round>> /\ calm' \in BOOLEAN
      BY <1>4 DEF CalmDown, syncVars, SyncInv, TypeOK
    <2>2. QED
      BY <2>1 DEF SyncInv, TypeOK, CurrentCovers, Covers
  <1>5. CASE Tick
    BY <1>5, TickStep
  <1>6. QED
    BY <1>1, <1>2, <1>3, <1>4, <1>5 DEF Next

(* Every deadline in or on its way to the shared document stays within the *)
(* cap and every publish within its retries, for any number of replicas.   *)
THEOREM SharedDeadlinesAreCapped == Spec => []TypeOK
  <1>1. SyncInv => TypeOK
    BY DEF SyncInv
  <1>2. QED
    BY <1>1, SyncInvInit, SyncInvStep, PTL DEF Spec

(* Concurrent publishes lose nothing: no step of any replica but the       *)
(* passing of time drops or shortens an active marker of the document      *)
(* beyond the cap as of the writer's clock reading.                        *)
THEOREM PublishesLoseNothing == Spec => MarkersSurvive
  <1> DEFINE Kept ==
        ~Tick => \A d \in Deployments :
            /\ doc[d].status = Retired => doc'[d].status = Retired
            /\ doc[d].status = Cooldown /\ Pending(doc[d].until)
               => \/ doc'[d].status = Retired
                  \/ /\ doc'[d].status = Cooldown
                     /\ doc'[d].until >= Least(doc[d].until, MaxCooldown - MaxLag)
  <1>1. SyncInv /\ [Next]_syncVars => [Kept]_syncVars
    <2> SUFFICES ASSUME SyncInv, Next, ~Tick PROVE Kept
      OBVIOUS
    <2>0. \A d \in Deployments : doc[d].until \in Int
      BY SyncAssumption, SMTT(30) DEF SyncInv, TypeOK, Documents, Markers
    <2>1. CASE UNCHANGED doc
      BY <2>0, <2>1, SyncAssumption, SMTT(30) DEF Least, MaxLag
    <2>2. ASSUME NEW r \in Replicas, round[r].at = "swap", round[r].current,
                 doc' = round[r].merged
          PROVE  Kept
      <3>1. Covers(round[r].merged, doc, round[r].now)
        BY <2>2 DEF SyncInv, CurrentCovers
      <3>2. round[r].now \in - MaxLag..0 /\ round[r].merged \in Documents
        BY <2>2, SMTT(30) DEF SyncInv, TypeOK, Rounds, Off
      <3>3. \A u, v \in Int : v >= Least(u, MaxCooldown + round[r].now)
                                => v >= Least(u, MaxCooldown - MaxLag)
        BY <3>2, SyncAssumption, SMTT(30) DEF Least, MaxLag
      <3>4. \A d \in Deployments : round[r].merged[d].until \in Int
        BY <3>2, SyncAssumption, SMTT(30) DEF Documents, Markers
      <3>5. QED
        BY <2>0, <2>2, <3>1, <3>3, <3>4 DEF Covers
    <2>3. UNCHANGED doc \/ \E r \in Replicas :
              round[r].at = "swap" /\ round[r].current /\ doc' = round[r].merged
      BY DEF Next, RoundStep, LoadShared, ApplyEntry, Collect, PublishLoad, Swap, SwapConflict,
             SwapError, Restart, LocalCooldown, LocalRetire, LocalSuccess, LocalInvalidate,
             Become, CalmDown
    <2>4. QED
      BY <2>1, <2>2, <2>3
  <1>2. QED
    BY <1>1, SyncInvInit, SyncInvStep, PTL DEF Spec, MarkersSurvive

----------------------------------------------------------------------------
(* Workflow *)
=============================================================================
