------------------------- MODULE RecoverySupervisor -------------------------
(***************************************************************************)
(* The bookkeeping of the recovery supervisor of internal/probe/engine.go. *)
(* A deployment under recovery is marked (Engine.recovering, with the      *)
(* generation of its task in recoveryGenerations), and exactly one task    *)
(* carries its recovery on: it waits in the bounded queue, in a worker, in *)
(* a timer, or in a goroutine on its way to the queue.  Marking and        *)
(* carrying are separate steps under different synchronisation, and while  *)
(* a deployment is marked every further Recover of it is suppressed: a     *)
(* mark without a task would switch its recovery off.                      *)
(*                                                                         *)
(* What a worker does with a task between taking it and giving it up is in *)
(* RecoveryEngine; here it ends in any of the ways the code allows.        *)
(*                                                                         *)
(* recoverySeq.  Generations and timer tokens come from a counter that     *)
(* only grows and are only compared for equality, so a fresh one is any    *)
(* number that no map and no task holds.                                   *)
(***************************************************************************)
EXTENDS Naturals, Sequences, FiniteSets

CONSTANTS
    Deployments,
    Workers,        \* the recovery worker goroutines
    QueueCap,       \* maxRecoveryQueue
    Seqs,           \* values of recoverySeq
    None,           \* no generation, no token
    Progress,       \* attempt and success counts a task carries
    FirstTry        \* the counts of a new task

ASSUME SupervisorAssumption ==
    /\ QueueCap \in Nat
    /\ None \notin Seqs
    /\ FirstTry \in Progress

VARIABLES
    gen,        \* recovering and recoveryGenerations: the marked generation
    token,      \* recoveryTimers and recoveryTokens: the pending timer
    hands,      \* tasks held by a goroutine on its way to the queue
    queue,      \* recoveryQueue
    worker,     \* what each worker holds and is about to do
    callbacks   \* armed timers, and timer functions that have started

supervisor == <<gen, token, hands, queue, worker, callbacks>>

Task == [id : Deployments, gen : Seqs, progress : Progress]

NoTask == [step |-> "idle"]

Holding ==
    [step : {"check", "work", "clear", "schedule", "enqueue", "send"}, task : Task]

SupervisorInit ==
    /\ gen = [d \in Deployments |-> None]
    /\ token = [d \in Deployments |-> None]
    /\ hands = {}
    /\ queue = << >>
    /\ worker = [w \in Workers |-> NoTask]
    /\ callbacks = {}

----------------------------------------------------------------------------
Busy == {w \in Workers : worker[w].step # "idle"}

Tasks ==
    {h.task : h \in hands} \cup {queue[i] : i \in 1..Len(queue)}
      \cup {worker[w].task : w \in Busy} \cup {c.task : c \in callbacks}

InUse ==
    {gen[d] : d \in Deployments} \cup {token[d] : d \in Deployments}
      \cup {t.gen : t \in Tasks} \cup {c.token : c \in callbacks}

FreshSeqs == Seqs \ InUse

NextSeq == CHOOSE n \in FreshSeqs : TRUE

isCurrentRecovery(t) == gen[t.id] = t.gen

(* The armed timers that timer.Stop still reaches. *)
Stoppable(d) == {c \in callbacks : ~c.started /\ c.task.id = d /\ c.token = token[d]}

clearRecoveryTask(t) ==
    IF isCurrentRecovery(t)
    THEN /\ gen' = [gen EXCEPT ![t.id] = None]
         /\ token' = [token EXCEPT ![t.id] = None]
         /\ callbacks' = callbacks \ Stoppable(t.id)
    ELSE UNCHANGED <<gen, token, callbacks>>

(* scheduleRecovery with a positive delay, all under recoveryMu. *)
scheduleRecovery(t) ==
    IF isCurrentRecovery(t)
    THEN /\ FreshSeqs # {}
         /\ token' = [token EXCEPT ![t.id] = NextSeq]
         /\ callbacks' = (callbacks \ Stoppable(t.id))
                           \cup {[task |-> t, token |-> NextSeq, started |-> FALSE]}
         /\ UNCHANGED gen
    ELSE UNCHANGED <<gen, token, callbacks>>

Hand(step, t) == [step |-> step, task |-> t]

----------------------------------------------------------------------------
(* Recover: mark the deployment, then hand a first task to the queue.  A   *)
(* deployment that is marked already is left alone.                        *)
Recover(d) ==
    /\ IF gen[d] = None
       THEN /\ FreshSeqs # {}
            /\ gen' = [gen EXCEPT ![d] = NextSeq]
            /\ hands' = hands \cup
                  {Hand("enqueue", [id |-> d, gen |-> NextSeq, progress |-> FirstTry])}
       ELSE UNCHANGED <<gen, hands>>
    /\ UNCHANGED <<token, queue, worker, callbacks>>

(* enqueueRecovery never blocks: a full queue sends the task back to be    *)
(* cleared.  Taken by Recover and by a timer function.                     *)
EnqueueWithin(h, room) ==
    /\ h \in hands /\ h.step = "enqueue"
    /\ IF room
       THEN /\ queue' = Append(queue, h.task)
            /\ hands' = hands \ {h}
       ELSE /\ hands' = (hands \ {h}) \cup {Hand("clear", h.task)}
            /\ UNCHANGED queue
    /\ UNCHANGED <<gen, token, worker, callbacks>>

(* Slip: a task that does not fit is dropped, its mark stays. *)
HandEnqueueOrDrop(h) ==
    /\ h \in hands /\ h.step = "enqueue"
    /\ queue' = IF Len(queue) < QueueCap THEN Append(queue, h.task) ELSE queue
    /\ hands' = hands \ {h}
    /\ UNCHANGED <<gen, token, worker, callbacks>>

HandEnqueue(h) == EnqueueWithin(h, Len(queue) < QueueCap)

HandClear(h) ==
    /\ h \in hands /\ h.step = "clear"
    /\ clearRecoveryTask(h.task)
    /\ hands' = hands \ {h}
    /\ UNCHANGED <<queue, worker>>

(* A timer expires: its function starts, out of reach of timer.Stop. *)
TimerStart(c) ==
    /\ c \in callbacks /\ ~c.started
    /\ callbacks' = (callbacks \ {c}) \cup {[c EXCEPT !.started = TRUE]}
    /\ UNCHANGED <<gen, token, hands, queue, worker>>

(* The timer function takes recoveryMu: it gives up when its task or its   *)
(* token is no longer the current one.                                     *)
TimerRun(c) ==
    /\ c \in callbacks /\ c.started
    /\ callbacks' = callbacks \ {c}
    /\ IF isCurrentRecovery(c.task) /\ token[c.task.id] = c.token
       THEN /\ token' = [token EXCEPT ![c.task.id] = None]
            /\ hands' = hands \cup {Hand("enqueue", c.task)}
       ELSE UNCHANGED <<token, hands>>
    /\ UNCHANGED <<gen, queue, worker>>

----------------------------------------------------------------------------
(* recoveryWorker: receive a task, drop it if it is not current. *)
TakeTask(w) ==
    /\ worker[w] = NoTask /\ queue # << >>
    /\ worker' = [worker EXCEPT ![w] = Hand("check", Head(queue))]
    /\ queue' = Tail(queue)
    /\ UNCHANGED <<gen, token, hands, callbacks>>

CheckTask(w) ==
    /\ worker[w].step = "check"
    /\ worker' = [worker EXCEPT ![w] =
           IF isCurrentRecovery(@.task) THEN Hand("work", @.task) ELSE NoTask]
    /\ UNCHANGED <<gen, token, hands, queue, callbacks>>

(* The ways processRecoveryTask ends: it clears the task, or schedules it  *)
(* again with new counts, after a delay or at once.  The delay-free path   *)
(* of scheduleRecovery looks at the generation first and enqueues after.   *)
(* Slip: an early return that forgets clearRecoveryTask.                   *)
GiveUpKeepsMark(w) ==
    /\ worker[w].step = "work"
    /\ worker' = [worker EXCEPT ![w] = NoTask]
    /\ UNCHANGED <<gen, token, hands, queue, callbacks>>

GiveUp(w) ==
    /\ worker[w].step = "work"
    /\ worker' = [worker EXCEPT ![w] = Hand("clear", @.task)]
    /\ UNCHANGED <<gen, token, hands, queue, callbacks>>

Again(w, p, delayed) ==
    /\ worker[w].step = "work"
    /\ worker' = [worker EXCEPT ![w] =
           Hand(IF delayed THEN "schedule" ELSE "enqueue", [@.task EXCEPT !.progress = p])]
    /\ UNCHANGED <<gen, token, hands, queue, callbacks>>

WorkerClear(w) ==
    /\ worker[w].step = "clear"
    /\ clearRecoveryTask(worker[w].task)
    /\ worker' = [worker EXCEPT ![w] = NoTask]
    /\ UNCHANGED <<hands, queue>>

WorkerSchedule(w) ==
    /\ worker[w].step = "schedule"
    /\ scheduleRecovery(worker[w].task)
    /\ worker' = [worker EXCEPT ![w] = NoTask]
    /\ UNCHANGED <<hands, queue>>

WorkerEnqueue(w) ==
    /\ worker[w].step = "enqueue"
    /\ worker' = [worker EXCEPT ![w] =
           IF isCurrentRecovery(@.task) THEN Hand("send", @.task) ELSE NoTask]
    /\ UNCHANGED <<gen, token, hands, queue, callbacks>>

(* Slip: the task is sent and scheduled as well. *)
WorkerSendTwice(w) ==
    /\ worker[w].step = "send" /\ Len(queue) < QueueCap
    /\ queue' = Append(queue, worker[w].task)
    /\ worker' = [worker EXCEPT ![w].step = "schedule"]
    /\ UNCHANGED <<gen, token, hands, callbacks>>

WorkerSend(w) ==
    /\ worker[w].step = "send"
    /\ IF Len(queue) < QueueCap
       THEN /\ queue' = Append(queue, worker[w].task)
            /\ worker' = [worker EXCEPT ![w] = NoTask]
       ELSE /\ worker' = [worker EXCEPT ![w] = Hand("clear", @.task)]
            /\ UNCHANGED queue
    /\ UNCHANGED <<gen, token, hands, callbacks>>

(* Reload with a strategy that has no supervisor, and shutdown. *)
cancelAllRecoveries ==
    /\ gen' = [d \in Deployments |-> None]
    /\ token' = [d \in Deployments |-> None]
    /\ callbacks' = callbacks \ UNION {Stoppable(d) : d \in Deployments}
    /\ UNCHANGED <<hands, queue, worker>>

SupervisorNext ==
    \/ \E d \in Deployments : Recover(d)
    \/ \E h \in hands : HandEnqueue(h) \/ HandClear(h)
    \/ \E c \in callbacks : TimerStart(c) \/ TimerRun(c)
    \/ \E w \in Workers :
         \/ TakeTask(w) \/ CheckTask(w) \/ GiveUp(w)
         \/ \E p \in Progress, delayed \in BOOLEAN : Again(w, p, delayed)
         \/ WorkerClear(w) \/ WorkerSchedule(w) \/ WorkerEnqueue(w) \/ WorkerSend(w)
    \/ cancelAllRecoveries

SupervisorSpec == SupervisorInit /\ [][SupervisorNext]_supervisor

----------------------------------------------------------------------------
(* Properties *)

(* Maps, queue, workers and timers hold generations, tokens and tasks, and *)
(* the queue respects its capacity.                                        *)
SupervisorTypeOK ==
    /\ gen \in [Deployments -> Seqs \cup {None}]
    /\ token \in [Deployments -> Seqs \cup {None}]
    /\ hands \subseteq [step : {"enqueue", "clear"}, task : Task]
    /\ queue \in Seq(Task) /\ Len(queue) <= QueueCap
    /\ worker \in [Workers -> Holding \cup {NoTask}]
    /\ callbacks \subseteq [task : Task, token : Seqs, started : BOOLEAN]

(* Where the tasks of generation g are. *)
Carriers(g) ==
    {<<"hand", h>> : h \in {h \in hands : h.task.gen = g}}
      \cup {<<"queue", i>> : i \in {i \in 1..Len(queue) : queue[i].gen = g}}
      \cup {<<"worker", w>> : w \in {w \in Busy : worker[w].task.gen = g}}
      \cup {<<"timer", c>> : c \in {c \in callbacks : c.task.gen = g}}

(* No recovery is switched off: a marked deployment always has a task of   *)
(* its generation somewhere, and if that task waits in a timer it is the   *)
(* timer the deployment's token names, so that it will be let through.     *)
MarkedHasCarrier ==
    \A d \in Deployments : gen[d] # None =>
        /\ Carriers(gen[d]) # {}
        /\ \A c \in callbacks : c.task.gen = gen[d] => c.token = token[d]

(* "Duplicate queued/active/delayed recovery for the same deployment is    *)
(* suppressed": no generation is ever carried by two tasks.                *)
OneCarrier == \A g \in Seqs : \A a, b \in Carriers(g) : a = b

(* A pending timer in the maps belongs to the recovery that is under way:  *)
(* clearing and cancelling leave no timer behind that could enqueue a task *)
(* of a later generation.                                                  *)
TimerBelongsToMark ==
    \A d \in Deployments : token[d] # None =>
        \E c \in callbacks : c.task.id = d /\ c.task.gen = gen[d] /\ c.token = token[d]

============================================================================
