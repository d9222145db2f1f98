--------------------- MODULE RecoverySupervisorProofs ---------------------
(***************************************************************************)
(* Proofs about RecoverySupervisor, for any deployments, workers, queue    *)
(* capacity and any number of recoveries under way.                        *)
(*                                                                         *)
(* Neither MarkedHasCarrier nor OneCarrier is inductive.  That dropping a  *)
(* task that is not current cannot take the carrier of a mark away needs   *)
(* that a task of a marked generation belongs to the marked deployment     *)
(* (OwnGeneration); that a timer is let through needs the token part of    *)
(* MarkedHasCarrier; and that a new mark starts without a timer needs      *)
(* TimerBelongsToMark.  The invariant is the conjunction, with the set of  *)
(* carriers spelled out by place.                                          *)
(***************************************************************************)
EXTENDS RecoverySupervisor, TLAPS

(* Zenon proves the steps that name no prover; those with arithmetic or *)
(* records name SMT.                                                    *)
USE ZenonT(30)

Indices == 1..Len(queue)

(* No two tasks in one place have the same generation ... *)
ApartInPlace ==
    /\ \A h, k \in hands : h.task.gen = k.task.gen => h = k
    /\ \A i, j \in Indices : queue[i].gen = queue[j].gen => i = j
    /\ \A v, w \in Busy : worker[v].task.gen = worker[w].task.gen => v = w
    /\ \A c, e \in callbacks : c.task.gen = e.task.gen => c = e

(* ... nor do two tasks in different places. *)
ApartAcross ==
    /\ \A h \in hands, i \in Indices : h.task.gen # queue[i].gen
    /\ \A h \in hands, w \in Busy : h.task.gen # worker[w].task.gen
    /\ \A h \in hands, c \in callbacks : h.task.gen # c.task.gen
    /\ \A i \in Indices, w \in Busy : queue[i].gen # worker[w].task.gen
    /\ \A i \in Indices, c \in callbacks : queue[i].gen # c.task.gen
    /\ \A w \in Busy, c \in callbacks : worker[w].task.gen # c.task.gen

(* Some task has generation g. *)
Carried(g) ==
    \/ \E h \in hands : h.task.gen = g
    \/ \E i \in Indices : queue[i].gen = g
    \/ \E w \in Busy : worker[w].task.gen = g
    \/ \E c \in callbacks : c.task.gen = g

MarkCarried == \A d \in Deployments : gen[d] # None => Carried(gen[d])

(* A timer with the generation of a mark is the one the token names. *)
TimerIsLetThrough ==
    \A d \in Deployments : \A c \in callbacks :
        gen[d] # None /\ c.task.gen = gen[d] => c.token = token[d]

(* A task with the generation of a mark belongs to the marked deployment. *)
OwnGeneration ==
    \A d \in Deployments :
        /\ \A h \in hands : h.task.gen = gen[d] => h.task.id = d
        /\ \A i \in Indices : queue[i].gen = gen[d] => queue[i].id = d
        /\ \A w \in Busy : worker[w].task.gen = gen[d] => worker[w].task.id = d
        /\ \A c \in callbacks : c.task.gen = gen[d] => c.task.id = d

SupervisorInv ==
    /\ SupervisorTypeOK
    /\ ApartInPlace /\ ApartAcross
    /\ MarkCarried /\ TimerIsLetThrough
    /\ TimerBelongsToMark
    /\ OwnGeneration

----------------------------------------------------------------------------
(* The spelled-out invariant gives the properties of RecoverySupervisor:   *)
(* the carriers of a generation, tagged by place, are at most one, and at  *)
(* least one when the generation is marked.                                *)
LEMMA InvImpliesOneCarrier == SupervisorInv => OneCarrier
  <1> SUFFICES ASSUME SupervisorInv, NEW g \in Seqs,
                      NEW a \in Carriers(g), NEW b \in Carriers(g)
               PROVE  a = b
    BY DEF OneCarrier
  <1> USE DEF SupervisorInv, ApartInPlace, ApartAcross, Indices
  <1>1. CASE \E h \in hands : h.task.gen = g /\ a = <<"hand", h>>
    BY <1>1, SMTT(30) DEF Carriers
  <1>2. CASE \E i \in 1..Len(queue) : queue[i].gen = g /\ a = <<"queue", i>>
    BY <1>2, SMTT(30) DEF Carriers
  <1>3. CASE \E w \in Busy : worker[w].task.gen = g /\ a = <<"worker", w>>
    BY <1>3, SMTT(30) DEF Carriers
  <1>4. CASE \E c \in callbacks : c.task.gen = g /\ a = <<"timer", c>>
    BY <1>4, SMTT(30) DEF Carriers
  <1>5. QED
    BY <1>1, <1>2, <1>3, <1>4 DEF Carriers

(* A marked generation is carried, so it has a carrier, and its timer has  *)
(* the token of the maps.                                                  *)
LEMMA InvImpliesMarkedHasCarrier == SupervisorInv => MarkedHasCarrier
  <1> SUFFICES ASSUME SupervisorInv, NEW d \in Deployments, gen[d] # None
               PROVE  /\ Carriers(gen[d]) # {}
                      /\ \A c \in callbacks : c.task.gen = gen[d] => c.token = token[d]
    BY DEF MarkedHasCarrier
  <1>1. Carried(gen[d])
    BY DEF SupervisorInv, MarkCarried
  <1>2. Carriers(gen[d]) # {}
    BY <1>1 DEF Carried, Carriers, Indices
  <1>3. QED
    BY <1>2 DEF SupervisorInv, TimerIsLetThrough

----------------------------------------------------------------------------
(* Facts about single states *)

(* A fresh number is in no map and no task. *)
LEMMA FreshIsUnused ==
    ASSUME FreshSeqs # {}
    PROVE  /\ NextSeq \in Seqs
           /\ \A d \in Deployments : gen[d] # NextSeq /\ token[d] # NextSeq
           /\ \A h \in hands : h.task.gen # NextSeq
           /\ \A i \in Indices : queue[i].gen # NextSeq
           /\ \A w \in Busy : worker[w].task.gen # NextSeq
           /\ \A c \in callbacks : c.task.gen # NextSeq /\ c.token # NextSeq
  <1> DEFINE n == NextSeq
  <1>1. n \in Seqs /\ n \notin InUse
    BY DEF NextSeq, FreshSeqs
  <1> HIDE DEF n
  <1>2. QED
    BY <1>1 DEF InUse, Tasks, Indices, n

(* Without a mark there is no token: the timer of a token would carry the  *)
(* generation None.                                                        *)
LEMMA UnmarkedHasNoToken ==
    ASSUME SupervisorInv, NEW d \in Deployments, gen[d] = None
    PROVE  token[d] = None
  BY SupervisorAssumption DEF SupervisorInv, TimerBelongsToMark, SupervisorTypeOK, Task

(* Every task is of type Task, and its generation is a number. *)
LEMMA TasksAreTyped ==
    ASSUME SupervisorTypeOK
    PROVE  /\ \A h \in hands : h.task \in Task /\ h.task.gen \in Seqs
           /\ \A i \in Indices : queue[i] \in Task /\ queue[i].gen \in Seqs
           /\ \A w \in Busy : worker[w].task \in Task /\ worker[w].task.gen \in Seqs
           /\ \A c \in callbacks : c.task \in Task /\ c.task.gen \in Seqs
  <1>1. \A h \in hands : h.task \in Task
    BY DEF SupervisorTypeOK
  <1>2. \A i \in Indices : queue[i] \in Task
    BY SMTT(30) DEF SupervisorTypeOK, Indices
  <1>3. \A w \in Busy : worker[w].task \in Task
    BY SMTT(30) DEF SupervisorTypeOK, Busy, Holding, NoTask
  <1>4. \A c \in callbacks : c.task \in Task
    BY DEF SupervisorTypeOK
  <1>5. \A t \in Task : t.gen \in Seqs
    BY DEF Task
  <1>6. QED
    BY <1>1, <1>2, <1>3, <1>4, <1>5

(* clearRecoveryTask takes away at most the mark of its own generation,    *)
(* with its token and timer, and leaves every other mark what it has.      *)
LEMMA ClearSparesOthers ==
    ASSUME SupervisorInv, NEW t \in Task, clearRecoveryTask(t),
           \A d \in Deployments : gen[d] = t.gen => t.id = d
    PROVE  /\ gen' \in [Deployments -> Seqs \cup {None}]
           /\ token' \in [Deployments -> Seqs \cup {None}]
           /\ callbacks' \subseteq callbacks
           /\ \A d \in Deployments : gen'[d] # None =>
                 gen'[d] = gen[d] /\ token'[d] = token[d] /\ gen[d] # t.gen
           /\ \A d \in Deployments : gen'[d] = None => token'[d] = None
           /\ \A d \in Deployments : \A c \in callbacks :
                 gen'[d] # None /\ c.task.id = d => c \in callbacks'
  <1> USE SupervisorAssumption DEF SupervisorInv, SupervisorTypeOK
  <1>0. t.id \in Deployments /\ t.gen \in Seqs
    BY DEF Task
  <1>1. CASE isCurrentRecovery(t)
    <2>1. /\ gen' = [gen EXCEPT ![t.id] = None]
          /\ token' = [token EXCEPT ![t.id] = None]
          /\ callbacks' = callbacks \ Stoppable(t.id)
      BY <1>1 DEF clearRecoveryTask
    <2>2. \A d \in Deployments : d # t.id => gen[d] # t.gen
      OBVIOUS
    <2>3. QED
      BY <1>0, <2>1, <2>2, UnmarkedHasNoToken DEF Stoppable
  <1>2. CASE ~isCurrentRecovery(t)
    <2>1. UNCHANGED <<gen, token, callbacks>>
      BY <1>2 DEF clearRecoveryTask
    <2>2. \A d \in Deployments : gen[d] # t.gen
      BY <1>2 DEF isCurrentRecovery
    <2>3. QED
      BY <2>1, <2>2, UnmarkedHasNoToken
  <1>3. QED
    BY <1>1, <1>2

----------------------------------------------------------------------------
(* One lemma per action *)

(* A worker that drops a task drops one no mark needs: by OwnGeneration a  *)
(* task of a marked generation is current.                                 *)
LEMMA CheckTaskStep ==
    ASSUME SupervisorInv, NEW w \in Workers, CheckTask(w)
    PROVE  SupervisorInv'
  <1> USE SupervisorAssumption DEF SupervisorInv, CheckTask, isCurrentRecovery, SupervisorTypeOK, Indices, Busy, Task, Holding, NoTask, Hand
  <1>1. SupervisorTypeOK'
    BY SMTT(30) DEF SupervisorTypeOK
  <1>2. ApartInPlace'
    BY SMTT(30) DEF ApartInPlace, ApartAcross
  <1>3. ApartAcross'
    BY SMTT(30) DEF ApartInPlace, ApartAcross
  <1>4. MarkCarried'
    BY SMTT(30) DEF MarkCarried, Carried, OwnGeneration
  <1>5. TimerIsLetThrough'
    BY SMTT(30) DEF TimerIsLetThrough, ApartInPlace, ApartAcross, OwnGeneration
  <1>6. TimerBelongsToMark'
    BY SMTT(30) DEF TimerBelongsToMark, OwnGeneration
  <1>7. OwnGeneration'
    BY SMTT(30) DEF OwnGeneration
  <1>8. QED
    BY <1>1, <1>2, <1>3, <1>4, <1>5, <1>6, <1>7

(* Deciding to give a task up leaves it where it is.                       *)
LEMMA GiveUpStep ==
    ASSUME SupervisorInv, NEW w \in Workers, GiveUp(w)
    PROVE  SupervisorInv'
  <1> USE SupervisorAssumption DEF SupervisorInv, GiveUp, SupervisorTypeOK, Indices, Busy, Task, Holding, NoTask, Hand
  <1>1. SupervisorTypeOK'
    BY SMTT(30) DEF SupervisorTypeOK
  <1>2. ApartInPlace'
    BY SMTT(30) DEF ApartInPlace, ApartAcross
  <1>3. ApartAcross'
    BY SMTT(30) DEF ApartInPlace, ApartAcross
  <1>4. MarkCarried'
    BY SMTT(30) DEF MarkCarried, Carried, OwnGeneration
  <1>5. TimerIsLetThrough'
    BY SMTT(30) DEF TimerIsLetThrough, ApartInPlace, ApartAcross, OwnGeneration
  <1>6. TimerBelongsToMark'
    BY SMTT(30) DEF TimerBelongsToMark, OwnGeneration
  <1>7. OwnGeneration'
    BY SMTT(30) DEF OwnGeneration
  <1>8. QED
    BY <1>1, <1>2, <1>3, <1>4, <1>5, <1>6, <1>7

(* New counts leave a task its deployment and generation.                  *)
LEMMA AgainStep ==
    ASSUME SupervisorInv, NEW w \in Workers, NEW p \in Progress, NEW delayed \in BOOLEAN, Again(w, p, delayed)
    PROVE  SupervisorInv'
  <1> USE SupervisorAssumption DEF SupervisorInv, Again, SupervisorTypeOK, Indices, Busy, Task, Holding, NoTask, Hand
  <1>0. /\ w \in Busy /\ worker[w].task \in Task
        /\ [worker[w].task EXCEPT !.progress = p] \in Task
        /\ [worker[w].task EXCEPT !.progress = p].gen = worker[w].task.gen
        /\ [worker[w].task EXCEPT !.progress = p].id = worker[w].task.id
    BY SMTT(30)
  <1>1. SupervisorTypeOK'
    BY <1>0 DEF SupervisorTypeOK
  <1>2. ApartInPlace'
    BY <1>0, SMTT(30) DEF ApartInPlace, ApartAcross
  <1>3. ApartAcross'
    BY <1>0, SMTT(30) DEF ApartInPlace, ApartAcross
  <1>4. MarkCarried'
    BY <1>0, SMTT(30) DEF MarkCarried, Carried, OwnGeneration
  <1>5. TimerIsLetThrough'
    BY <1>0, SMTT(30) DEF TimerIsLetThrough, ApartInPlace, ApartAcross, OwnGeneration
  <1>6. TimerBelongsToMark'
    BY <1>0, SMTT(30) DEF TimerBelongsToMark, OwnGeneration
  <1>7. OwnGeneration'
    BY <1>0, SMTT(30) DEF OwnGeneration
  <1>8. QED
    BY <1>1, <1>2, <1>3, <1>4, <1>5, <1>6, <1>7

(* A timer function that starts carries the same task and token.           *)
LEMMA TimerStartStep ==
    ASSUME SupervisorInv, NEW c \in callbacks, TimerStart(c)
    PROVE  SupervisorInv'
  <1> USE SupervisorAssumption DEF SupervisorInv, TimerStart, Indices, Busy
  <1> DEFINE e == [c EXCEPT !.started = TRUE]
  <1>0. /\ c \in callbacks /\ callbacks' = (callbacks \ {c}) \cup {e}
        /\ e \in [task : Task, token : Seqs, started : BOOLEAN]
        /\ e.task = c.task /\ e.token = c.token
        /\ UNCHANGED <<gen, token, hands, queue, worker>>
    BY DEF SupervisorTypeOK
  <1> HIDE DEF e, TimerStart
  <1>1. SupervisorTypeOK'
    BY <1>0 DEF SupervisorTypeOK
  <1>2. ApartInPlace'
    BY <1>0, SMTT(30) DEF ApartInPlace, ApartAcross
  <1>3. ApartAcross'
    BY <1>0, SMTT(30) DEF ApartInPlace, ApartAcross
  <1>4. MarkCarried'
    BY <1>0, SMTT(30) DEF MarkCarried, Carried, OwnGeneration
  <1>5. TimerIsLetThrough'
    BY <1>0, SMTT(30) DEF TimerIsLetThrough, ApartInPlace, ApartAcross, OwnGeneration
  <1>6. TimerBelongsToMark'
    BY <1>0, SMTT(30) DEF TimerBelongsToMark, OwnGeneration
  <1>7. OwnGeneration'
    BY <1>0, SMTT(30) DEF OwnGeneration
  <1>8. QED
    BY <1>1, <1>2, <1>3, <1>4, <1>5, <1>6, <1>7

(* A timer function that gives up was no carrier of a mark: one with a     *)
(* marked generation is current and has the token of the maps.             *)
LEMMA TimerRunStep ==
    ASSUME SupervisorInv, NEW c \in callbacks, TimerRun(c)
    PROVE  SupervisorInv'
  <1> USE SupervisorAssumption DEF SupervisorInv, TimerRun, isCurrentRecovery, Hand, Indices, Busy
  <1>0. c.task \in Task /\ c.task.id \in Deployments
    BY DEF SupervisorTypeOK, Task
  <1>1. SupervisorTypeOK'
    BY <1>0, SMTT(30) DEF SupervisorTypeOK
  <1>2. ApartInPlace'
    BY <1>0, SMTT(30) DEF ApartInPlace, ApartAcross
  <1>3. ApartAcross'
    BY <1>0, SMTT(30) DEF ApartInPlace, ApartAcross
  <1>4. MarkCarried'
    <2> SUFFICES ASSUME NEW d \in Deployments, gen[d] # None
                 PROVE  Carried(gen[d])'
      BY DEF MarkCarried
    <2>1. CASE c.task.gen = gen[d]
      <3>1. c.task.id = d /\ token[d] = c.token
        BY <2>1 DEF OwnGeneration, TimerIsLetThrough
      <3>2. Hand("enqueue", c.task) \in hands'
        BY <3>1, <2>1
      <3>3. QED
        BY <3>2, <2>1 DEF Carried
    <2>2. CASE c.task.gen # gen[d]
      BY <2>2 DEF MarkCarried, Carried
    <2>3. QED
      BY <2>1, <2>2
  <1>5. TimerIsLetThrough'
    <2> SUFFICES ASSUME NEW d \in Deployments, NEW e \in callbacks', gen[d] # None,
                        e.task.gen = gen[d]
                 PROVE  e.token = token'[d]
      BY DEF TimerIsLetThrough
    <2>1. e \in callbacks /\ e # c /\ e.token = token[d] /\ e.task.id = d
      BY DEF TimerIsLetThrough, OwnGeneration
    <2>2. c.task.id # d \/ ~isCurrentRecovery(c.task)
      BY <2>1, SMTT(30) DEF ApartInPlace
    <2>3. QED
      BY <2>1, <2>2, <1>0 DEF SupervisorTypeOK
  <1>6. TimerBelongsToMark'
    <2> SUFFICES ASSUME NEW d \in Deployments, token'[d] # None
                 PROVE  \E e \in callbacks' : /\ e.task.id = d /\ e.task.gen = gen[d]
                                              /\ e.token = token'[d]
      BY SMTT(30) DEF TimerBelongsToMark
    <2>1. token'[d] = token[d]
      BY <1>0 DEF SupervisorTypeOK
    <2>2. PICK e \in callbacks : e.task.id = d /\ e.task.gen = gen[d] /\ e.token = token[d]
      BY <2>1 DEF TimerBelongsToMark
    <2>3. e # c
      BY <2>1, <2>2 DEF SupervisorTypeOK
    <2>4. QED
      BY <2>1, <2>2, <2>3
  <1>7. OwnGeneration'
    BY <1>0, SMTT(30) DEF OwnGeneration
  <1>8. QED
    BY <1>1, <1>2, <1>3, <1>4, <1>5, <1>6, <1>7

(* Without marks and tokens, the tasks that are left carry nothing.        *)
LEMMA CancelStep ==
    ASSUME SupervisorInv, cancelAllRecoveries
    PROVE  SupervisorInv'
  <1> USE SupervisorAssumption DEF SupervisorInv, cancelAllRecoveries, Indices, Busy
  <1>1. SupervisorTypeOK'
    BY TasksAreTyped DEF SupervisorTypeOK
  <1>2. ApartInPlace'
    BY TasksAreTyped, SMTT(30) DEF ApartInPlace, ApartAcross
  <1>3. ApartAcross'
    BY TasksAreTyped, SMTT(30) DEF ApartInPlace, ApartAcross
  <1>4. MarkCarried'
    BY TasksAreTyped DEF MarkCarried, Carried, OwnGeneration
  <1>5. TimerIsLetThrough'
    BY TasksAreTyped DEF TimerIsLetThrough, ApartInPlace, ApartAcross, OwnGeneration
  <1>6. TimerBelongsToMark'
    BY TasksAreTyped DEF TimerBelongsToMark, OwnGeneration
  <1>7. OwnGeneration'
    BY TasksAreTyped, SMTT(30) DEF OwnGeneration
  <1>8. QED
    BY <1>1, <1>2, <1>3, <1>4, <1>5, <1>6, <1>7

(* A step that leaves the supervisor alone keeps the invariant.            *)
LEMMA SupervisorStutters ==
    ASSUME SupervisorInv, UNCHANGED supervisor
    PROVE  SupervisorInv'
  <1>0. UNCHANGED <<gen, token, hands, queue, worker, callbacks>>
    BY DEF supervisor
  <1>1. SupervisorTypeOK'
    BY <1>0 DEF SupervisorInv, SupervisorTypeOK
  <1>2. Indices' = Indices /\ Busy' = Busy
    BY <1>0 DEF Indices, Busy
  <1>3. ApartInPlace'
    BY <1>0, <1>2, SMTT(30) DEF SupervisorInv, ApartInPlace
  <1>4. ApartAcross'
    BY <1>0, <1>2, SMTT(30) DEF SupervisorInv, ApartAcross
  <1>5. MarkCarried'
    BY <1>0, <1>2 DEF SupervisorInv, MarkCarried, Carried
  <1>6. TimerIsLetThrough' /\ TimerBelongsToMark'
    BY <1>0 DEF SupervisorInv, TimerIsLetThrough, TimerBelongsToMark
  <1>7. OwnGeneration'
    BY <1>0, <1>2 DEF SupervisorInv, OwnGeneration
  <1>8. QED
    BY <1>1, <1>3, <1>4, <1>5, <1>6, <1>7 DEF SupervisorInv

(* The task moves from its goroutine to the end of the queue, or stays to  *)
(* be cleared.                                                             *)
LEMMA HandEnqueueStep ==
    ASSUME SupervisorInv, NEW h \in hands, HandEnqueue(h)
    PROVE  SupervisorInv'
  <1> USE SupervisorAssumption DEF SupervisorInv, HandEnqueue, EnqueueWithin, Hand, Indices, Busy
  <1>1. SupervisorTypeOK'
    <2>1. h.task \in Task /\ queue \in Seq(Task)
      BY DEF SupervisorTypeOK
    <2>2. CASE Len(queue) < QueueCap
      <3>1. queue' \in Seq(Task) /\ Len(queue') <= QueueCap
        BY <2>1, <2>2, SMTT(30)
      <3>2. QED
        BY <2>2, <3>1 DEF SupervisorTypeOK
    <2>3. CASE ~(Len(queue) < QueueCap)
      <3>1. Hand("clear", h.task) \in [step : {"enqueue", "clear"}, task : Task]
        BY <2>1
      <3>2. QED
        BY <2>3, <3>1 DEF SupervisorTypeOK
    <2>4. QED
      BY <2>2, <2>3
  <1>2. ApartInPlace'
    <2>1. CASE Len(queue) < QueueCap
      <3>1. /\ hands' = hands \ {h} /\ UNCHANGED <<worker, callbacks>>
            /\ Len(queue) \in Nat /\ Len(queue') = Len(queue) + 1
            /\ queue'[Len(queue) + 1] = h.task
            /\ \A i \in Indices : queue'[i] = queue[i]
        <4>1. h.task \in Task /\ queue \in Seq(Task)
          BY DEF SupervisorTypeOK
        <4>2. queue' = Append(queue, h.task)
          BY <2>1
        <4>3. Len(queue) \in Nat /\ Len(queue') = Len(queue) + 1
          BY <4>1, <4>2, SMTT(30)
        <4>4. queue'[Len(queue) + 1] = h.task
          BY <4>1, <4>2, SMTT(30)
        <4>5. \A i \in Indices : queue'[i] = queue[i]
          BY <4>1, <4>2, SMTT(30)
        <4>6. QED
          BY <2>1, <4>3, <4>4, <4>5
      <3>2. \A i, j \in Indices' : queue'[i].gen = queue'[j].gen => i = j
        BY <3>1, SMTT(30) DEF ApartInPlace, ApartAcross
      <3>3. QED
        BY <3>1, <3>2, SMTT(30) DEF ApartInPlace
    <2>2. CASE ~(Len(queue) < QueueCap)
      BY <2>2, SMTT(30) DEF ApartInPlace
    <2>3. QED
      BY <2>1, <2>2
  <1>3. ApartAcross'
    BY SMTT(30) DEF ApartInPlace, ApartAcross
  <1>4. MarkCarried'
    <2> SUFFICES ASSUME NEW d \in Deployments, gen[d] # None
                 PROVE  Carried(gen[d])'
      BY DEF MarkCarried
    <2>1. Carried(gen[d]) /\ queue \in Seq(Task) /\ h.task \in Task
      BY DEF MarkCarried, SupervisorTypeOK
    <2>2. CASE Len(queue) < QueueCap
      <3>1. /\ Len(queue') = Len(queue) + 1 /\ queue'[Len(queue) + 1] = h.task
            /\ \A i \in Indices : i \in Indices' /\ queue'[i] = queue[i]
            /\ Len(queue) + 1 \in Indices'
        BY <2>1, <2>2, SMTT(30)
      <3>2. QED
        BY <2>1, <2>2, <3>1 DEF Carried
    <2>3. CASE ~(Len(queue) < QueueCap)
      <3>1. Hand("clear", h.task) \in hands'
        BY <2>3
      <3>2. QED
        BY <2>1, <2>3, <3>1 DEF Carried
    <2>4. QED
      BY <2>2, <2>3
  <1>5. TimerIsLetThrough'
    BY SMTT(30) DEF TimerIsLetThrough, ApartInPlace, ApartAcross, OwnGeneration
  <1>6. TimerBelongsToMark'
    BY SMTT(30) DEF TimerBelongsToMark, OwnGeneration
  <1>7. OwnGeneration'
    BY SMTT(30) DEF OwnGeneration
  <1>8. QED
    BY <1>1, <1>2, <1>3, <1>4, <1>5, <1>6, <1>7

(* Clearing takes away the mark of the dropped task and no other.          *)
LEMMA HandClearStep ==
    ASSUME SupervisorInv, NEW h \in hands, HandClear(h)
    PROVE  SupervisorInv'
  <1> USE SupervisorAssumption DEF SupervisorInv, Indices, Busy
  <1>0. /\ hands' = hands \ {h} /\ UNCHANGED <<queue, worker>>
        /\ gen' \in [Deployments -> Seqs \cup {None}]
        /\ token' \in [Deployments -> Seqs \cup {None}]
        /\ callbacks' \subseteq callbacks
        /\ \A d \in Deployments : gen'[d] # None =>
              gen'[d] = gen[d] /\ token'[d] = token[d] /\ gen[d] # h.task.gen
        /\ \A d \in Deployments : gen'[d] = None => token'[d] = None
        /\ \A d \in Deployments : \A c \in callbacks :
              gen'[d] # None /\ c.task.id = d => c \in callbacks'
    BY TasksAreTyped, ClearSparesOthers, SMTT(30) DEF HandClear, OwnGeneration
  <1>1. SupervisorTypeOK'
    BY <1>0 DEF SupervisorTypeOK
  <1>2. ApartInPlace'
    BY <1>0, SMTT(30) DEF ApartInPlace
  <1>3. ApartAcross'
    BY <1>0, SMTT(30) DEF ApartAcross
  <1>4. MarkCarried'
    <2> SUFFICES ASSUME NEW d \in Deployments, gen'[d] # None
                 PROVE  Carried(gen[d])'
      BY DEF MarkCarried
    <2>1. gen'[d] = gen[d] /\ gen[d] # None /\ gen[d] # h.task.gen /\ Carried(gen[d])
      BY <1>0 DEF MarkCarried
    <2>2. QED
      BY <1>0, <2>1, SMTT(30) DEF Carried, OwnGeneration
  <1>5. TimerIsLetThrough'
    BY <1>0, SMTT(30) DEF TimerIsLetThrough
  <1>6. TimerBelongsToMark'
    BY <1>0, SMTT(30) DEF TimerBelongsToMark
  <1>7. OwnGeneration'
    BY <1>0, TasksAreTyped, SMTT(30) DEF OwnGeneration
  <1>8. QED
    BY <1>1, <1>2, <1>3, <1>4, <1>5, <1>6, <1>7

(* A new mark gets a generation no task has, one carrier and no timer.     *)
LEMMA RecoverStep ==
    ASSUME SupervisorInv, NEW d \in Deployments, Recover(d)
    PROVE  SupervisorInv'
  <1> DEFINE n == NextSeq
             h == Hand("enqueue", [id |-> d, gen |-> n, progress |-> FirstTry])
  <1> USE SupervisorAssumption DEF SupervisorInv, Indices, Busy
  <1>a. CASE gen[d] # None
    BY <1>a, SupervisorStutters DEF Recover, supervisor
  <1>b. CASE gen[d] = None
    <2>1. /\ gen' = [gen EXCEPT ![d] = n] /\ hands' = hands \cup {h}
          /\ UNCHANGED <<token, queue, worker, callbacks>>
          /\ FreshSeqs # {}
      BY <1>b DEF Recover
    <2>2. /\ n \in Seqs
          /\ \A e \in Deployments : gen[e] # n
          /\ \A k \in hands : k.task.gen # n
          /\ \A i \in Indices : queue[i].gen # n
          /\ \A w \in Busy : worker[w].task.gen # n
          /\ \A c \in callbacks : c.task.gen # n
      BY <2>1, FreshIsUnused
    <2> HIDE DEF n
    <2>3. /\ h \in [step : {"enqueue", "clear"}, task : Task]
          /\ h.task.gen = n /\ h.task.id = d
      BY <2>2 DEF Hand, Task
    <2> HIDE DEF h
    <2>4. token[d] = None
      BY <1>b, UnmarkedHasNoToken
    <2>5. gen \in [Deployments -> Seqs \cup {None}]
      BY DEF SupervisorTypeOK
    <2>6. SupervisorTypeOK'
      BY <2>1, <2>2, <2>3 DEF SupervisorTypeOK
    <2>7. ApartInPlace' /\ ApartAcross'
      BY <2>1, <2>2, <2>3, SMTT(30) DEF ApartInPlace, ApartAcross
    <2>8. MarkCarried'
      BY <2>1, <2>3, <2>5 DEF MarkCarried, Carried
    <2>9. TimerIsLetThrough' /\ TimerBelongsToMark'
      BY <2>1, <2>2, <2>4, <2>5, SMTT(30) DEF TimerIsLetThrough, TimerBelongsToMark
    <2>10. OwnGeneration'
      BY <2>1, <2>2, <2>3, <2>5, SMTT(30) DEF OwnGeneration
    <2>11. QED
      BY <2>6, <2>7, <2>8, <2>9, <2>10
  <1>c. QED
    BY <1>a, <1>b

(* The head of the queue moves to the worker, the others move up.          *)
LEMMA TakeTaskStep ==
    ASSUME SupervisorInv, NEW w \in Workers, TakeTask(w)
    PROVE  SupervisorInv'
  <1> USE SupervisorAssumption DEF SupervisorInv, Indices, Busy
  <1>0. /\ worker[w] = NoTask /\ queue \in Seq(Task) /\ queue # << >>
        /\ worker \in [Workers -> Holding \cup {NoTask}]
        /\ worker' = [worker EXCEPT ![w] = Hand("check", queue[1])]
        /\ UNCHANGED <<gen, token, hands, callbacks>>
    BY SMTT(30) DEF TakeTask, SupervisorTypeOK
  <1>a. /\ queue' \in Seq(Task) /\ Len(queue') = Len(queue) - 1 /\ 1 \in Indices
        /\ \A i \in Indices' : i + 1 \in Indices /\ i + 1 # 1 /\ queue'[i] = queue[i + 1]
        /\ \A i \in Indices : i # 1 => i - 1 \in Indices' /\ queue'[i - 1] = queue[i]
    BY <1>0, SMTT(30) DEF TakeTask
  <1>b. /\ w \notin Busy /\ Busy' = Busy \cup {w} /\ worker'[w].task = queue[1]
        /\ \A v \in Busy : v # w /\ worker'[v] = worker[v]
    BY <1>0, <1>a, SMTT(30) DEF Busy, NoTask, Hand
  <1> HIDE DEF Indices, Busy
  <1>1. SupervisorTypeOK'
    <2>1. Hand("check", queue[1]) \in Holding
      BY <1>0, <1>a, SMTT(30) DEF Hand, Holding, Indices
    <2>2. QED
      BY <1>0, <1>a, <2>1, SMTT(30) DEF SupervisorTypeOK, Indices
  <1>2. ApartInPlace'
    <2>1. ASSUME NEW i \in Indices', NEW j \in Indices', queue'[i].gen = queue'[j].gen
          PROVE  i = j
      <3>1. i + 1 = j + 1
        BY <1>a, <2>1, SMTT(30) DEF ApartInPlace
      <3>2. QED
        BY <3>1, SMTT(30) DEF Indices
    <2>2. ASSUME NEW u \in Busy', NEW v \in Busy',
                 worker'[u].task.gen = worker'[v].task.gen
          PROVE  u = v
      BY <1>a, <1>b, <2>2, SMTT(30) DEF ApartInPlace, ApartAcross
    <2>3. QED
      BY <1>0, <2>1, <2>2 DEF ApartInPlace
  <1>3. ApartAcross'
    <2>1. ASSUME NEW i \in Indices', NEW v \in Busy' PROVE queue'[i].gen # worker'[v].task.gen
      <3>1. i + 1 \in Indices /\ i + 1 # 1 /\ queue'[i] = queue[i + 1]
        BY <1>a
      <3>2. QED
        BY <1>a, <1>b, <3>1, SMTT(30) DEF ApartInPlace, ApartAcross
    <2>2. ASSUME NEW i \in Indices' PROVE \E j \in Indices : queue'[i] = queue[j]
      BY <1>a
    <2>3. \A v \in Busy' : worker'[v].task = queue[1] \/ (v \in Busy /\ worker'[v] = worker[v])
      BY <1>b
    <2>4. QED
      BY <1>0, <1>a, <2>1, <2>2, <2>3, SMTT(30) DEF ApartAcross
  <1>4. MarkCarried'
    <2> SUFFICES ASSUME NEW d \in Deployments, gen[d] # None
                 PROVE  Carried(gen[d])'
      BY <1>0 DEF MarkCarried
    <2>1. CASE \E i \in Indices : queue[i].gen = gen[d]
      <3> PICK i \in Indices : queue[i].gen = gen[d]
        BY <2>1
      <3>1. CASE i = 1
        BY <1>0, <1>b, <3>1 DEF Carried
      <3>2. CASE i # 1
        BY <1>0, <1>a, <3>2, SMTT(30) DEF Carried
      <3>3. QED
        BY <3>1, <3>2
    <2>2. CASE ~\E i \in Indices : queue[i].gen = gen[d]
      BY <1>0, <1>b, <2>2, SMTT(30) DEF MarkCarried, Carried
    <2>3. QED
      BY <2>1, <2>2
  <1>5. TimerIsLetThrough'
    BY <1>0, <1>a, <1>b, SMTT(30) DEF TimerIsLetThrough, ApartInPlace, ApartAcross, OwnGeneration
  <1>6. TimerBelongsToMark'
    BY <1>0, <1>a, <1>b, SMTT(30) DEF TimerBelongsToMark, OwnGeneration
  <1>7. OwnGeneration'
    <2>1. \A i \in Indices' : \E j \in Indices : queue'[i] = queue[j]
      BY <1>a
    <2>2. \A v \in Busy' : worker'[v].task = queue[1] \/ (v \in Busy /\ worker'[v] = worker[v])
      BY <1>b
    <2>3. QED
      BY <1>0, <1>a, <2>1, <2>2, SMTT(30) DEF OwnGeneration
  <1>8. QED
    BY <1>1, <1>2, <1>3, <1>4, <1>5, <1>6, <1>7

(* Clearing takes away the mark of the worker's task and no other.         *)
LEMMA WorkerClearStep ==
    ASSUME SupervisorInv, NEW w \in Workers, WorkerClear(w)
    PROVE  SupervisorInv'
  <1> USE SupervisorAssumption DEF SupervisorInv, Indices, Busy
  <1>0. /\ w \in Busy /\ Busy' = Busy \ {w} /\ UNCHANGED <<hands, queue>>
        /\ worker \in [Workers -> Holding \cup {NoTask}]
        /\ worker' \in [Workers -> Holding \cup {NoTask}]
        /\ \A v \in Busy : v # w => worker'[v] = worker[v]
        /\ gen' \in [Deployments -> Seqs \cup {None}]
        /\ token' \in [Deployments -> Seqs \cup {None}]
        /\ callbacks' \subseteq callbacks
        /\ \A d \in Deployments : gen'[d] # None =>
              gen'[d] = gen[d] /\ token'[d] = token[d] /\ gen[d] # worker[w].task.gen
        /\ \A d \in Deployments : gen'[d] = None => token'[d] = None
        /\ \A d \in Deployments : \A c \in callbacks :
              gen'[d] # None /\ c.task.id = d => c \in callbacks'
    <2>1. w \in Busy
      BY DEF WorkerClear
    <2>2. worker' = [worker EXCEPT ![w] = NoTask] /\ UNCHANGED <<hands, queue>>
      BY DEF WorkerClear
    <2>3. worker[w].task \in Task
      BY <2>1, TasksAreTyped
    <2>4. QED
      BY <2>1, <2>2, <2>3, ClearSparesOthers, SMTT(30) DEF WorkerClear, OwnGeneration, SupervisorTypeOK, NoTask
  <1> HIDE DEF Busy
  <1>1. SupervisorTypeOK'
    BY <1>0 DEF SupervisorTypeOK
  <1>2. ApartInPlace'
    BY <1>0, SMTT(30) DEF ApartInPlace
  <1>3. ApartAcross'
    BY <1>0, SMTT(30) DEF ApartAcross
  <1>4. MarkCarried'
    <2> SUFFICES ASSUME NEW d \in Deployments, gen'[d] # None
                 PROVE  Carried(gen[d])'
      BY DEF MarkCarried
    <2>1. gen'[d] = gen[d] /\ gen[d] # None /\ gen[d] # worker[w].task.gen /\ Carried(gen[d])
      BY <1>0 DEF MarkCarried
    <2>2. QED
      BY <1>0, <2>1, SMTT(30) DEF Carried, OwnGeneration
  <1>5. TimerIsLetThrough'
    BY <1>0, SMTT(30) DEF TimerIsLetThrough
  <1>6. TimerBelongsToMark'
    BY <1>0, SMTT(30) DEF TimerBelongsToMark
  <1>7. OwnGeneration'
    BY <1>0, TasksAreTyped, SMTT(30) DEF OwnGeneration
  <1>8. QED
    BY <1>1, <1>2, <1>3, <1>4, <1>5, <1>6, <1>7

(* A worker about to enqueue keeps its task or drops one no mark needs.    *)
LEMMA WorkerEnqueueStep ==
    ASSUME SupervisorInv, NEW w \in Workers, WorkerEnqueue(w)
    PROVE  SupervisorInv'
  <1>a. w \in Busy /\ worker[w].task \in Task
    BY TasksAreTyped DEF SupervisorInv, WorkerEnqueue, Busy
  <1>b. worker' \in [Workers -> Holding \cup {NoTask}]
    <2>1. Hand("send", worker[w].task) \in Holding
      BY <1>a DEF Hand, Holding
    <2>2. QED
      BY <2>1 DEF SupervisorInv, SupervisorTypeOK, WorkerEnqueue
  <1>1. SupervisorTypeOK'
    BY <1>b DEF SupervisorInv, SupervisorTypeOK, WorkerEnqueue
  <1> USE SupervisorAssumption DEF SupervisorInv, WorkerEnqueue, isCurrentRecovery, SupervisorTypeOK, Indices, Busy, Task, Holding, NoTask, Hand
  <1>2. ApartInPlace'
    BY SMTT(30) DEF ApartInPlace, ApartAcross
  <1>3. ApartAcross'
    BY SMTT(30) DEF ApartInPlace, ApartAcross
  <1>4. MarkCarried'
    BY SMTT(30) DEF MarkCarried, Carried, OwnGeneration
  <1>5. TimerIsLetThrough'
    BY SMTT(30) DEF TimerIsLetThrough, ApartInPlace, ApartAcross, OwnGeneration
  <1>6. TimerBelongsToMark'
    BY SMTT(30) DEF TimerBelongsToMark, OwnGeneration
  <1>7. OwnGeneration'
    BY SMTT(30) DEF OwnGeneration
  <1>8. QED
    BY <1>1, <1>2, <1>3, <1>4, <1>5, <1>6, <1>7

(* The task moves from its worker to the end of the queue, or stays to be  *)
(* cleared.                                                                *)
LEMMA WorkerSendStep ==
    ASSUME SupervisorInv, NEW w \in Workers, WorkerSend(w)
    PROVE  SupervisorInv'
  <1> USE SupervisorAssumption DEF SupervisorInv
  <1>0. /\ w \in Busy /\ worker[w].task \in Task
        /\ worker \in [Workers -> Holding \cup {NoTask}] /\ queue \in Seq(Task)
        /\ UNCHANGED <<gen, token, hands, callbacks>>
    BY TasksAreTyped DEF WorkerSend, Busy, SupervisorTypeOK
  <1>a. CASE Len(queue) < QueueCap
    <2>1. /\ queue' = Append(queue, worker[w].task)
          /\ worker' = [worker EXCEPT ![w] = NoTask]
      BY <1>a DEF WorkerSend
    <2>2. /\ queue' \in Seq(Task) /\ Len(queue') = Len(queue) + 1
          /\ Indices' = Indices \cup {Len(queue) + 1} /\ Len(queue) + 1 \notin Indices
          /\ queue'[Len(queue) + 1] = worker[w].task
          /\ \A i \in Indices : queue'[i] = queue[i]
      BY <1>0, <2>1, SMTT(30) DEF Indices
    <2>3. /\ Busy' = Busy \ {w} /\ worker' \in [Workers -> Holding \cup {NoTask}]
          /\ \A v \in Busy : v # w => worker'[v] = worker[v]
      BY <1>0, <2>1 DEF Busy, NoTask
    <2>4. SupervisorTypeOK'
      BY <1>0, <1>a, <2>2, <2>3, SMTT(30) DEF SupervisorTypeOK
    <2>5. ApartInPlace' /\ ApartAcross'
      BY <1>0, <2>2, <2>3, SMTT(30) DEF ApartInPlace, ApartAcross
    <2>6. MarkCarried'
      BY <1>0, <2>2, <2>3, SMTT(30) DEF MarkCarried, Carried
    <2>7. TimerIsLetThrough' /\ TimerBelongsToMark'
      BY <1>0 DEF TimerIsLetThrough, TimerBelongsToMark
    <2>8. OwnGeneration'
      BY <1>0, <2>2, <2>3, SMTT(30) DEF OwnGeneration
    <2>9. QED
      BY <2>4, <2>5, <2>6, <2>7, <2>8
  <1>b. CASE ~(Len(queue) < QueueCap)
    <2>1. worker' = [worker EXCEPT ![w] = Hand("clear", worker[w].task)] /\ queue' = queue
      BY <1>b DEF WorkerSend
    <2>2. /\ Busy' = Busy /\ worker' \in [Workers -> Holding \cup {NoTask}]
          /\ \A v \in Busy : worker'[v].task = worker[v].task
      BY <1>0, <2>1 DEF Busy, Hand, Holding
    <2>3. SupervisorTypeOK'
      BY <1>0, <2>1, <2>2 DEF SupervisorTypeOK
    <2>4. ApartInPlace' /\ ApartAcross'
      BY <1>0, <2>1, <2>2, SMTT(30) DEF ApartInPlace, ApartAcross, Indices
    <2>5. MarkCarried'
      BY <1>0, <2>1, <2>2, SMTT(30) DEF MarkCarried, Carried, Indices
    <2>6. TimerIsLetThrough' /\ TimerBelongsToMark'
      BY <1>0 DEF TimerIsLetThrough, TimerBelongsToMark
    <2>7. OwnGeneration'
      BY <1>0, <2>1, <2>2, SMTT(30) DEF OwnGeneration, Indices
    <2>8. QED
      BY <2>3, <2>4, <2>5, <2>6, <2>7
  <1>c. QED
    BY <1>a, <1>b

(* The task of a mark moves from its worker to a timer with a new token; by *)
(* ApartAcross no other timer carries it.                                  *)
LEMMA WorkerScheduleStep ==
    ASSUME SupervisorInv, NEW w \in Workers, WorkerSchedule(w)
    PROVE  SupervisorInv'
  <1> DEFINE t == worker[w].task
             n == NextSeq
             c == [task |-> t, token |-> n, started |-> FALSE]
  <1> USE SupervisorAssumption DEF SupervisorInv
  <1>0. /\ w \in Busy /\ t \in Task /\ t.id \in Deployments
        /\ UNCHANGED <<hands, queue>>
        /\ worker' = [worker EXCEPT ![w] = NoTask] /\ scheduleRecovery(t)
    BY TasksAreTyped DEF WorkerSchedule, Busy, Task
  <1>1. /\ Busy' = Busy \ {w} /\ worker' \in [Workers -> Holding \cup {NoTask}]
        /\ \A v \in Busy : v # w => worker'[v] = worker[v]
    BY <1>0 DEF Busy, NoTask, SupervisorTypeOK
  <1>a. CASE isCurrentRecovery(t)
    <2>1. /\ FreshSeqs # {} /\ gen' = gen /\ token' = [token EXCEPT ![t.id] = n]
          /\ callbacks' = (callbacks \ Stoppable(t.id)) \cup {c}
      BY <1>0, <1>a DEF scheduleRecovery
    <2>2. n \in Seqs /\ gen[t.id] = t.gen
      BY <1>a, <2>1, FreshIsUnused DEF isCurrentRecovery
    <2> HIDE DEF n
    <2>3. /\ c \in [task : Task, token : Seqs, started : BOOLEAN]
          /\ c.task = t /\ c.token = n
      BY <1>0, <2>2
    <2> HIDE DEF c
    <2>4. \A e \in callbacks : e.task.gen # t.gen
      BY <1>0 DEF ApartAcross
    <2> HIDE DEF t
    <2>5. \A e \in callbacks : e.task.id # t.id => e \in callbacks'
      BY <2>1 DEF Stoppable
    <2>6. \A d \in Deployments : d # t.id => gen[d] # t.gen
      BY <1>0 DEF OwnGeneration, t
    <2>7. token' \in [Deployments -> Seqs \cup {None}]
            /\ token'[t.id] = n /\ \A d \in Deployments : d # t.id => token'[d] = token[d]
      BY <1>0, <2>1, <2>2 DEF SupervisorTypeOK
    <2>8. SupervisorTypeOK'
      BY <1>0, <1>1, <2>1, <2>3, <2>7 DEF SupervisorTypeOK
    <2>9. ApartInPlace' /\ ApartAcross'
      BY <1>0, <1>1, <2>1, <2>3, <2>4, SMTT(30) DEF ApartInPlace, ApartAcross, Indices, t
    <2>10. MarkCarried'
      <3> SUFFICES ASSUME NEW d \in Deployments, gen[d] # None
                   PROVE  Carried(gen[d])'
        BY <2>1 DEF MarkCarried
      <3>1. CASE d = t.id
        BY <2>1, <2>2, <2>3, <3>1 DEF Carried
      <3>2. CASE d # t.id
        <4>1. Carried(gen[d]) /\ gen[d] # t.gen
          BY <2>6, <3>2 DEF MarkCarried
        <4>2. \A e \in callbacks : e.task.gen = gen[d] => e \in callbacks'
          BY <2>5, <3>2 DEF OwnGeneration
        <4>3. QED
          BY <1>0, <1>1, <2>1, <4>1, <4>2 DEF Carried, Indices, t
      <3>3. QED
        BY <3>1, <3>2
    <2>11. TimerIsLetThrough' /\ TimerBelongsToMark'
      <3>1. TimerIsLetThrough'
        BY <1>0, <2>1, <2>2, <2>3, <2>4, <2>6, <2>7, SMTT(30) DEF TimerIsLetThrough
      <3>2. TimerBelongsToMark'
        BY <1>0, <2>1, <2>2, <2>3, <2>5, <2>7, SMTT(30) DEF TimerBelongsToMark
      <3>3. QED
        BY <3>1, <3>2
    <2>12. OwnGeneration'
      BY <1>0, <1>1, <2>1, <2>3, SMTT(30) DEF OwnGeneration, Indices, t
    <2>13. QED
      BY <2>8, <2>9, <2>10, <2>11, <2>12
  <1>b. CASE ~isCurrentRecovery(t)
    <2>1. UNCHANGED <<gen, token, callbacks>>
      BY <1>0, <1>b DEF scheduleRecovery
    <2>2. \A d \in Deployments : gen[d] # t.gen
      BY <1>0, <1>b DEF isCurrentRecovery, OwnGeneration
    <2>3. SupervisorTypeOK'
      BY <1>0, <1>1, <2>1 DEF SupervisorTypeOK
    <2>4. ApartInPlace' /\ ApartAcross'
      BY <1>0, <1>1, <2>1, SMTT(30) DEF ApartInPlace, ApartAcross, Indices
    <2>5. MarkCarried'
      BY <1>0, <1>1, <2>1, <2>2, SMTT(30) DEF MarkCarried, Carried, Indices
    <2>6. TimerIsLetThrough' /\ TimerBelongsToMark'
      BY <2>1 DEF TimerIsLetThrough, TimerBelongsToMark
    <2>7. OwnGeneration'
      BY <1>0, <1>1, <2>1, SMTT(30) DEF OwnGeneration, Indices
    <2>8. QED
      BY <2>3, <2>4, <2>5, <2>6, <2>7
  <1>c. QED
    BY <1>a, <1>b

----------------------------------------------------------------------------
(* The invariant holds initially and every step of the supervisor keeps    *)
(* it.  Stated for a step that may leave the supervisor unchanged, so that *)
(* it can be used for any system whose steps include the supervisor's.     *)
LEMMA SupervisorInvInit == SupervisorInit => SupervisorInv
  BY SupervisorAssumption, SMTT(30)
     DEF SupervisorInit, SupervisorInv, SupervisorTypeOK, ApartInPlace, ApartAcross, MarkCarried,
         TimerIsLetThrough, TimerBelongsToMark, OwnGeneration, Indices, Busy, NoTask

(* Every step keeps the invariant, one lemma per action.                   *)
LEMMA SupervisorInvStep ==
    SupervisorInv /\ [SupervisorNext]_supervisor => SupervisorInv'
  <1> SUFFICES ASSUME SupervisorInv, [SupervisorNext]_supervisor
               PROVE  SupervisorInv'
    OBVIOUS
  <1>1. ASSUME NEW d \in Deployments, Recover(d) PROVE SupervisorInv'
    BY <1>1, RecoverStep
  <1>2. ASSUME NEW h \in hands, HandEnqueue(h) \/ HandClear(h) PROVE SupervisorInv'
    BY <1>2, HandEnqueueStep, HandClearStep
  <1>3. ASSUME NEW c \in callbacks, TimerStart(c) \/ TimerRun(c) PROVE SupervisorInv'
    BY <1>3, TimerStartStep, TimerRunStep
  <1>4. ASSUME NEW w \in Workers,
               \/ TakeTask(w) \/ CheckTask(w) \/ GiveUp(w)
               \/ \E p \in Progress, delayed \in BOOLEAN : Again(w, p, delayed)
               \/ WorkerClear(w) \/ WorkerSchedule(w) \/ WorkerEnqueue(w) \/ WorkerSend(w)
        PROVE  SupervisorInv'
    BY <1>4, TakeTaskStep, CheckTaskStep, GiveUpStep, AgainStep, WorkerClearStep,
       WorkerScheduleStep, WorkerEnqueueStep, WorkerSendStep
  <1>5. CASE cancelAllRecoveries
    BY <1>5, CancelStep
  <1>6. CASE UNCHANGED supervisor
    BY <1>6, SupervisorStutters
  <1>7. QED
    BY <1>1, <1>2, <1>3, <1>4, <1>5, <1>6 DEF SupervisorNext

(* For any number of deployments, workers and queue slots: a marked        *)
(* deployment always has a task that carries its recovery on and a timer   *)
(* that will be let through, no recovery is carried twice, and no timer    *)
(* outlives its recovery in the maps of the engine.                        *)
THEOREM SupervisorSafety ==
    SupervisorSpec =>
        [](SupervisorTypeOK /\ MarkedHasCarrier /\ OneCarrier /\ TimerBelongsToMark)
  <1>1. SupervisorInv => SupervisorTypeOK /\ TimerBelongsToMark
    BY DEF SupervisorInv
  <1>2. QED
    BY <1>1, SupervisorInvInit, SupervisorInvStep, InvImpliesOneCarrier,
       InvImpliesMarkedHasCarrier, PTL DEF SupervisorSpec

============================================================================
