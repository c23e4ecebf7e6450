---------------------------- MODULE JobQueueProofs ----------------------------
(***************************************************************************)
(* JobQueue for any number of servers, workers and namespaces, any set of  *)
(* changes asked for and any bounds: the types; and that a server says a   *)
(* job has its result only of a job whose result is stored, as long as     *)
(* nobody deletes the job.                                                 *)
(***************************************************************************)
EXTENDS JobQueue, TLAPS

USE JobQueueAssumption

-----------------------------------------------------------------------------
(* The records that the operators of JobState make.                        *)

LEMMA SpecialReasons ==
  /\ Worth \subseteq Reasons
  /\ \A why \in Worth : why \notin {"WorkerLost", "JobReplacedByClient", "Cancelled", "Deleted"}
  /\ {"WorkerLost", "JobReplacedByClient", "Cancelled", "Deleted"} \subseteq Reasons
  /\ NoReason \notin Reasons
BY DEF Worth, Reasons, NoReason

LEMMA JobsExist == \A j \in AnyJob : Exists(j)
BY DEF AnyJob, Job, Exists, NoJob

LEMMA FinishedType ==
  ASSUME NEW j \in MaybeJob, NEW why \in Reasons, NEW t \in 0..MaxTime
  PROVE  SetFinished(j, why, t) \in AnyJob
<1>1. CASE Exists(j)
  BY <1>1, SpecialReasons DEF MaybeJob, AnyJob, Job, SetFinished, Exists
<1>2. CASE ~Exists(j)
  BY <1>2, SpecialReasons DEF AnyJob, Job, SetFinished, NoWorker
<1> QED
  BY <1>1, <1>2

LEMMA QueuedType ==
  ASSUME NEW t \in 0..MaxTime, NEW spaces0 \in SUBSET Namespace
  PROVE  QueuedJob(t, spaces0) \in AnyJob
BY DEF AnyJob, Job, QueuedJob, NoWorker, NoReason

LEMMA RequeuedType ==
  ASSUME NEW j \in AnyJob, NEW t \in 0..MaxTime
  PROVE  SetQueued(j, t) \in AnyJob
BY QueuedType DEF SetQueued, AnyJob, Job

LEMMA RunningType ==
  ASSUME NEW j \in AnyJob, NEW w \in Worker \cup {NoWorker}, NEW t \in 0..MaxTime
  PROVE  SetRunning(j, w, t) \in AnyJob
BY DEF AnyJob, Job, SetRunning, NoReason

LEMMA RemovedType ==
  ASSUME NEW j \in AnyJob
  PROVE  SetRemoved(j) \in AnyJob
BY DEF AnyJob, Job, SetRemoved, NoReason

\* Namespaces may be set on a job; on the absent job it changes nothing.
LEMMA NamespacesType ==
  ASSUME NEW j \in MaybeJob, NEW left \in SUBSET Namespace
  PROVE  /\ [j EXCEPT !.namespaces = left] \in MaybeJob
         /\ Exists(j) => [j EXCEPT !.namespaces = left] \in AnyJob
<1>1. CASE j \in AnyJob
  BY <1>1 DEF MaybeJob, AnyJob, Job
<1>2. CASE j = NoJob
  <2>1. [NoJob EXCEPT !.namespaces = left] = NoJob
    BY DEF NoJob
  <2> QED
    BY <1>2, <2>1 DEF MaybeJob, Exists
<1> QED
  BY <1>1, <1>2 DEF MaybeJob

LEMMA QueueJobGetType ==
  ASSUME TypeOK
  PROVE  QueueJobGet \in MaybeJob
BY NamespacesType DEF TypeOK, QueueJobGet, MaybeJob

LEMMA MergedType ==
  ASSUME NEW ours \in AnyJob, NEW theirs \in AnyJob
  PROVE  Merged(ours, theirs) \in AnyJob
BY RemovedType DEF Merged, ResolveMostCorrectJob

\* In a merge the broadcast job is one, or, as far as types say, absent.
LEMMA MergedWithType ==
  ASSUME NEW ours \in AnyJob, NEW theirs \in MaybeJob
  PROVE  Merged(ours, theirs) \in MaybeJob
BY RemovedType DEF Merged, ResolveMostCorrectJob, MaybeJob

LEMMA IdleType == Idle \in Task
<1>1. Enqueue(DefaultNamespace) \in Change
  BY DEF Enqueue, Change, NoWorker
<1>2. 0 \in 0..MaxTime
  OBVIOUS
<1> QED
  BY <1>1, <1>2 DEF Idle, Task, MaybeJob

LEMMA ChangeKinds ==
  /\ \A why \in Reasons, ns \in Namespace : Finish(why, ns) \in Change
BY DEF Finish, Change, NoWorker

-----------------------------------------------------------------------------
(* The parts of a step.                                                    *)

LEMMA GoOnType ==
  ASSUME TypeOK, NEW s \in Server, NEW k \in Kinds, NEW t \in Task, GoOn(s, k, t)
  PROVE  task' \in [Server -> [Kinds -> Task]]
BY DEF TypeOK, GoOn

LEMMA EndType ==
  ASSUME TypeOK, NEW s \in Server, NEW k \in Kinds, End(s, k)
  PROVE  task' \in [Server -> [Kinds -> Task]]
BY GoOnType, IdleType DEF End

LEMMA SetMemType ==
  ASSUME TypeOK, NEW s \in Server, NEW j \in MaybeJob, SetMem(s, j)
  PROVE  mem' \in [Server -> MaybeJob]
BY DEF TypeOK, SetMem

LEMMA PostType ==
  ASSUME TypeOK, NEW s \in Server, NEW m \in Message, Post(s, m)
  PROVE  inbox' \in [Server -> SUBSET Message]
BY DEF TypeOK, Post

LEMMA TellType ==
  ASSUME TypeOK, NEW s \in Server, NEW j \in MaybeJob, Tell(s, j)
  PROVE  inbox' \in [Server -> SUBSET Message]
<1>1. CASE IsJobOkForSending(j)
  <2>1. j \in Message
    BY <1>1 DEF IsJobOkForSending, MaybeJob, Message, Exists
  <2> QED
    BY <1>1, <2>1, PostType DEF Tell
<1>2. CASE ~IsJobOkForSending(j)
  BY <1>2 DEF Tell, TypeOK
<1> QED
  BY <1>1, <1>2

\* What a task holds, and the job it works on.
LEMMA TaskParts ==
  ASSUME TypeOK, NEW s \in Server, NEW k \in Kinds
  PROVE  /\ task[s][k] \in Task
         /\ task[s][k].ch \in Change
         /\ task[s][k].time \in 0..MaxTime
         /\ task[s][k].job \in MaybeJob
         /\ task[s][k].most \in MaybeJob
         /\ task[s][k].got \in MaybeJob
         /\ task[s][k].left \in SUBSET Namespace
         /\ mem[s] \in MaybeJob
         /\ Known(s, k) \in MaybeJob
         /\ GivenJob(s, k) \in MaybeJob
<1>1. task[s][k] \in Task /\ mem[s] \in MaybeJob
  BY DEF TypeOK
<1>2. task[s][k].got \in MaybeJob
  BY <1>1 DEF Task
<1>3. Known(s, k) \in MaybeJob /\ GivenJob(s, k) \in MaybeJob
  BY <1>1, <1>2 DEF Known, GivenJob
<1> QED
  BY <1>1, <1>3 DEF Task

\* A task that goes on keeps its type.
LEMMA TaskGoesOn ==
  ASSUME NEW t \in Task, NEW job \in MaybeJob, NEW left \in SUBSET Namespace
  PROVE  /\ \A pc \in {"decide", "store"} : [t EXCEPT !.pc = pc, !.got = job] \in Task
         /\ \A pc \in {"store", "fetch"} : [t EXCEPT !.got = job, !.pc = pc] \in Task
         /\ \A pc \in {"persist", "spread", "settle"} : [t EXCEPT !.pc = pc, !.most = job] \in Task
         /\ \A pc \in {"apply", "spread", "settle", "dropped"} : [t EXCEPT !.pc = pc] \in Task
         /\ [t EXCEPT !.pc = "drop", !.left = left] \in Task
         /\ t.ch.kind = "Queued" =>
               /\ [t EXCEPT !.pc = "join", !.most = job] \in Task
               /\ \A pc \in {"lookup", "insert"} : [t EXCEPT !.pc = pc] \in Task
<1>1. \A pc \in {"decide", "store"} : [t EXCEPT !.pc = pc, !.got = job] \in Task
  BY DEF Task
<1>7. \A pc \in {"store", "fetch"} : [t EXCEPT !.got = job, !.pc = pc] \in Task
  BY DEF Task
<1>2. \A pc \in {"persist", "spread", "settle"} : [t EXCEPT !.pc = pc, !.most = job] \in Task
  BY DEF Task
<1>3. \A pc \in {"apply", "spread", "settle", "dropped"} : [t EXCEPT !.pc = pc] \in Task
  BY DEF Task
<1>4. [t EXCEPT !.pc = "drop", !.left = left] \in Task
  BY DEF Task
<1>5. ASSUME t.ch.kind = "Queued"
      PROVE  [t EXCEPT !.pc = "join", !.most = job] \in Task
  BY <1>5 DEF Task
<1>6. ASSUME t.ch.kind = "Queued", NEW pc \in {"lookup", "insert"}
      PROVE  [t EXCEPT !.pc = pc] \in Task
  BY <1>6 DEF Task
<1> QED
  BY <1>1, <1>2, <1>3, <1>4, <1>5, <1>6, <1>7

LEMMA TaskHolds ==
  ASSUME NEW t \in Task, NEW job \in MaybeJob, NEW most \in MaybeJob
  PROVE  /\ [t EXCEPT !.pc = "decide", !.got = job] \in Task
         /\ \A pc \in {"recheck", "release"}, left \in SUBSET Namespace :
              [t EXCEPT !.pc = pc, !.left = left, !.job = job, !.most = most] \in Task
<1>1. [t EXCEPT !.pc = "decide", !.got = job] \in Task
  BY DEF Task
<1>2. ASSUME NEW pc \in {"recheck", "release"}, NEW left \in SUBSET Namespace
      PROVE  [t EXCEPT !.pc = pc, !.left = left, !.job = job, !.most = most] \in Task
  BY DEF Task
<1> QED
  BY <1>1, <1>2

LEMMA FinishedJobType ==
  ASSUME TypeOK, NEW s \in Server, NEW k \in Kinds, task[s][k].ch.why \in Reasons
  PROVE  FinishedJob(s, k) \in AnyJob
BY TaskParts, FinishedType DEF FinishedJob
-----------------------------------------------------------------------------
(* The types.                                                              *)

LEMMA DecideType ==
  ASSUME TypeOK, NEW s \in Server, NEW k \in Kinds, LoadMissingJob(s, k)
  PROVE  TypeOK'
<1>1. [task[s][k] EXCEPT !.pc = "decide", !.got = QueueJobGet] \in Task
  <2>1. task[s][k] \in Task /\ task[s][k].got \in MaybeJob
    BY TaskParts
  <2>2. QueueJobGet \in MaybeJob
    BY QueueJobGetType
  <2> QED
    BY <2>1, <2>2, TaskHolds
<1>2. task' \in [Server -> [Kinds -> Task]]
  BY <1>1, GoOnType DEF LoadMissingJob
<1> QED
  BY <1>2 DEF LoadMissingJob, TypeOK, db, env

LEMMA ListNamespacesType ==
  ASSUME TypeOK, NEW s \in Server, NEW k \in Kinds, ListNamespaces(s, k)
  PROVE  TypeOK'
<1> DEFINE ns    == task[s][k].ch.ns
           going == IF ns = AllNamespaces THEN spaces ELSE spaces \cap {ns}
           most  == IF StaysAsItIs(s, k) THEN GivenJob(s, k) ELSE FinishedJob(s, k)
           pc    == IF going = {} THEN "recheck" ELSE "release"
<1>1. most \in MaybeJob
  BY TaskParts, FinishedJobType, SpecialReasons DEF ListNamespaces, MaybeJob
<1>2. going \in SUBSET Namespace
  BY DEF TypeOK
<1>3. [task[s][k] EXCEPT !.pc = pc, !.left = going, !.job = GivenJob(s, k), !.most = most] \in Task
  <2>1. task[s][k] \in Task /\ GivenJob(s, k) \in MaybeJob
    BY TaskParts
  <2>2. pc \in {"recheck", "release"}
    OBVIOUS
  <2> HIDE DEF most, going, pc
  <2> QED
    BY <1>1, <1>2, <2>1, <2>2, TaskHolds
<1>4. task' \in [Server -> [Kinds -> Task]]
  BY <1>3, GoOnType DEF ListNamespaces
<1>5. mem' \in [Server -> MaybeJob]
  BY TaskParts, SetMemType DEF ListNamespaces
<1> QED
  BY <1>4, <1>5 DEF ListNamespaces, TypeOK, db, env

LEMMA ReleaseType ==
  ASSUME TypeOK, NEW s \in Server, NEW k \in Kinds, ReleaseNamespace(s, k)
  PROVE  TypeOK'
<1> DEFINE pc(ns) == IF task[s][k].left = {ns} THEN "recheck" ELSE "release"
<1>1. PICK ns \in task[s][k].left :
        /\ spaces' = spaces \ {ns}
        /\ GoOn(s, k, [task[s][k] EXCEPT !.left = @ \ {ns}, !.pc = pc(ns)])
  BY DEF ReleaseNamespace
<1>2. task[s][k] \in Task
  BY TaskParts
<1>3. [task[s][k] EXCEPT !.left = @ \ {ns}, !.pc = pc(ns)] \in Task
  BY <1>2 DEF Task
<1>4. task' \in [Server -> [Kinds -> Task]]
  <2> HIDE DEF pc
  <2> QED
    BY <1>1, <1>3, GoOnType
<1>5. spaces' \in SUBSET Namespace
  BY <1>1 DEF TypeOK
<1> QED
  BY <1>4, <1>5 DEF ReleaseNamespace, TypeOK, env

LEMMA StateChangeType ==
  ASSUME TypeOK, NEW s \in Server, NEW c \in Change, StateChange(s, c),
         started' \in SUBSET Worker
  PROVE  TypeOK'
<1>1. [ch |-> c, time |-> now] \in Waiting
  BY DEF Waiting, TypeOK
<1>2. line' \in [Server -> Seq(Waiting)]
  BY <1>1 DEF StateChange, TypeOK
<1>3. changes' \in 0..MaxChanges
  BY DEF StateChange, Changed, TypeOK
<1> QED
  BY <1>2, <1>3 DEF StateChange, TypeOK, db

LEMMA AsksType ==
  ASSUME TypeOK, NEW s \in Server, NEW c \in Asked, ClientAsks(s, c) \/ WorkerAsks(s, c)
  PROVE  TypeOK'
<1>1. c \in Change
  OBVIOUS
<1>2. CASE ClientAsks(s, c)
  BY <1>1, <1>2, StateChangeType DEF ClientAsks, TypeOK
<1>3. CASE WorkerAsks(s, c)
  <2>1. c.kind = "Running" => c.worker \in Worker
    BY <1>1 DEF Change
  <2>2. started' \in SUBSET Worker
    BY <1>3, <2>1 DEF WorkerAsks, TypeOK
  <2> QED
    BY <1>1, <1>3, <2>2, StateChangeType DEF WorkerAsks
<1> QED
  BY <1>2, <1>3

LEMMA RequeueJobsType ==
  ASSUME TypeOK, NEW s \in Server, RequeueJobsFromMissingWorkers(s)
  PROVE  TypeOK'
<1>1. Finish("WorkerLost", DefaultNamespace) \in Change
  BY ChangeKinds, SpecialReasons
<1> QED
  BY <1>1, StateChangeType DEF RequeueJobsFromMissingWorkers, TypeOK

LEMMA BeginDirectType ==
  ASSUME TypeOK, NEW s \in Server, NEW c \in Change, BeginDirect(s, c)
  PROVE  task' \in [Server -> [Kinds -> Task]]
<1>1. [Idle EXCEPT !.pc = "start", !.ch = c, !.time = now] \in Task
  <2>1. now \in 0..MaxTime
    BY DEF TypeOK
  <2> QED
    BY <2>1, IdleType DEF Task
<1>2. "direct" \in Kinds
  BY DEF Kinds
<1> QED
  BY <1>1, <1>2, GoOnType DEF BeginDirect

LEMMA DirectType ==
  ASSUME TypeOK, NEW s \in Server, NEW c \in Posted, Direct(s, c)
  PROVE  TypeOK'
<1>1. task' \in [Server -> [Kinds -> Task]]
  BY BeginDirectType DEF Direct
<1>2. changes' \in 0..MaxChanges
  BY DEF Direct, Changed, TypeOK
<1> QED
  BY <1>1, <1>2 DEF Direct, TypeOK, db

LEMMA CheckNoNamespaceType ==
  ASSUME TypeOK, NEW s \in Server, CheckNoNamespace(s)
  PROVE  TypeOK'
<1>1. task' \in [Server -> [Kinds -> Task]] /\ mem' \in [Server -> MaybeJob]
  <2>1. CASE spaces = {} /\ IsUnfinished(mem[s])
    <3>1. Finish("Cancelled", DefaultNamespace) \in Change
      BY ChangeKinds, SpecialReasons
    <3> QED
      BY <2>1, <3>1, BeginDirectType DEF CheckNoNamespace, TypeOK
  <2>2. CASE ~(spaces = {} /\ IsUnfinished(mem[s]))
    <3>1. [mem[s] EXCEPT !.namespaces = spaces] \in MaybeJob
      BY NamespacesType DEF TypeOK
    <3> QED
      BY <2>2, <3>1, SetMemType DEF CheckNoNamespace, TypeOK
  <2> QED
    BY <2>1, <2>2
<1> QED
  BY <1>1 DEF CheckNoNamespace, TypeOK, db, env

LEMMA ProcessType ==
  ASSUME TypeOK, NEW s \in Server, ProcessJobStateChangeQueue(s)
  PROVE  TypeOK'
<1> DEFINE c == Head(line[s])
<1>1. line[s] \in Seq(Waiting) /\ line[s] # <<>>
  BY DEF ProcessJobStateChangeQueue, TypeOK
<1>2. c \in Waiting /\ Tail(line[s]) \in Seq(Waiting)
  BY <1>1
<1>3. [Idle EXCEPT !.pc = "start", !.ch = c.ch, !.time = c.time] \in Task
  <2>1. c.ch \in Change /\ c.time \in 0..MaxTime
    BY <1>2 DEF Waiting
  <2> HIDE DEF c
  <2> QED
    BY <2>1, IdleType DEF Task
<1>4. "line" \in Kinds
  BY DEF Kinds
<1>5. task' \in [Server -> [Kinds -> Task]]
  BY <1>3, <1>4, GoOnType DEF ProcessJobStateChangeQueue
<1>6. line' \in [Server -> Seq(Waiting)]
  BY <1>2 DEF ProcessJobStateChangeQueue, TypeOK
<1> QED
  BY <1>5, <1>6 DEF ProcessJobStateChangeQueue, TypeOK, db, env

LEMMA FinishingType ==
  ASSUME TypeOK, NEW s \in Server, NEW k \in Kinds,
         LookForResult(s, k) \/ DecideResult(s, k) \/ RequeueJob(s, k)
  PROVE  TypeOK'
<1>0. /\ task[s][k] \in Task /\ task[s][k].got \in MaybeJob
      /\ task[s][k].left \in SUBSET Namespace
  BY TaskParts
<1>1. CASE LookForResult(s, k)
  <2>1. [task[s][k] EXCEPT !.pc = "apply"] \in Task
    BY <1>0, TaskGoesOn
  <2>2. task' \in [Server -> [Kinds -> Task]]
    BY <1>1, <2>1, GoOnType, EndType DEF LookForResult
  <2> QED
    BY <1>1, <2>2 DEF LookForResult, TypeOK, db, env
<1>2. CASE DecideResult(s, k)
  <2>1. FinishedJob(s, k) \in MaybeJob
    BY <1>2, FinishedJobType, SpecialReasons DEF DecideResult, MaybeJob
  <2>2. [task[s][k] EXCEPT !.pc = "persist", !.most = FinishedJob(s, k)] \in Task
    BY <1>0, <2>1, TaskGoesOn
  <2>3. task' \in [Server -> [Kinds -> Task]]
    BY <1>2, <2>2, GoOnType, EndType DEF DecideResult
  <2>4. mem' \in [Server -> MaybeJob]
    BY <1>2, TaskParts, SetMemType DEF DecideResult
  <2> QED
    BY <1>2, <2>3, <2>4 DEF DecideResult, TypeOK, db, env
<1>3. CASE RequeueJob(s, k)
  <2> DEFINE queued == SetQueued(FinishedJob(s, k), task[s][k].time)
  <2>1. queued \in MaybeJob
    BY <1>3, FinishedJobType, RequeuedType, SpecialReasons, TaskParts DEF RequeueJob, MaybeJob
  <2>2. [task[s][k] EXCEPT !.pc = "spread", !.most = queued] \in Task
    <3> HIDE DEF queued
    <3> QED
      BY <2>1, TaskParts, TaskGoesOn
  <2>3. task' \in [Server -> [Kinds -> Task]]
    BY <1>3, <2>2, GoOnType, EndType DEF RequeueJob
  <2>4. mem' \in [Server -> MaybeJob]
    BY <1>3, TaskParts, SetMemType DEF RequeueJob
  <2> QED
    BY <1>3, <2>3, <2>4 DEF RequeueJob, TypeOK, db, env
<1> QED
  BY <1>1, <1>2, <1>3

LEMMA WritingType ==
  ASSUME TypeOK, NEW s \in Server, NEW k \in Kinds,
         \/ StoreResult(s, k) \/ ListQueues(s, k) \/ SpreadResult(s, k)
         \/ DeleteFinishedJob(s, k) \/ FetchRunning(s, k)
  PROVE  TypeOK'
<1>1. /\ [task[s][k] EXCEPT !.pc = "spread"] \in Task
      /\ [task[s][k] EXCEPT !.pc = "write"] \in Task
      /\ [task[s][k] EXCEPT !.pc = "settle"] \in Task
      /\ [task[s][k] EXCEPT !.pc = "dropped"] \in Task
  BY TaskParts DEF Task
<1>2. [task[s][k] EXCEPT !.pc = "store", !.got = QueueJobGet] \in Task
  BY TaskParts, QueueJobGetType, TaskGoesOn
<1>3. task' \in [Server -> [Kinds -> Task]]
  <2>1. CASE ListQueues(s, k)
    BY <1>1, <2>1, GoOnType DEF ListQueues
  <2>2. CASE FetchRunning(s, k)
    BY <1>2, <2>2, GoOnType DEF FetchRunning
  <2> QED
    BY <1>1, <2>1, <2>2, GoOnType DEF StoreResult, SpreadResult, DeleteFinishedJob
<1>4. result' \in MaybeJob /\ entry' \in MaybeJob
  BY TaskParts DEF StoreResult, ListQueues, SpreadResult, DeleteFinishedJob, FetchRunning, TypeOK,
     MaybeJob, db
<1> QED
  BY <1>3, <1>4 DEF StoreResult, ListQueues, SpreadResult, DeleteFinishedJob, FetchRunning, TypeOK,
     db, env

LEMMA CountType ==
  ASSUME TypeOK, NEW s \in Server, NEW k \in Kinds, CountNamespaces(s, k)
  PROVE  TypeOK'
<1>1. spaces \in SUBSET Namespace
  BY DEF TypeOK
<1>2. [task[s][k] EXCEPT !.pc = "drop", !.left = spaces] \in Task
  BY <1>1, TaskParts, TaskGoesOn
<1>3. task' \in [Server -> [Kinds -> Task]]
  BY <1>2, GoOnType, EndType DEF CountNamespaces
<1>4. [task[s][k].job EXCEPT !.namespaces = spaces] \in MaybeJob
  BY <1>1, TaskParts, NamespacesType
<1>5. mem' \in [Server -> MaybeJob]
  BY <1>4, SetMemType DEF CountNamespaces, TypeOK
<1> QED
  BY <1>3, <1>5 DEF CountNamespaces, TypeOK, env, db

LEMMA DropType ==
  ASSUME TypeOK, NEW s \in Server, NEW k \in Kinds, DropOrKeep(s, k)
  PROVE  TypeOK'
<1> DEFINE t       == task[s][k]
           updated == [(IF t.left = {} THEN t.most ELSE t.job) EXCEPT !.namespaces = t.left]
<1>1. updated \in MaybeJob
  BY TaskParts, NamespacesType
<1>2. [t EXCEPT !.pc = "settle", !.most = updated] \in Task
  <2>1. t \in Task /\ t.left \in SUBSET Namespace
    BY TaskParts
  <2> HIDE DEF updated, t
  <2> QED
    BY <1>1, <2>1, TaskGoesOn
<1>3. task' \in [Server -> [Kinds -> Task]]
  BY <1>2, GoOnType DEF DropOrKeep
<1>4. entry' \in MaybeJob
  BY <1>1 DEF DropOrKeep, MaybeJob
<1> QED
  BY <1>3, <1>4 DEF DropOrKeep, TypeOK, env

LEMMA SettleType ==
  ASSUME TypeOK, NEW s \in Server, NEW k \in Kinds, Settle(s, k)
  PROVE  TypeOK'
<1>1. mem' \in [Server -> MaybeJob]
  BY TaskParts, SetMemType DEF Settle
<1>2. inbox' \in [Server -> SUBSET Message]
  BY TaskParts, PostType, TellType DEF Settle, Message
<1>3. task' \in [Server -> [Kinds -> Task]]
  BY EndType DEF Settle
<1> QED
  BY <1>1, <1>2, <1>3 DEF Settle, TypeOK, db, env

LEMMA DecideRunningType ==
  ASSUME TypeOK, NEW s \in Server, NEW k \in Kinds, DecideRunning(s, k)
  PROVE  TypeOK'
<1> DEFINE new == SetRunning(Known(s, k), task[s][k].ch.worker, task[s][k].time)
           pc  == IF spaces = {} THEN "store" ELSE "fetch"
<1>1. task[s][k].ch.worker \in Worker \cup {NoWorker}
  BY TaskParts DEF Change
<1>2. Exists(Known(s, k)) => new \in MaybeJob
  BY <1>1, TaskParts, RunningType DEF MaybeJob, Exists
<1>4. [task[s][k] EXCEPT !.got = NoJob, !.pc = pc] \in Task
  <2>1. task[s][k] \in Task /\ NoJob \in MaybeJob
    BY TaskParts DEF MaybeJob
  <2>2. pc \in {"store", "fetch"}
    OBVIOUS
  <2> HIDE DEF pc
  <2> QED
    BY <2>1, <2>2, TaskGoesOn
<1>5. task' \in [Server -> [Kinds -> Task]]
  BY <1>4, GoOnType, EndType DEF DecideRunning
<1>6. mem' \in [Server -> MaybeJob]
  <2> HIDE DEF new
  <2>1. SetMem(s, Known(s, k)) \/ (Exists(Known(s, k)) /\ SetMem(s, new))
    BY DEF DecideRunning, new
  <2> QED
    BY <1>2, <2>1, TaskParts, SetMemType
<1> QED
  BY <1>5, <1>6 DEF DecideRunning, TypeOK, db, env

LEMMA StoreRunningType ==
  ASSUME TypeOK, NEW s \in Server, NEW k \in Kinds, StoreRunning(s, k)
  PROVE  TypeOK'
<1>1. task[s][k].ch.worker \in Worker \cup {NoWorker}
  BY TaskParts DEF Change
<1>2. entry' \in MaybeJob
  BY <1>1, TaskParts, RunningType DEF StoreRunning, TypeOK, MaybeJob, Exists
<1>3. inbox' \in [Server -> SUBSET Message]
  BY TaskParts, TellType DEF StoreRunning
<1>4. task' \in [Server -> [Kinds -> Task]]
  BY EndType DEF StoreRunning
<1> QED
  BY <1>2, <1>3, <1>4 DEF StoreRunning, TypeOK, env

LEMMA ReadForEnqueueType ==
  ASSUME TypeOK, NEW s \in Server, NEW k \in Kinds, ReadForEnqueue(s, k)
  PROVE  TypeOK'
<1> DEFINE job == IF Exists(mem[s]) THEN mem[s] ELSE QueueJobGet
           t   == [task[s][k] EXCEPT !.time = now, !.left = spaces]
<1>1. job \in MaybeJob
  BY TaskParts, QueueJobGetType
<1>2. now \in 0..MaxTime /\ spaces \in SUBSET Namespace
  BY DEF TypeOK
<1>3. t \in Task /\ t.ch.kind = "Queued"
  <2>1. task[s][k] \in Task /\ task[s][k].ch.kind = "Queued"
    BY TaskParts DEF ReadForEnqueue, Doing
  <2> QED
    BY <1>2, <2>1 DEF Task
<1>4. [t EXCEPT !.pc = "join", !.most = job] \in Task /\ [t EXCEPT !.pc = "lookup"] \in Task
  <2> HIDE DEF t, job
  <2> QED
    BY <1>1, <1>3, TaskGoesOn
<1>5. task' \in [Server -> [Kinds -> Task]]
  BY <1>4, GoOnType DEF ReadForEnqueue
<1> QED
  BY <1>5 DEF ReadForEnqueue, TypeOK, db, env

LEMMA QueuedTask ==
  ASSUME TypeOK, NEW s \in Server, NEW k \in Kinds,
         task[s][k].pc \in {"lookup", "insert", "join"}
  PROVE  task[s][k].ch.kind = "Queued" /\ task[s][k].ch.ns \in Namespace
<1>1. task[s][k].ch.kind = "Queued" /\ task[s][k].ch \in Change
  BY TaskParts DEF Task
<1> QED
  BY <1>1 DEF Change

LEMMA LookupResultType ==
  ASSUME TypeOK, NEW s \in Server, NEW k \in Kinds, LookupResult(s, k)
  PROVE  TypeOK'
<1>1. task[s][k].ch.kind = "Queued"
  BY QueuedTask DEF LookupResult, At
<1>2. result \in MaybeJob
  BY DEF TypeOK
<1>3. /\ [task[s][k] EXCEPT !.pc = "join", !.most = result] \in Task
      /\ [task[s][k] EXCEPT !.pc = "insert"] \in Task
  <2>1. task[s][k] \in Task /\ task[s][k].left \in SUBSET Namespace
    BY TaskParts
  <2> QED
    BY <1>1, <1>2, <2>1, TaskGoesOn
<1>4. task' \in [Server -> [Kinds -> Task]]
  BY <1>3, GoOnType DEF LookupResult
<1> QED
  BY <1>4 DEF LookupResult, TypeOK, db, env

LEMMA InsertQueuedType ==
  ASSUME TypeOK, NEW s \in Server, NEW k \in Kinds, InsertQueued(s, k)
  PROVE  TypeOK'
<1> DEFINE queued == QueuedJob(task[s][k].time, task[s][k].left \cup {task[s][k].ch.ns})
<1>1. task[s][k].ch.ns \in Namespace
  BY QueuedTask DEF InsertQueued, At
<1>2. queued \in MaybeJob
  <2>1. task[s][k].left \cup {task[s][k].ch.ns} \in SUBSET Namespace
    BY <1>1, TaskParts
  <2> QED
    BY <2>1, TaskParts, QueuedType DEF MaybeJob
<1>3. [task[s][k] EXCEPT !.pc = "settle", !.most = queued] \in Task
  <2>1. task[s][k] \in Task /\ task[s][k].left \in SUBSET Namespace
    BY TaskParts
  <2> HIDE DEF queued
  <2> QED
    BY <1>2, <2>1, TaskGoesOn
<1>4. task' \in [Server -> [Kinds -> Task]]
  BY <1>3, GoOnType DEF InsertQueued
<1>5. spaces' \in SUBSET Namespace /\ entry' \in MaybeJob
  BY <1>1, <1>2 DEF InsertQueued, TypeOK
<1> QED
  BY <1>4, <1>5 DEF InsertQueued, TypeOK, env

LEMMA JoinNamespaceType ==
  ASSUME TypeOK, NEW s \in Server, NEW k \in Kinds, JoinNamespace(s, k)
  PROVE  TypeOK'
<1>1. task[s][k].ch.ns \in Namespace
  BY QueuedTask DEF JoinNamespace, At
<1>2. spaces \in SUBSET Namespace /\ spaces' \in SUBSET Namespace
  BY <1>1 DEF JoinNamespace, TypeOK
<1>3. PICK seen \in {spaces, spaces'} :
        GoOn(s, k, [task[s][k] EXCEPT !.pc = "settle", !.most.namespaces = seen])
  BY DEF JoinNamespace
<1> DEFINE joined == [task[s][k].most EXCEPT !.namespaces = seen]
<1>4. joined \in MaybeJob
  BY <1>2, TaskParts, NamespacesType
<1>5. [task[s][k] EXCEPT !.pc = "settle", !.most = joined] \in Task
  <2> HIDE DEF joined
  <2> QED
    BY <1>4, TaskParts, TaskGoesOn
<1>6. [task[s][k] EXCEPT !.pc = "settle", !.most.namespaces = seen]
        = [task[s][k] EXCEPT !.pc = "settle", !.most = joined]
  BY TaskParts DEF Task
<1>7. task' \in [Server -> [Kinds -> Task]]
  BY <1>3, <1>5, <1>6, GoOnType
<1> QED
  BY <1>2, <1>7 DEF JoinNamespace, TypeOK, env

LEMMA TaskStepType ==
  ASSUME TypeOK, NEW s \in Server, NEW k \in Kinds, TaskStep(s, k)
  PROVE  TypeOK'
BY DecideType, FinishingType, WritingType, ListNamespacesType, ReleaseType, CountType, DropType,
   SettleType, DecideRunningType, StoreRunningType, ReadForEnqueueType, LookupResultType,
   InsertQueuedType, JoinNamespaceType DEF TaskStep

LEMMA ChannelType ==
  ASSUME TypeOK, NEW s \in Server,
         \/ Broadcast(s) \/ ReceiveDelete(s) \/ MergeLoaded(s)
         \/ \E j \in inbox[s] : ReceiveKnown(s, j) \/ ReceiveUnknown(s, j)
  PROVE  TypeOK'
<1>1. CASE Broadcast(s)
  <2>1. mem[s] \in Message
    BY <1>1 DEF Broadcast, IsJobOkForSending, TypeOK, MaybeJob, Message, Exists
  <2> QED
    BY <1>1, <2>1, PostType DEF Broadcast, TypeOK, db, env
<1>2. CASE ReceiveDelete(s)
  <2>1. mem' \in [Server -> MaybeJob]
    BY <1>2, SetMemType DEF ReceiveDelete, MaybeJob
  <2> QED
    BY <1>2, <2>1 DEF ReceiveDelete, TypeOK, db, env
<1>3. CASE MergeLoaded(s)
  <2> DEFINE t == task[s]["merge"]
  <2>1. "merge" \in Kinds
    BY DEF Kinds
  <2>2. t.job \in MaybeJob /\ t.got \in MaybeJob /\ now \in 0..MaxTime
    BY <2>1, TaskParts DEF TypeOK
  <2>3. Exists(t.got) => Merged(t.got, t.job) \in MaybeJob
    BY <2>2, MergedWithType DEF MaybeJob, Exists
  <2>4. SetFinished(t.job, "Cancelled", now) \in MaybeJob
    BY <2>2, FinishedType, SpecialReasons DEF MaybeJob
  <2>5. mem' \in [Server -> MaybeJob]
    <3>1. CASE Exists(t.got)
      BY <1>3, <2>3, <3>1, SetMemType DEF MergeLoaded
    <3>2. CASE ~Exists(t.got)
      BY <1>3, <2>4, <3>2, SetMemType DEF MergeLoaded, TypeOK
    <3> QED
      BY <3>1, <3>2
  <2>6. task' \in [Server -> [Kinds -> Task]]
    BY <1>3, <2>1, EndType DEF MergeLoaded
  <2> QED
    BY <1>3, <2>5, <2>6 DEF MergeLoaded, TypeOK, db, env
<1>4. ASSUME NEW j \in inbox[s], ReceiveKnown(s, j)
      PROVE  TypeOK'
  <2>1. j \in AnyJob
    BY <1>4 DEF ReceiveKnown, TypeOK, Message
  <2>2. Merged(mem[s], j) \in MaybeJob
    BY <1>4, <2>1, MergedType DEF ReceiveKnown, TypeOK, MaybeJob, Exists
  <2>3. mem' \in [Server -> MaybeJob]
    BY <1>4, <2>2, SetMemType DEF ReceiveKnown
  <2> QED
    BY <1>4, <2>3 DEF ReceiveKnown, TypeOK, db, env
<1>5. ASSUME NEW j \in inbox[s], ReceiveUnknown(s, j)
      PROVE  TypeOK'
  <2>1. j \in MaybeJob
    BY <1>5 DEF ReceiveUnknown, TypeOK, Message, MaybeJob
  <2>2. [Idle EXCEPT !.pc = "merge", !.job = j, !.got = QueueJobGet] \in Task
    BY <2>1, IdleType, QueueJobGetType DEF Task
  <2>3. "merge" \in Kinds
    BY DEF Kinds
  <2>4. task' \in [Server -> [Kinds -> Task]]
    BY <1>5, <2>2, <2>3, GoOnType DEF ReceiveUnknown
  <2> QED
    BY <1>5, <2>4 DEF ReceiveUnknown, TypeOK, db, env
<1> QED
  BY <1>1, <1>2, <1>3, <1>4, <1>5

LEMMA StripType ==
  ASSUME NEW t \in Task, NEW left \in SUBSET Namespace, NEW ns \in Namespace,
         NEW pc \in {"erase", "count"}
  PROVE  [t EXCEPT !.left = left, !.ch.ns = ns, !.pc = pc] \in Task
<1> DEFINE ch == [t.ch EXCEPT !.ns = ns]
<1>1. t.ch \in Change
  BY DEF Task
<1>2. ch \in Change /\ ch.kind = t.ch.kind
  BY <1>1 DEF Change
<1>3. [t EXCEPT !.left = left, !.ch.ns = ns, !.pc = pc]
        = [t EXCEPT !.left = left, !.ch = ch, !.pc = pc]
  BY DEF Task
<1>4. [t EXCEPT !.left = left, !.ch = ch, !.pc = pc] \in Task
  <2> HIDE DEF ch
  <2> QED
    BY <1>2 DEF Task
<1> QED
  BY <1>3, <1>4

LEMMA SweepType ==
  ASSUME TypeOK, NEW s \in Server, BeginSweep(s) \/ SweepStep(s)
  PROVE  TypeOK'
<1>1. "sweep" \in Kinds
  BY DEF Kinds
<1>2. CASE BeginSweep(s)
  <2>1. CASE mem[s].namespaces = {}
    BY <1>2, <2>1, SetMemType DEF BeginSweep, TypeOK, MaybeJob, db, env
  <2>2. CASE mem[s].namespaces # {}
    <3>1. mem[s].namespaces \in SUBSET Namespace
      BY <1>2 DEF BeginSweep, IsJobRemovableFromQueue, TypeOK, MaybeJob, AnyJob, Job, Exists
    <3>2. [Idle EXCEPT !.pc = "strip", !.left = mem[s].namespaces] \in Task
      BY <3>1, IdleType DEF Task
    <3> QED
      BY <1>1, <1>2, <2>2, <3>2, GoOnType DEF BeginSweep, TypeOK, db, env
  <2> QED
    BY <2>1, <2>2
<1>3. ASSUME NEW ns \in Namespace, RemoveNamespace(s, ns)
      PROVE  TypeOK'
  <2> DEFINE pc   == IF ns = DefaultNamespace THEN "erase" ELSE "count"
             left == task[s]["sweep"].left \ {ns}
  <2>1. [task[s]["sweep"] EXCEPT !.left = @ \ {ns}, !.ch.ns = ns, !.pc = pc] \in Task
    <3>1. task[s]["sweep"] \in Task /\ left \in SUBSET Namespace
      BY <1>1, TaskParts
    <3>2. pc \in {"erase", "count"}
      OBVIOUS
    <3> QED
      BY <3>1, <3>2, StripType
  <2>2. task' \in [Server -> [Kinds -> Task]]
    BY <1>1, <1>3, <2>1, GoOnType, EndType DEF RemoveNamespace
  <2>3. spaces' \in SUBSET Namespace
    BY <1>3 DEF RemoveNamespace, TypeOK
  <2> QED
    BY <1>3, <2>2, <2>3 DEF RemoveNamespace, TypeOK, env
<1>6. CASE CountSwept(s)
  <2> DEFINE pc == IF spaces \subseteq {task[s]["sweep"].ch.ns} THEN "erase" ELSE "strip"
  <2>1. [task[s]["sweep"] EXCEPT !.pc = pc] \in Task
    BY <1>1, TaskParts DEF Task
  <2>2. task' \in [Server -> [Kinds -> Task]]
    BY <1>1, <1>6, <2>1, GoOnType DEF CountSwept
  <2> QED
    BY <1>6, <2>2 DEF CountSwept, TypeOK, db, env
<1>4. CASE EraseEntry(s)
  <2>1. [task[s]["sweep"] EXCEPT !.pc = "strip"] \in Task
    BY <1>1, TaskParts DEF Task
  <2>2. task' \in [Server -> [Kinds -> Task]]
    BY <1>1, <1>4, <2>1, GoOnType DEF EraseEntry
  <2> QED
    BY <1>4, <2>2 DEF EraseEntry, TypeOK, env, MaybeJob
<1>5. CASE EndSweep(s)
  <2>1. mem' \in [Server -> MaybeJob]
    BY <1>5, SetMemType DEF EndSweep, TypeOK, MaybeJob
  <2>2. task' \in [Server -> [Kinds -> Task]]
    BY <1>1, <1>5, EndType DEF EndSweep
  <2> QED
    BY <1>5, <2>1, <2>2 DEF EndSweep, TypeOK, db, env
<1> QED
  BY <1>2, <1>3, <1>4, <1>5, <1>6 DEF SweepStep

LEMMA RestartType ==
  ASSUME TypeOK, NEW s \in Server, Restart(s)
  PROVE  TypeOK'
<1>1. Loaded \in MaybeJob /\ (IsJobOkForSending(Loaded) => Loaded \in Message)
  BY DEF Loaded, TypeOK, MaybeJob, Message, IsJobOkForSending, Exists
<1>2. mem' \in [Server -> MaybeJob]
  BY <1>1, SetMemType DEF Restart
<1>3. line' \in [Server -> Seq(Waiting)]
  BY DEF Restart, TypeOK
<1>4. inbox' \in [Server -> SUBSET Message]
  BY <1>1 DEF Restart, TypeOK
<1>5. task' \in [Server -> [Kinds -> Task]]
  BY IdleType DEF Restart, TypeOK
<1>6. restarts' \in 0..MaxRestarts
  BY DEF Restart, TypeOK
<1> QED
  BY <1>2, <1>3, <1>4, <1>5, <1>6 DEF Restart, TypeOK, db

LEMMA TypeInit == Init => TypeOK
BY IdleType DEF Init, TypeOK, MaybeJob

LEMMA TypeStep ==
  ASSUME TypeOK, [Next]_vars
  PROVE  TypeOK'
<1>1. ASSUME NEW s \in Server, NEW k \in {"line", "direct"}, TaskStep(s, k)
      PROVE  TypeOK'
  BY <1>1, TaskStepType DEF Kinds
<1>2. ASSUME NEW s \in Server, NEW ns \in Namespace, Supersede(s, ns)
      PROVE  TypeOK'
  BY <1>2, DirectType DEF Supersede
<1>3. CASE Tick
  BY <1>3 DEF Tick, TypeOK, db
<1>4. CASE UNCHANGED vars
  BY <1>4 DEF vars, TypeOK
<1> QED
  BY <1>1, <1>2, <1>3, <1>4, AsksType, DirectType, RequeueJobsType, CheckNoNamespaceType,
     ProcessType, ChannelType, SweepType, RestartType DEF Next

\* Memory, database, tasks and messages keep their shape (the records of
\* types.ts, 160-241).
THEOREM TypeCorrect == Spec => []TypeOK
BY TypeInit, TypeStep, PTL DEF Spec
-----------------------------------------------------------------------------
(***************************************************************************)
(* A server that says a job has its result says so of a job whose result   *)
(* is stored, as long as nobody deletes the job.                           *)
(*                                                                         *)
(* The invariant looks at every place a job may come from: until a result  *)
(* is stored, no memory, no message, no local of a task and not the queue  *)
(* holds the job with a result, but for the tasks that are about to store  *)
(* one.  And what is stored stays, because only a delete removes it.       *)
(***************************************************************************)

\* No client asks for a deletion.
NobodyDeletes == \A c \in Asked \cup Posted : c.why # "Deleted"

Resultless(j) == ~IsFinishedFor(j, Worth)

\* The locals of a task of a job that has no stored result.
TaskResultless(t) ==
  /\ Resultless(t.job) /\ Resultless(t.got)
  /\ t.pc # "persist" => Resultless(t.most)

TasksResultless == \A s \in Server, k \in Kinds : TaskResultless(task[s][k])

MemoryResultless == \A s \in Server : Resultless(mem[s])
InboxResultless  == \A s \in Server : \A m \in inbox[s] : Resultless(m)

NothingTold ==
  /\ MemoryResultless /\ InboxResultless /\ TasksResultless
  /\ Resultless(entry)

\* A task does not delete, and one about to store a result has one.
TaskStores(t) == t.ch.why # "Deleted" /\ (t.pc = "persist" => Exists(t.most))

TasksStore == \A s \in Server, k \in Kinds : TaskStores(task[s][k])
LineStores == \A s \in Server : \A i \in 1..Len(line[s]) : line[s][i].ch.why # "Deleted"

Stores == LineStores /\ TasksStore

IInv == TypeOK /\ Stores /\ (Exists(result) \/ NothingTold)
-----------------------------------------------------------------------------
(* The records.                                                            *)

LEMMA ResultlessMade ==
  /\ Resultless(NoJob) /\ Resultless(DeleteCachedJob)
  /\ \A t, ns : Resultless(QueuedJob(t, ns))
  /\ \A j, t : Resultless(SetQueued(j, t))
  /\ \A j \in AnyJob : \A w, t : Resultless(SetRunning(j, w, t))
  /\ \A j \in AnyJob : Resultless(SetRemoved(j))
BY DEF Resultless, IsFinishedFor, NoJob, DeleteCachedJob, QueuedJob, SetQueued, SetRunning,
       SetRemoved, AnyJob, Job

LEMMA ResultlessFinished ==
  ASSUME NEW j \in MaybeJob, NEW why \in Reasons \ Worth, NEW t
  PROVE  Resultless(SetFinished(j, why, t))
<1>1. CASE Exists(j)
  BY <1>1 DEF Resultless, IsFinishedFor, SetFinished, MaybeJob, AnyJob, Job, Exists
<1>2. CASE ~Exists(j)
  BY <1>2 DEF Resultless, IsFinishedFor, SetFinished
<1> QED
  BY <1>1, <1>2

\* Setting the namespaces of a job leaves its state alone.
LEMMA ResultlessNamespaces ==
  ASSUME NEW j \in MaybeJob, NEW left, Resultless(j)
  PROVE  Resultless([j EXCEPT !.namespaces = left])
<1>1. CASE j \in AnyJob
  BY <1>1 DEF Resultless, IsFinishedFor, AnyJob, Job
<1>2. CASE j = NoJob
  <2>1. [NoJob EXCEPT !.namespaces = left] = NoJob
    BY DEF NoJob
  <2> QED
    BY <1>2, <2>1
<1> QED
  BY <1>1, <1>2 DEF MaybeJob

LEMMA ResultlessMerged ==
  ASSUME NEW ours \in AnyJob, NEW theirs, Resultless(ours), Resultless(theirs)
  PROVE  Resultless(Merged(ours, theirs))
BY ResultlessMade DEF Merged, ResolveMostCorrectJob

LEMMA ResultlessGet ==
  ASSUME TypeOK, Resultless(entry)
  PROVE  Resultless(QueueJobGet)
BY ResultlessNamespaces, ResultlessMade DEF QueueJobGet, TypeOK

LEMMA IdleStores == TaskStores(Idle) /\ TaskResultless(Idle)
BY ResultlessMade DEF TaskStores, TaskResultless, Idle, Enqueue, NoReason

-----------------------------------------------------------------------------
(* Deletions: none is ever under way.                                      *)

LEMMA GoOnStores ==
  ASSUME TypeOK, TasksStore, NEW s \in Server, NEW k \in Kinds, NEW t, TaskStores(t), GoOn(s, k, t)
  PROVE  TasksStore'
BY DEF TypeOK, TasksStore, GoOn

LEMMA EndStores ==
  ASSUME TypeOK, TasksStore, NEW s \in Server, NEW k \in Kinds, End(s, k)
  PROVE  TasksStore'
BY GoOnStores, IdleStores DEF End

LEMMA StateChangeStores ==
  ASSUME TypeOK, Stores, NEW s \in Server, NEW c \in Change, c.why # "Deleted", StateChange(s, c)
  PROVE  Stores'
<1> DEFINE w == [ch |-> c, time |-> now]
<1>1. line[s] \in Seq(Waiting) /\ w \in Waiting
  BY DEF TypeOK, Waiting
<1>2. /\ Len(Append(line[s], w)) = Len(line[s]) + 1
      /\ \A i \in 1..Len(line[s]) : Append(line[s], w)[i] = line[s][i]
      /\ Append(line[s], w)[Len(line[s]) + 1] = w
  BY <1>1
<1>3. \A i \in 1..Len(Append(line[s], w)) : Append(line[s], w)[i].ch.why # "Deleted"
  <2> TAKE i \in 1..Len(Append(line[s], w))
  <2>1. Len(line[s]) \in Nat
    BY <1>1
  <2>2. CASE i \in 1..Len(line[s])
    BY <1>2, <2>2 DEF Stores, LineStores
  <2>3. CASE i = Len(line[s]) + 1
    BY <1>2, <2>3
  <2> QED
    BY <1>2, <2>1, <2>2, <2>3
<1>4. line' = [line EXCEPT ![s] = Append(line[s], w)]
  BY DEF StateChange
<1>5. LineStores'
  <2> HIDE DEF w
  <2> QED
    BY <1>3, <1>4 DEF LineStores, Stores, TypeOK
<1> QED
  BY <1>5 DEF StateChange, Stores, TasksStore

LEMMA ProcessStores ==
  ASSUME TypeOK, Stores, NEW s \in Server, ProcessJobStateChangeQueue(s)
  PROVE  Stores'
<1> DEFINE c == Head(line[s])
<1>1. line[s] \in Seq(Waiting) /\ line[s] # <<>>
  BY DEF TypeOK, ProcessJobStateChangeQueue
<1>2. /\ Len(line[s]) \in Nat \ {0}
      /\ c = line[s][1]
      /\ Len(Tail(line[s])) = Len(line[s]) - 1
      /\ \A i \in 1..Len(Tail(line[s])) : Tail(line[s])[i] = line[s][i + 1]
  BY <1>1
<1>3. c.ch.why # "Deleted"
  BY <1>2 DEF Stores, LineStores
<1>4. TaskStores([Idle EXCEPT !.pc = "start", !.ch = c.ch, !.time = c.time])
  <2> HIDE DEF c
  <2> QED
    BY <1>3 DEF TaskStores, Idle
<1>5. TasksStore'
  BY <1>4, GoOnStores DEF ProcessJobStateChangeQueue, Stores, Kinds
<1>6. \A i \in 1..Len(Tail(line[s])) : Tail(line[s])[i].ch.why # "Deleted"
  BY <1>2 DEF Stores, LineStores
<1>7. line' = [line EXCEPT ![s] = Tail(line[s])]
  BY DEF ProcessJobStateChangeQueue
<1>8. LineStores'
  BY <1>6, <1>7 DEF LineStores, Stores, TypeOK
<1> QED
  BY <1>5, <1>8 DEF Stores

\* A step of a task keeps its change; only FinishedJob is stored.
LEMMA TaskStepStores ==
  ASSUME TypeOK, Stores, NEW s \in Server, NEW k \in Kinds, TaskStep(s, k)
  PROVE  TasksStore' /\ line' = line
<1> DEFINE t == task[s][k]
<1>1. t \in Task /\ TaskStores(t)
  BY TaskParts DEF Stores, TasksStore
<1>3. CASE DecideResult(s, k)
  <2>1. Exists(FinishedJob(s, k))
    BY <1>3, FinishedJobType, JobsExist, SpecialReasons DEF DecideResult
  <2>2. TaskStores([t EXCEPT !.pc = "persist", !.most = FinishedJob(s, k)])
    BY <1>1, <2>1 DEF TaskStores, Task
  <2> QED
    BY <1>3, <2>2, GoOnStores, EndStores DEF DecideResult, Stores
<1>4. CASE LoadMissingJob(s, k)
  <2>1. TaskStores([t EXCEPT !.pc = "decide", !.got = QueueJobGet])
    BY <1>1 DEF TaskStores, Task
  <2> QED
    BY <1>4, <2>1, GoOnStores DEF LoadMissingJob, Stores
<1>5. CASE LookForResult(s, k)
  <2>1. TaskStores([t EXCEPT !.pc = "apply"])
    BY <1>1 DEF TaskStores, Task
  <2> QED
    BY <1>5, <2>1, GoOnStores, EndStores DEF LookForResult, Stores
<1>6. CASE StoreResult(s, k) \/ SpreadResult(s, k) \/ DeleteFinishedJob(s, k)
  <2>1. \A pc \in {"spread", "settle", "dropped"} : TaskStores([t EXCEPT !.pc = pc])
    BY <1>1 DEF TaskStores, Task
  <2> QED
    BY <1>6, <2>1, GoOnStores DEF StoreResult, SpreadResult, DeleteFinishedJob, Stores
<1>20. CASE ListQueues(s, k)
  <2> DEFINE pc == IF spaces = {} THEN "settle" ELSE "write"
  <2>1. GoOn(s, k, [t EXCEPT !.pc = pc]) /\ pc # "persist"
    BY <1>20 DEF ListQueues
  <2> HIDE DEF pc
  <2>2. TaskStores([t EXCEPT !.pc = pc])
    BY <1>1, <2>1 DEF TaskStores, Task
  <2> QED
    BY <1>20, <2>1, <2>2, GoOnStores DEF ListQueues, Stores
<1>7. CASE RequeueJob(s, k)
  <2>1. \A j : TaskStores([t EXCEPT !.pc = "spread", !.most = j])
    BY <1>1 DEF TaskStores, Task
  <2> QED
    BY <1>7, <2>1, GoOnStores, EndStores DEF RequeueJob, Stores
<1>8. CASE ListNamespaces(s, k)
  <2> DEFINE ns    == t.ch.ns
             going == IF ns = AllNamespaces THEN spaces ELSE spaces \cap {ns}
             most  == IF StaysAsItIs(s, k) THEN GivenJob(s, k) ELSE FinishedJob(s, k)
             pc    == IF going = {} THEN "recheck" ELSE "release"
  <2>1. /\ GoOn(s, k, [t EXCEPT !.pc = pc, !.left = going, !.job = GivenJob(s, k), !.most = most])
        /\ pc # "persist"
    BY <1>8 DEF ListNamespaces
  <2> HIDE DEF going, most, pc
  <2>2. TaskStores([t EXCEPT !.pc = pc, !.left = going, !.job = GivenJob(s, k), !.most = most])
    BY <1>1, <2>1 DEF TaskStores, Task
  <2> QED
    BY <1>8, <2>1, <2>2, GoOnStores DEF ListNamespaces, Stores
<1>18. CASE ReleaseNamespace(s, k)
  <2> DEFINE pc(ns) == IF t.left = {ns} THEN "recheck" ELSE "release"
  <2>1. PICK ns : GoOn(s, k, [t EXCEPT !.left = @ \ {ns}, !.pc = pc(ns)])
    BY <1>18 DEF ReleaseNamespace
  <2>2. pc(ns) # "persist"
    OBVIOUS
  <2> HIDE DEF pc
  <2>3. TaskStores([t EXCEPT !.left = @ \ {ns}, !.pc = pc(ns)])
    BY <1>1, <2>2 DEF TaskStores, Task
  <2> QED
    BY <1>18, <2>1, <2>3, GoOnStores DEF ReleaseNamespace, Stores
<1>9. CASE CountNamespaces(s, k)
  <2>1. \A left : TaskStores([t EXCEPT !.pc = "drop", !.left = left])
    BY <1>1 DEF TaskStores, Task
  <2> QED
    BY <1>9, <2>1, GoOnStores, EndStores DEF CountNamespaces, Stores
<1>10. CASE DropOrKeep(s, k)
  <2>1. \A m : TaskStores([t EXCEPT !.pc = "settle", !.most = m])
    BY <1>1 DEF TaskStores, Task
  <2> QED
    BY <1>10, <2>1, GoOnStores DEF DropOrKeep, Stores
<1>11. CASE Settle(s, k) \/ StoreRunning(s, k)
  BY <1>11, EndStores DEF Settle, StoreRunning, Stores
<1>12. CASE DecideRunning(s, k)
  <2> DEFINE pc == IF spaces = {} THEN "store" ELSE "fetch"
  <2>1. End(s, k) \/ GoOn(s, k, [t EXCEPT !.got = NoJob, !.pc = pc])
    BY <1>12 DEF DecideRunning
  <2>2. pc # "persist"
    OBVIOUS
  <2> HIDE DEF pc
  <2>3. TaskStores([t EXCEPT !.got = NoJob, !.pc = pc])
    BY <1>1, <2>2 DEF TaskStores, Task
  <2> QED
    BY <1>12, <2>1, <2>3, GoOnStores, EndStores DEF DecideRunning, Stores
<1>19. CASE FetchRunning(s, k)
  <2>1. TaskStores([t EXCEPT !.pc = "store", !.got = QueueJobGet])
    BY <1>1 DEF TaskStores, Task
  <2> QED
    BY <1>19, <2>1, GoOnStores DEF FetchRunning, Stores
<1>13. CASE ReadForEnqueue(s, k)
  <2> DEFINE u == [t EXCEPT !.time = now, !.left = spaces]
  <2>1. /\ \A j : TaskStores([u EXCEPT !.pc = "join", !.most = j])
        /\ TaskStores([u EXCEPT !.pc = "lookup"])
    BY <1>1 DEF TaskStores, Task
  <2> HIDE DEF u
  <2>2. \/ \E j : GoOn(s, k, [u EXCEPT !.pc = "join", !.most = j])
        \/ GoOn(s, k, [u EXCEPT !.pc = "lookup"])
    BY <1>13 DEF ReadForEnqueue, u
  <2> QED
    BY <1>13, <2>1, <2>2, GoOnStores DEF ReadForEnqueue, Stores
<1>14. CASE LookupResult(s, k)
  <2>1. /\ TaskStores([t EXCEPT !.pc = "join", !.most = result])
        /\ TaskStores([t EXCEPT !.pc = "insert"])
    BY <1>1 DEF TaskStores, Task
  <2> QED
    BY <1>14, <2>1, GoOnStores DEF LookupResult, Stores
<1>15. CASE InsertQueued(s, k)
  <2>1. \A j : TaskStores([t EXCEPT !.pc = "settle", !.most = j])
    BY <1>1 DEF TaskStores, Task
  <2> QED
    BY <1>15, <2>1, GoOnStores DEF InsertQueued, Stores
<1>16. CASE JoinNamespace(s, k)
  <2>1. \A seen : TaskStores([t EXCEPT !.pc = "settle", !.most.namespaces = seen])
    BY <1>1 DEF TaskStores, Task
  <2> QED
    BY <1>16, <2>1, GoOnStores DEF JoinNamespace, Stores
<1>17. line' = line
  BY DEF TaskStep, LoadMissingJob, LookForResult, DecideResult, StoreResult, RequeueJob,
         ListQueues, SpreadResult, ListNamespaces, ReleaseNamespace, CountNamespaces,
         DeleteFinishedJob, DropOrKeep, Settle, DecideRunning, FetchRunning, StoreRunning,
         ReadForEnqueue, LookupResult, InsertQueued, JoinNamespace
<1> QED
  BY <1>3, <1>4, <1>5, <1>6, <1>7, <1>8, <1>9, <1>10, <1>11, <1>12, <1>13, <1>14, <1>15, <1>16,
     <1>17, <1>18, <1>19, <1>20 DEF TaskStep

LEMMA BeginDirectStores ==
  ASSUME TypeOK, Stores, NEW s \in Server, NEW c, c.why # "Deleted", BeginDirect(s, c)
  PROVE  TasksStore'
<1>1. TaskStores([Idle EXCEPT !.pc = "start", !.ch = c, !.time = now])
  BY DEF TaskStores, Idle
<1> QED
  BY <1>1, GoOnStores DEF BeginDirect, Stores, Kinds

LEMMA ChannelStores ==
  ASSUME TypeOK, Stores, NEW s \in Server,
         \/ Broadcast(s) \/ MergeLoaded(s) \/ ReceiveDelete(s)
         \/ \E j \in inbox[s] : ReceiveKnown(s, j) \/ ReceiveUnknown(s, j)
  PROVE  Stores'
<1>1. ASSUME NEW j, ReceiveUnknown(s, j)
      PROVE  TasksStore'
  <2>1. TaskStores([Idle EXCEPT !.pc = "merge", !.job = j, !.got = QueueJobGet])
    BY IdleStores DEF TaskStores, Idle
  <2> QED
    BY <1>1, <2>1, GoOnStores DEF ReceiveUnknown, Stores, Kinds
<1>2. CASE MergeLoaded(s)
  BY <1>2, EndStores DEF MergeLoaded, Stores, LineStores, Kinds
<1>3. CASE \E j \in inbox[s] : ReceiveUnknown(s, j)
  BY <1>1, <1>3 DEF ReceiveUnknown, Stores, LineStores
<1>4. CASE Broadcast(s) \/ ReceiveDelete(s) \/ \E j \in inbox[s] : ReceiveKnown(s, j)
  BY <1>4 DEF Broadcast, ReceiveDelete, ReceiveKnown, Stores, LineStores, TasksStore
<1> QED
  BY <1>2, <1>3, <1>4

LEMMA SweepStores ==
  ASSUME TypeOK, Stores, NEW s \in Server, BeginSweep(s) \/ SweepStep(s)
  PROVE  Stores'
<1> DEFINE t == task[s]["sweep"]
<1>1. "sweep" \in Kinds
  BY DEF Kinds
<1>2. t \in Task /\ TaskStores(t)
  BY <1>1, TaskParts DEF Stores, TasksStore
<1>3. CASE BeginSweep(s)
  <2>1. \A left : TaskStores([Idle EXCEPT !.pc = "strip", !.left = left])
    BY IdleStores DEF TaskStores, Idle
  <2>2. TasksStore'
    <3>1. CASE mem[s].namespaces = {}
      BY <1>3, <3>1 DEF BeginSweep, Stores, TasksStore
    <3>2. CASE mem[s].namespaces # {}
      BY <1>1, <1>3, <2>1, <3>2, GoOnStores DEF BeginSweep, Stores
    <3> QED
      BY <3>1, <3>2
  <2> QED
    BY <1>3, <2>2 DEF BeginSweep, Stores, LineStores
<1>4. ASSUME NEW ns \in Namespace, RemoveNamespace(s, ns)
      PROVE  Stores'
  <2> DEFINE pc == IF ns = DefaultNamespace THEN "erase" ELSE "count"
  <2>1. pc # "persist"
    OBVIOUS
  <2> HIDE DEF pc
  <2>2. TaskStores([t EXCEPT !.left = @ \ {ns}, !.ch.ns = ns, !.pc = pc])
    BY <1>2, <2>1 DEF TaskStores, Task, Change
  <2>3. GoOn(s, "sweep", [t EXCEPT !.left = @ \ {ns}, !.ch.ns = ns, !.pc = pc]) \/ End(s, "sweep")
    BY <1>4 DEF RemoveNamespace, pc
  <2>4. TasksStore'
    BY <1>1, <2>2, <2>3, GoOnStores, EndStores DEF Stores
  <2> QED
    BY <1>4, <2>4 DEF RemoveNamespace, Stores, LineStores
<1>5. CASE EraseEntry(s)
  <2>1. TaskStores([t EXCEPT !.pc = "strip"])
    BY <1>2 DEF TaskStores, Task
  <2> QED
    BY <1>1, <1>5, <2>1, GoOnStores DEF EraseEntry, Stores, LineStores
<1>6. CASE EndSweep(s)
  BY <1>1, <1>6, EndStores DEF EndSweep, Stores, LineStores
<1>7. CASE CountSwept(s)
  <2>1. \A pc \in {"erase", "strip"} : TaskStores([t EXCEPT !.pc = pc])
    BY <1>2 DEF TaskStores, Task
  <2> DEFINE pc == IF spaces \subseteq {t.ch.ns} THEN "erase" ELSE "strip"
  <2>2. GoOn(s, "sweep", [t EXCEPT !.pc = pc]) /\ pc \in {"erase", "strip"}
    BY <1>7 DEF CountSwept
  <2> HIDE DEF pc
  <2> QED
    BY <1>1, <1>7, <2>1, <2>2, GoOnStores DEF CountSwept, Stores, LineStores
<1> QED
  BY <1>3, <1>4, <1>5, <1>6, <1>7 DEF SweepStep

LEMMA StoresStep ==
  ASSUME NobodyDeletes, TypeOK, Stores, [Next]_vars
  PROVE  Stores'
<1>1. ASSUME NEW s \in Server, NEW c \in Asked, ClientAsks(s, c) \/ WorkerAsks(s, c)
      PROVE  Stores'
  BY <1>1, StateChangeStores, JobQueueAssumption DEF ClientAsks, WorkerAsks, NobodyDeletes
<1>2. ASSUME NEW s \in Server, RequeueJobsFromMissingWorkers(s)
      PROVE  Stores'
  <2>1. /\ Finish("WorkerLost", DefaultNamespace) \in Change
        /\ Finish("WorkerLost", DefaultNamespace).why # "Deleted"
    BY ChangeKinds, SpecialReasons, JobQueueAssumption DEF Finish
  <2> QED
    BY <1>2, <2>1, StateChangeStores DEF RequeueJobsFromMissingWorkers
<1>3. ASSUME NEW s \in Server, NEW c, c.why # "Deleted", Direct(s, c)
      PROVE  Stores'
  BY <1>3, BeginDirectStores DEF Direct, Stores, LineStores
<1>4. ASSUME NEW s \in Server, CheckNoNamespace(s)
      PROVE  Stores'
  <2>1. Finish("Cancelled", DefaultNamespace).why # "Deleted"
    BY DEF Finish
  <2> QED
    BY <1>4, <2>1, BeginDirectStores DEF CheckNoNamespace, Stores, LineStores, TasksStore
<1>5. ASSUME NEW s \in Server, NEW ns \in Namespace, Supersede(s, ns)
      PROVE  Stores'
  BY <1>3, <1>5 DEF Supersede, Finish
<1>6. ASSUME NEW s \in Server, NEW k \in {"line", "direct"}, TaskStep(s, k)
      PROVE  Stores'
  BY <1>6, TaskStepStores DEF Stores, LineStores, Kinds
<1>7. ASSUME NEW s \in Server, Restart(s)
      PROVE  Stores'
  <2>1. LineStores'
    <3>1. 1..Len(<<>>) = {}
      OBVIOUS
    <3>2. \A r \in Server : line'[r] = IF r = s THEN <<>> ELSE line[r]
      BY <1>7 DEF Restart, TypeOK
    <3> QED
      BY <3>1, <3>2 DEF Stores, LineStores
  <2>2. TasksStore'
    BY <1>7, IdleStores DEF Restart, Stores, TasksStore, TypeOK
  <2> QED
    BY <2>1, <2>2 DEF Stores
<1>8. CASE Tick \/ UNCHANGED vars
  BY <1>8 DEF Tick, vars, Stores, LineStores, TasksStore
<1>9. ASSUME NEW s \in Server, NEW c \in Posted, Direct(s, c)
      PROVE  Stores'
  BY <1>3, <1>9 DEF NobodyDeletes
<1> QED
  BY <1>1, <1>2, <1>4, <1>5, <1>6, <1>7, <1>8, <1>9, ProcessStores, ChannelStores, SweepStores
  DEF Next

-----------------------------------------------------------------------------
(* The stored result stays.                                                *)

LEMMA ResultStays ==
  ASSUME TypeOK, Stores, [Next]_vars, Exists(result)
  PROVE  Exists(result')
<1>1. ASSUME NEW s \in Server, NEW k \in Kinds, TaskStep(s, k)
      PROVE  Exists(result')
  <2>1. TaskStores(task[s][k])
    BY DEF Stores, TasksStore
  <2>2. CASE StoreResult(s, k)
    BY <2>1, <2>2 DEF StoreResult, At, TaskStores
  <2>3. ~DeleteFinishedJob(s, k)
    BY <2>1 DEF DeleteFinishedJob, Deletes, TaskStores
  <2>4. CASE ~StoreResult(s, k)
    <3>1. result' = result
      BY <1>1, <2>3, <2>4
      DEF TaskStep, LoadMissingJob, LookForResult, DecideResult, RequeueJob, ListQueues,
          SpreadResult, ListNamespaces, ReleaseNamespace, CountNamespaces, DropOrKeep, Settle,
          DecideRunning, FetchRunning, StoreRunning, ReadForEnqueue, LookupResult, InsertQueued, JoinNamespace, db
    <3> QED
      BY <3>1
  <2> QED
    BY <2>2, <2>4
<1>2. CASE ~\E s \in Server, k \in {"line", "direct"} : TaskStep(s, k)
  <2>1. result' = result
    BY <1>2
    DEF Next, ClientAsks, WorkerAsks, StateChange, Direct, RequeueJobsFromMissingWorkers,
        CheckNoNamespace, Supersede, ProcessJobStateChangeQueue, Broadcast, ReceiveKnown,
        ReceiveUnknown, MergeLoaded, ReceiveDelete, BeginSweep, SweepStep, RemoveNamespace,
        CountSwept, EraseEntry, EndSweep, Restart, Tick, vars, db
  <2> QED
    BY <2>1
<1> QED
  BY <1>1, <1>2 DEF Kinds

-----------------------------------------------------------------------------
(* Until a result is stored, nothing shows one.                            *)

LEMMA GoOnResultless ==
  ASSUME TypeOK, TasksResultless, NEW s \in Server, NEW k \in Kinds, NEW t, TaskResultless(t),
         GoOn(s, k, t)
  PROVE  TasksResultless'
BY DEF TypeOK, TasksResultless, GoOn

LEMMA EndResultless ==
  ASSUME TypeOK, TasksResultless, NEW s \in Server, NEW k \in Kinds, End(s, k)
  PROVE  TasksResultless'
BY GoOnResultless, IdleStores DEF End

LEMMA SetMemResultless ==
  ASSUME TypeOK, MemoryResultless, NEW s \in Server, NEW j, Resultless(j), SetMem(s, j)
  PROVE  MemoryResultless'
BY DEF TypeOK, MemoryResultless, SetMem

LEMMA TellResultless ==
  ASSUME InboxResultless, NEW s \in Server, NEW j, Resultless(j),
         Tell(s, j) \/ Post(s, j)
  PROVE  InboxResultless'
BY DEF InboxResultless, Tell, Post

LEMMA TaskPartsResultless ==
  ASSUME NothingTold, NEW s \in Server, NEW k \in Kinds
  PROVE  /\ TaskResultless(task[s][k])
         /\ Resultless(mem[s])
         /\ Resultless(Known(s, k)) /\ Resultless(GivenJob(s, k))
<1>1. TaskResultless(task[s][k]) /\ Resultless(mem[s])
  BY DEF NothingTold, TasksResultless, MemoryResultless
<1> QED
  BY <1>1 DEF TaskResultless, Known, GivenJob

LEMMA FinishingResultless ==
  ASSUME TypeOK, Stores, ~Exists(result), NothingTold, NEW s \in Server, NEW k \in Kinds,
         \/ LoadMissingJob(s, k) \/ LookForResult(s, k)
         \/ DecideResult(s, k) \/ StoreResult(s, k) \/ RequeueJob(s, k)
         \/ ListQueues(s, k) \/ SpreadResult(s, k)
  PROVE  Exists(result') \/ NothingTold'
<1> DEFINE t == task[s][k]
<1>1. t \in Task /\ TaskResultless(t) /\ TaskStores(t)
  BY TaskParts, TaskPartsResultless DEF Stores, TasksStore
<1>2. SetMem(s, GivenJob(s, k)) => MemoryResultless'
  BY TaskPartsResultless, SetMemResultless DEF NothingTold
<1>3. CASE LoadMissingJob(s, k)
  <2>1. Resultless(QueueJobGet)
    BY ResultlessGet DEF NothingTold
  <2>2. TaskResultless([t EXCEPT !.pc = "decide", !.got = QueueJobGet])
    BY <1>1, <1>3, <2>1 DEF TaskResultless, Task, LoadMissingJob, At
  <2> QED
    BY <1>3, <2>2, GoOnResultless
    DEF LoadMissingJob, NothingTold, MemoryResultless, InboxResultless, db
<1>4. CASE LookForResult(s, k)
  BY <1>4, EndResultless DEF LookForResult, NothingTold, MemoryResultless, InboxResultless, db
<1>5. CASE DecideResult(s, k)
  <2>1. TaskResultless([t EXCEPT !.pc = "persist", !.most = FinishedJob(s, k)])
    BY <1>1 DEF TaskResultless, Task
  <2>2. TasksResultless'
    BY <1>5, <2>1, GoOnResultless, EndResultless DEF DecideResult, NothingTold
  <2> QED
    BY <1>2, <1>5, <2>2 DEF DecideResult, NothingTold, InboxResultless, db
<1>6. CASE StoreResult(s, k)
  BY <1>1, <1>6 DEF StoreResult, At, TaskStores
<1>7. CASE RequeueJob(s, k)
  <2>1. TaskResultless([t EXCEPT !.pc = "spread", !.most = SetQueued(FinishedJob(s, k), t.time)])
    BY <1>1, ResultlessMade DEF TaskResultless, Task
  <2>2. TasksResultless'
    BY <1>7, <2>1, GoOnResultless, EndResultless DEF RequeueJob, NothingTold
  <2> QED
    BY <1>2, <1>7, <2>2 DEF RequeueJob, NothingTold, InboxResultless, db
<1>9. CASE ListQueues(s, k)
  <2> DEFINE pc == IF spaces = {} THEN "settle" ELSE "write"
  <2>1. GoOn(s, k, [t EXCEPT !.pc = pc])
    BY <1>9 DEF ListQueues
  <2> HIDE DEF pc
  <2>2. TaskResultless([t EXCEPT !.pc = pc])
    BY <1>1, <1>9 DEF TaskResultless, Task, ListQueues, At
  <2> QED
    BY <1>9, <2>1, <2>2, GoOnResultless
    DEF ListQueues, NothingTold, MemoryResultless, InboxResultless, db
<1>8. CASE SpreadResult(s, k)
  <2>1. TaskResultless([t EXCEPT !.pc = "settle"]) /\ Resultless(t.most)
    BY <1>1, <1>8 DEF TaskResultless, Task, SpreadResult, At
  <2>2. TasksResultless' /\ Resultless(entry')
    BY <1>8, <2>1, GoOnResultless DEF SpreadResult, NothingTold
  <2> QED
    BY <1>8, <2>2 DEF SpreadResult, NothingTold, MemoryResultless, InboxResultless
<1> QED
  BY <1>3, <1>4, <1>5, <1>6, <1>7, <1>8, <1>9

LEMMA ReleasingResultless ==
  ASSUME TypeOK, NothingTold, NEW s \in Server, NEW k \in Kinds,
         \/ ListNamespaces(s, k) \/ ReleaseNamespace(s, k) \/ CountNamespaces(s, k)
         \/ DeleteFinishedJob(s, k) \/ DropOrKeep(s, k) \/ Settle(s, k)
  PROVE  NothingTold'
<1> DEFINE t == task[s][k]
<1>1. t \in Task /\ TaskResultless(t)
  BY TaskParts, TaskPartsResultless
<1>2. CASE ListNamespaces(s, k)
  <2> DEFINE ns    == t.ch.ns
             going == IF ns = AllNamespaces THEN spaces ELSE spaces \cap {ns}
             pc    == IF going = {} THEN "recheck" ELSE "release"
             most  == IF StaysAsItIs(s, k) THEN GivenJob(s, k) ELSE FinishedJob(s, k)
  <2>1. t.ch.why \in Reasons \ Worth
    BY <1>2, SpecialReasons DEF ListNamespaces
  <2>2. Resultless(FinishedJob(s, k))
    BY <2>1, TaskParts, ResultlessFinished DEF FinishedJob
  <2>3. Resultless(most) /\ Resultless(GivenJob(s, k))
    BY <2>2, TaskPartsResultless
  <2>4. GoOn(s, k, [t EXCEPT !.pc = pc, !.left = going, !.job = GivenJob(s, k), !.most = most])
    BY <1>2 DEF ListNamespaces
  <2> HIDE DEF most, pc, going
  <2>5. TaskResultless([t EXCEPT !.pc = pc, !.left = going, !.job = GivenJob(s, k), !.most = most])
    BY <1>1, <2>3 DEF TaskResultless, Task
  <2>6. TasksResultless'
    BY <2>4, <2>5, GoOnResultless DEF NothingTold
  <2>7. MemoryResultless'
    BY <1>2, <2>3, SetMemResultless DEF ListNamespaces, NothingTold
  <2> QED
    BY <1>2, <2>6, <2>7 DEF ListNamespaces, NothingTold, InboxResultless, db
<1>7. CASE ReleaseNamespace(s, k)
  <2> DEFINE pc(ns) == IF t.left = {ns} THEN "recheck" ELSE "release"
  <2>1. PICK ns : GoOn(s, k, [t EXCEPT !.left = @ \ {ns}, !.pc = pc(ns)])
    BY <1>7 DEF ReleaseNamespace
  <2> HIDE DEF pc
  <2>2. TaskResultless([t EXCEPT !.left = @ \ {ns}, !.pc = pc(ns)])
    BY <1>1, <1>7 DEF TaskResultless, Task, ReleaseNamespace, At
  <2>3. TasksResultless'
    BY <2>1, <2>2, GoOnResultless DEF NothingTold
  <2> QED
    BY <1>7, <2>3 DEF ReleaseNamespace, NothingTold, MemoryResultless, InboxResultless
<1>3. CASE CountNamespaces(s, k)
  <2>1. TaskResultless([t EXCEPT !.pc = "drop", !.left = spaces])
    BY <1>1, <1>3 DEF TaskResultless, Task, CountNamespaces, At
  <2>2. TasksResultless'
    BY <1>3, <2>1, GoOnResultless, EndResultless DEF CountNamespaces, NothingTold
  <2>3. Resultless([t.job EXCEPT !.namespaces = spaces])
    BY <1>1, TaskParts, ResultlessNamespaces DEF TaskResultless
  <2>4. SetMem(s, [t.job EXCEPT !.namespaces = spaces]) => MemoryResultless'
    BY <2>3, SetMemResultless DEF NothingTold
  <2>5. MemoryResultless'
    BY <1>3, <2>4 DEF CountNamespaces, NothingTold, MemoryResultless
  <2> QED
    BY <1>3, <2>2, <2>5 DEF CountNamespaces, NothingTold, InboxResultless, db
<1>4. CASE DeleteFinishedJob(s, k)
  <2>1. TaskResultless([t EXCEPT !.pc = "dropped"])
    BY <1>1, <1>4 DEF TaskResultless, Task, DeleteFinishedJob, At
  <2> QED
    BY <1>4, <2>1, GoOnResultless
    DEF DeleteFinishedJob, NothingTold, MemoryResultless, InboxResultless
<1>5. CASE DropOrKeep(s, k)
  <2> DEFINE from    == IF t.left = {} THEN t.most ELSE t.job
             updated == [from EXCEPT !.namespaces = t.left]
  <2>1. Resultless(from) /\ from \in MaybeJob
    BY <1>1, <1>5, TaskParts DEF TaskResultless, DropOrKeep, At
  <2>2. Resultless(updated)
    <3> HIDE DEF from
    <3> QED
      BY <2>1, ResultlessNamespaces
  <2>3. /\ GoOn(s, k, [t EXCEPT !.pc = "settle", !.most = updated])
        /\ entry' = NoJob \/ entry' = updated
    BY <1>5 DEF DropOrKeep
  <2> HIDE DEF updated
  <2>4. TaskResultless([t EXCEPT !.pc = "settle", !.most = updated])
    BY <1>1, <2>2 DEF TaskResultless, Task
  <2>5. TasksResultless' /\ Resultless(entry')
    BY <2>2, <2>3, <2>4, GoOnResultless, ResultlessMade DEF NothingTold
  <2> QED
    BY <1>5, <2>5 DEF DropOrKeep, NothingTold, MemoryResultless, InboxResultless
<1>6. CASE Settle(s, k)
  <2>1. Resultless(t.most)
    BY <1>1, <1>6 DEF TaskResultless, Settle, At
  <2>2. MemoryResultless'
    BY <1>6, <2>1, SetMemResultless DEF Settle, NothingTold
  <2>3. InboxResultless'
    BY <1>6, <2>1, TellResultless, ResultlessMade DEF Settle, NothingTold
  <2>4. TasksResultless'
    BY <1>6, EndResultless DEF Settle, NothingTold
  <2> QED
    BY <1>6, <2>2, <2>3, <2>4 DEF Settle, NothingTold, db
<1> QED
  BY <1>2, <1>3, <1>4, <1>5, <1>6, <1>7

LEMMA RunningResultless ==
  ASSUME TypeOK, NothingTold, NEW s \in Server, NEW k \in Kinds,
         DecideRunning(s, k) \/ FetchRunning(s, k) \/ StoreRunning(s, k)
  PROVE  NothingTold'
<1> DEFINE t == task[s][k]
<1>1. t \in Task /\ TaskResultless(t)
  BY TaskParts, TaskPartsResultless
<1>2. CASE DecideRunning(s, k)
  <2> DEFINE new == SetRunning(Known(s, k), t.ch.worker, t.time)
             pc  == IF spaces = {} THEN "store" ELSE "fetch"
  <2>1. Exists(Known(s, k)) => Resultless(new)
    BY TaskParts, ResultlessMade DEF MaybeJob, Exists
  <2>3. \/ SetMem(s, Known(s, k)) /\ End(s, k)
        \/ /\ Exists(Known(s, k)) /\ SetMem(s, new)
           /\ GoOn(s, k, [t EXCEPT !.got = NoJob, !.pc = pc])
    BY <1>2 DEF DecideRunning
  <2> HIDE DEF new, pc
  <2>4. t.pc # "persist"
    BY <1>2 DEF DecideRunning, Deciding, At
  <2>5. TaskResultless([t EXCEPT !.got = NoJob, !.pc = pc])
    BY <1>1, <2>4, ResultlessMade DEF TaskResultless, Task
  <2>6. TasksResultless'
    BY <2>3, <2>5, GoOnResultless, EndResultless DEF NothingTold
  <2>7. MemoryResultless'
    BY <2>1, <2>3, TaskPartsResultless, SetMemResultless DEF NothingTold
  <2> QED
    BY <1>2, <2>6, <2>7 DEF DecideRunning, NothingTold, InboxResultless, db
<1>3. CASE StoreRunning(s, k)
  <2>1. Exists(t.got) => Resultless(SetRunning(t.got, t.ch.worker, t.time))
    BY TaskParts, ResultlessMade DEF MaybeJob, Exists
  <2>2. Resultless(entry')
    BY <1>3, <2>1 DEF StoreRunning, NothingTold
  <2>3. InboxResultless'
    BY <1>3, TaskPartsResultless, TellResultless DEF StoreRunning, NothingTold
  <2>4. TasksResultless'
    BY <1>3, EndResultless DEF StoreRunning, NothingTold
  <2> QED
    BY <1>3, <2>2, <2>3, <2>4 DEF StoreRunning, NothingTold, MemoryResultless
<1>4. CASE FetchRunning(s, k)
  <2>1. TaskResultless([t EXCEPT !.pc = "store", !.got = QueueJobGet])
    BY <1>1, <1>4, ResultlessGet DEF TaskResultless, Task, FetchRunning, At, NothingTold
  <2> QED
    BY <1>4, <2>1, GoOnResultless
    DEF FetchRunning, NothingTold, MemoryResultless, InboxResultless, db
<1> QED
  BY <1>2, <1>3, <1>4

LEMMA EnqueueResultless ==
  ASSUME TypeOK, ~Exists(result), NothingTold, NEW s \in Server, NEW k \in Kinds,
         \/ ReadForEnqueue(s, k) \/ LookupResult(s, k)
         \/ InsertQueued(s, k) \/ JoinNamespace(s, k)
  PROVE  NothingTold'
<1> DEFINE t == task[s][k]
<1>1. t \in Task /\ TaskResultless(t)
  BY TaskParts, TaskPartsResultless
<1>2. CASE ReadForEnqueue(s, k)
  <2> DEFINE job == IF Exists(mem[s]) THEN mem[s] ELSE QueueJobGet
             u   == [t EXCEPT !.time = now, !.left = spaces]
  <2>1. Resultless(job)
    BY TaskPartsResultless, ResultlessGet DEF NothingTold
  <2>2. \/ GoOn(s, k, [u EXCEPT !.pc = "join", !.most = job])
        \/ GoOn(s, k, [u EXCEPT !.pc = "lookup"])
    BY <1>2 DEF ReadForEnqueue
  <2> HIDE DEF job
  <2>3. t.pc # "persist"
    BY <1>2 DEF ReadForEnqueue, At
  <2>4. /\ TaskResultless([u EXCEPT !.pc = "join", !.most = job])
        /\ TaskResultless([u EXCEPT !.pc = "lookup"])
    BY <1>1, <2>1, <2>3 DEF TaskResultless, Task
  <2> HIDE DEF u
  <2>5. TasksResultless'
    BY <2>2, <2>4, GoOnResultless DEF NothingTold
  <2> QED
    BY <1>2, <2>5 DEF ReadForEnqueue, NothingTold, MemoryResultless, InboxResultless, db
<1>3. CASE LookupResult(s, k)
  <2>1. TaskResultless([t EXCEPT !.pc = "insert"])
    BY <1>1, <1>3 DEF TaskResultless, Task, LookupResult, At
  <2>2. TasksResultless'
    BY <1>3, <2>1, GoOnResultless DEF LookupResult, NothingTold
  <2> QED
    BY <1>3, <2>2 DEF LookupResult, NothingTold, MemoryResultless, InboxResultless, db
<1>4. CASE InsertQueued(s, k)
  <2> DEFINE queued == QueuedJob(t.time, t.left \cup {t.ch.ns})
  <2>1. Resultless(queued)
    BY ResultlessMade
  <2>2. entry' = queued /\ GoOn(s, k, [t EXCEPT !.pc = "settle", !.most = queued])
    BY <1>4 DEF InsertQueued
  <2> HIDE DEF queued
  <2>3. TaskResultless([t EXCEPT !.pc = "settle", !.most = queued])
    BY <1>1, <2>1 DEF TaskResultless, Task
  <2>4. TasksResultless' /\ Resultless(entry')
    BY <2>1, <2>2, <2>3, GoOnResultless DEF NothingTold
  <2> QED
    BY <1>4, <2>4 DEF InsertQueued, NothingTold, MemoryResultless, InboxResultless
<1>5. CASE JoinNamespace(s, k)
  <2>1. Resultless(t.most)
    BY <1>1, <1>5 DEF TaskResultless, JoinNamespace, At
  <2>2. \A seen : TaskResultless([t EXCEPT !.pc = "settle", !.most.namespaces = seen])
    <3> TAKE seen
    <3> DEFINE joined == [t.most EXCEPT !.namespaces = seen]
    <3>1. Resultless(joined)
      BY <2>1, TaskParts, ResultlessNamespaces
    <3>2. [t EXCEPT !.pc = "settle", !.most.namespaces = seen]
            = [t EXCEPT !.pc = "settle", !.most = joined]
      BY <1>1 DEF Task
    <3> HIDE DEF joined
    <3>3. TaskResultless([t EXCEPT !.pc = "settle", !.most = joined])
      BY <1>1, <3>1 DEF TaskResultless, Task
    <3> QED
      BY <3>2, <3>3
  <2>3. TasksResultless'
    BY <1>5, <2>2, GoOnResultless DEF JoinNamespace, NothingTold
  <2> QED
    BY <1>5, <2>3 DEF JoinNamespace, NothingTold, MemoryResultless, InboxResultless
<1> QED
  BY <1>2, <1>3, <1>4, <1>5

LEMMA ChannelResultless ==
  ASSUME TypeOK, NothingTold, NEW s \in Server,
         \/ Broadcast(s) \/ MergeLoaded(s) \/ ReceiveDelete(s)
         \/ \E j \in inbox[s] : ReceiveKnown(s, j) \/ ReceiveUnknown(s, j)
  PROVE  NothingTold'
<1>1. CASE Broadcast(s)
  <2>1. InboxResultless'
    BY <1>1, TellResultless DEF Broadcast, NothingTold, MemoryResultless
  <2> QED
    BY <1>1, <2>1 DEF Broadcast, NothingTold, MemoryResultless, TasksResultless, db
<1>2. ASSUME NEW j \in inbox[s], ReceiveKnown(s, j)
      PROVE  NothingTold'
  <2>1. mem[s] \in AnyJob
    BY <1>2 DEF ReceiveKnown, TypeOK, MaybeJob, Exists
  <2>2. Resultless(j) /\ Resultless(mem[s])
    BY DEF NothingTold, InboxResultless, MemoryResultless
  <2>3. Resultless(Merged(mem[s], j))
    BY <2>1, <2>2, ResultlessMerged
  <2>4. MemoryResultless'
    BY <1>2, <2>3, SetMemResultless DEF ReceiveKnown, NothingTold
  <2> QED
    BY <1>2, <2>4
    DEF ReceiveKnown, NothingTold, InboxResultless, TasksResultless, TypeOK, db
<1>3. ASSUME NEW j \in inbox[s], ReceiveUnknown(s, j)
      PROVE  NothingTold'
  <2>1. Resultless(j) /\ Resultless(QueueJobGet)
    BY ResultlessGet DEF NothingTold, InboxResultless
  <2>2. TaskResultless([Idle EXCEPT !.pc = "merge", !.job = j, !.got = QueueJobGet])
    BY <2>1, IdleStores DEF TaskResultless, Idle
  <2>3. TasksResultless'
    BY <1>3, <2>2, GoOnResultless DEF ReceiveUnknown, NothingTold, Kinds
  <2> QED
    BY <1>3, <2>3
    DEF ReceiveUnknown, NothingTold, InboxResultless, MemoryResultless, TypeOK, db
<1>4. CASE MergeLoaded(s)
  <2> DEFINE t == task[s]["merge"]
  <2>1. /\ t.got \in MaybeJob /\ t.job \in MaybeJob
        /\ Resultless(t.got) /\ Resultless(t.job)
    BY TaskParts, TaskPartsResultless DEF TaskResultless, Kinds
  <2>2. Exists(t.got) => Resultless(Merged(t.got, t.job))
    BY <2>1, ResultlessMerged DEF MaybeJob, Exists
  <2>3. Resultless(SetFinished(t.job, "Cancelled", now))
    BY <2>1, ResultlessFinished, SpecialReasons DEF Worth
  <2>4. MemoryResultless'
    BY <1>4, <2>2, <2>3, SetMemResultless DEF MergeLoaded, NothingTold, MemoryResultless
  <2>5. TasksResultless'
    BY <1>4, EndResultless DEF MergeLoaded, NothingTold, Kinds
  <2> QED
    BY <1>4, <2>4, <2>5 DEF MergeLoaded, NothingTold, InboxResultless, db
<1>5. CASE ReceiveDelete(s)
  <2>1. MemoryResultless'
    BY <1>5, ResultlessMade, SetMemResultless DEF ReceiveDelete, NothingTold
  <2> QED
    BY <1>5, <2>1 DEF ReceiveDelete, NothingTold, InboxResultless, TasksResultless, TypeOK, db
<1> QED
  BY <1>1, <1>2, <1>3, <1>4, <1>5

LEMMA SweepResultless ==
  ASSUME TypeOK, NothingTold, NEW s \in Server, BeginSweep(s) \/ SweepStep(s)
  PROVE  NothingTold'
<1> DEFINE t == task[s]["sweep"]
<1>1. "sweep" \in Kinds
  BY DEF Kinds
<1>2. t \in Task /\ TaskResultless(t)
  BY <1>1, TaskParts, TaskPartsResultless
<1>3. CASE BeginSweep(s)
  <2>1. \A left : TaskResultless([Idle EXCEPT !.pc = "strip", !.left = left])
    BY IdleStores DEF TaskResultless, Idle
  <2>2. TasksResultless' /\ MemoryResultless'
    <3>1. CASE mem[s].namespaces = {}
      BY <1>3, <3>1, ResultlessMade, SetMemResultless DEF BeginSweep, NothingTold, TasksResultless
    <3>2. CASE mem[s].namespaces # {}
      BY <1>1, <1>3, <2>1, <3>2, GoOnResultless DEF BeginSweep, NothingTold, MemoryResultless
    <3> QED
      BY <3>1, <3>2
  <2> QED
    BY <1>3, <2>2 DEF BeginSweep, NothingTold, InboxResultless, db
<1>4. ASSUME NEW ns \in Namespace, RemoveNamespace(s, ns)
      PROVE  NothingTold'
  <2> DEFINE pc == IF ns = DefaultNamespace THEN "erase" ELSE "count"
  <2>1. GoOn(s, "sweep", [t EXCEPT !.left = @ \ {ns}, !.ch.ns = ns, !.pc = pc]) \/ End(s, "sweep")
    BY <1>4 DEF RemoveNamespace
  <2> HIDE DEF pc
  <2>2. TaskResultless([t EXCEPT !.left = @ \ {ns}, !.ch.ns = ns, !.pc = pc])
    BY <1>2, <1>4 DEF TaskResultless, Task, RemoveNamespace, At
  <2>3. TasksResultless'
    BY <1>1, <2>1, <2>2, GoOnResultless, EndResultless DEF NothingTold
  <2> QED
    BY <1>4, <2>3 DEF RemoveNamespace, NothingTold, MemoryResultless, InboxResultless
<1>5. CASE EraseEntry(s)
  <2>1. TaskResultless([t EXCEPT !.pc = "strip"])
    BY <1>2, <1>5 DEF TaskResultless, Task, EraseEntry, At
  <2> QED
    BY <1>1, <1>5, <2>1, GoOnResultless, ResultlessMade
    DEF EraseEntry, NothingTold, MemoryResultless, InboxResultless
<1>6. CASE EndSweep(s)
  <2>1. MemoryResultless'
    BY <1>6, TaskPartsResultless, SetMemResultless, ResultlessMade, <1>1 DEF EndSweep, NothingTold
  <2> QED
    BY <1>1, <1>6, <2>1, EndResultless DEF EndSweep, NothingTold, InboxResultless, db
<1>7. CASE CountSwept(s)
  <2> DEFINE pc == IF spaces \subseteq {t.ch.ns} THEN "erase" ELSE "strip"
  <2>1. GoOn(s, "sweep", [t EXCEPT !.pc = pc])
    BY <1>7 DEF CountSwept
  <2> HIDE DEF pc
  <2>2. TaskResultless([t EXCEPT !.pc = pc])
    BY <1>2, <1>7 DEF TaskResultless, Task, CountSwept, At
  <2>3. TasksResultless'
    BY <1>1, <2>1, <2>2, GoOnResultless DEF NothingTold
  <2> QED
    BY <1>7, <2>3 DEF CountSwept, NothingTold, MemoryResultless, InboxResultless, db
<1> QED
  BY <1>3, <1>4, <1>5, <1>6, <1>7 DEF SweepStep

LEMMA BeginDirectResultless ==
  ASSUME TypeOK, NothingTold, NEW s \in Server, NEW c, BeginDirect(s, c)
  PROVE  TasksResultless'
<1>1. TaskResultless([Idle EXCEPT !.pc = "start", !.ch = c, !.time = now])
  BY IdleStores DEF TaskResultless, Idle
<1> QED
  BY <1>1, GoOnResultless DEF BeginDirect, NothingTold, Kinds

\* Changes that are asked for or begun show nothing yet.
LEMMA AskingResultless ==
  ASSUME TypeOK, NothingTold, NEW s \in Server,
         \/ \E c \in Asked : ClientAsks(s, c) \/ WorkerAsks(s, c)
         \/ \E c \in Posted : Direct(s, c)
         \/ RequeueJobsFromMissingWorkers(s) \/ CheckNoNamespace(s)
         \/ \E ns \in Namespace : Supersede(s, ns)
         \/ ProcessJobStateChangeQueue(s)
  PROVE  NothingTold'
<1>1. ASSUME NEW c, StateChange(s, c)
      PROVE  NothingTold'
  BY <1>1 DEF StateChange, NothingTold, MemoryResultless, InboxResultless, TasksResultless, db
<1>2. ASSUME NEW c, Direct(s, c)
      PROVE  NothingTold'
  BY <1>2, BeginDirectResultless
  DEF Direct, NothingTold, MemoryResultless, InboxResultless, db
<1>3. CASE CheckNoNamespace(s)
  <2>1. Resultless([mem[s] EXCEPT !.namespaces = spaces])
    BY ResultlessNamespaces DEF NothingTold, MemoryResultless, TypeOK
  <2>2. MemoryResultless'
    BY <1>3, <2>1, SetMemResultless DEF CheckNoNamespace, NothingTold, MemoryResultless
  <2>3. TasksResultless'
    BY <1>3, BeginDirectResultless DEF CheckNoNamespace, NothingTold, TasksResultless
  <2> QED
    BY <1>3, <2>2, <2>3 DEF CheckNoNamespace, NothingTold, InboxResultless, db
<1>4. CASE ProcessJobStateChangeQueue(s)
  <2> DEFINE c == Head(line[s])
  <2>1. TaskResultless([Idle EXCEPT !.pc = "start", !.ch = c.ch, !.time = c.time])
    BY IdleStores DEF TaskResultless, Idle
  <2>2. TasksResultless'
    BY <1>4, <2>1, GoOnResultless DEF ProcessJobStateChangeQueue, NothingTold, Kinds
  <2> QED
    BY <1>4, <2>2
    DEF ProcessJobStateChangeQueue, NothingTold, MemoryResultless, InboxResultless, db
<1> QED
  BY <1>1, <1>2, <1>3, <1>4
  DEF ClientAsks, WorkerAsks, RequeueJobsFromMissingWorkers, Supersede

LEMMA ResultlessStep ==
  ASSUME TypeOK, Stores, ~Exists(result), NothingTold, [Next]_vars
  PROVE  Exists(result') \/ NothingTold'
<1>1. ASSUME NEW s \in Server, NEW k \in {"line", "direct"}, TaskStep(s, k)
      PROVE  Exists(result') \/ NothingTold'
  BY <1>1, FinishingResultless, ReleasingResultless, RunningResultless, EnqueueResultless
  DEF TaskStep, Kinds
<1>2. ASSUME NEW s \in Server, Restart(s)
      PROVE  NothingTold'
  <2>1. Resultless(Loaded)
    BY ResultlessMade DEF Loaded, NothingTold
  <2>2. MemoryResultless'
    BY <1>2, <2>1, SetMemResultless DEF Restart, NothingTold
  <2>3. InboxResultless'
    BY <1>2, <2>1 DEF Restart, NothingTold, InboxResultless
  <2>4. TasksResultless'
    BY <1>2, IdleStores DEF Restart, NothingTold, TasksResultless, TypeOK
  <2> QED
    BY <1>2, <2>2, <2>3, <2>4 DEF Restart, NothingTold, db
<1>3. CASE Tick \/ UNCHANGED vars
  BY <1>3
  DEF Tick, vars, NothingTold, MemoryResultless, InboxResultless, TasksResultless, db
<1> QED
  BY <1>1, <1>2, <1>3, AskingResultless, ChannelResultless, SweepResultless DEF Next

-----------------------------------------------------------------------------
\* "The results have already been persisted in the db" (jobqueue.ts, 901): as
\* long as nobody deletes the job, a server says that it succeeded, failed or
\* timed out only when its result is stored.
THEOREM ResultsAreStored ==
  ASSUME NobodyDeletes
  PROVE  Spec => []ToldIsStored
<1>1. Init => IInv
  <2> SUFFICES ASSUME Init
               PROVE  IInv
    OBVIOUS
  <2>1. TypeOK
    BY TypeInit
  <2>2. Stores
    <3>1. Len(<<>>) = 0
      OBVIOUS
    <3> QED
      BY <3>1, IdleStores DEF Init, Stores, LineStores, TasksStore
  <2>3. NothingTold
    BY IdleStores, ResultlessMade
    DEF Init, NothingTold, MemoryResultless, InboxResultless, TasksResultless
  <2> QED
    BY <2>1, <2>2, <2>3 DEF IInv
<1>2. IInv /\ [Next]_vars => IInv'
  BY TypeStep, StoresStep, ResultStays, ResultlessStep DEF IInv
<1>3. IInv => ToldIsStored
  BY DEF IInv, NothingTold, MemoryResultless, Resultless, ToldIsStored
<1> QED
  BY <1>1, <1>2, <1>3, PTL DEF Spec
=============================================================================
