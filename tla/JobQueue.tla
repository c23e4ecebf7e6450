------------------------------- MODULE JobQueue -------------------------------
(***************************************************************************)
(* The API servers' job queue (BaseDockerJobQueue, jobqueue.ts) and the    *)
(* database operations it uses (db.ts), for one job in one queue that      *)
(* several servers hold.                                                   *)
(*                                                                         *)
(* A server applies a change of the job by an async function.  Every await *)
(* in it lets the same server's other handlers, and the other servers, go  *)
(* on.  Here a function is a task that moves from step to step; one step   *)
(* runs from the end of one await to the effect of the next operation on   *)
(* the database, so everything a task read or captured earlier may be      *)
(* stale when it is used.                                                  *)
(*                                                                         *)
(* A server runs at most one task of each of four kinds here:              *)
(*   line    changes that come through stateChange, one after the other    *)
(*           (StateChangeQueue is about that discipline)                   *)
(*   direct  changes applied past the line: POST submissions (submit.ts)   *)
(*           and those of checkForSourceConflicts                          *)
(*   merge   a broadcast about a job that is not in memory                 *)
(*   sweep   removeOldFinishedJobsFromQueue                                *)
(***************************************************************************)
EXTENDS JobState, Sequences, FiniteSets

CONSTANTS Server, Worker, Namespace,
          Connected,   \* the servers that clients and workers are connected to
          Asked,       \* changes that clients and workers send over sockets
          Posted,      \* changes that reach the functions directly
          MaxChanges,  \* bound: changes made in a behaviour
          MaxTime,     \* bound: the clock
          KeepFor,     \* MAX_TIME_FINISHED_JOB_IN_QUEUE, in ticks
          MaxRestarts, \* bound: restarts of servers
          MaxInFlight  \* bound: messages on their way to a server when another repeats itself

DefaultNamespace == "_"
AllNamespaces    == "*"

Kinds == {"line", "direct", "merge", "sweep"}

\* A change without its time.  A worker comes with a Running change, and only
\* a change to Finished may be about all namespaces.
Change ==
  {c \in [kind : {"Queued", "Running", "Finished"}, why : Reasons \cup {NoReason},
          worker : Worker \cup {NoWorker}, ns : Namespace \cup {AllNamespaces}] :
     /\ c.kind = "Running" => c.worker \in Worker
     /\ c.ns = AllNamespaces => c.kind = "Finished"}

Enqueue(ns)     == [kind |-> "Queued", why |-> NoReason, worker |-> NoWorker, ns |-> ns]
Run(w)          == [kind |-> "Running", why |-> NoReason, worker |-> w, ns |-> DefaultNamespace]
Finish(why, ns) == [kind |-> "Finished", why |-> why, worker |-> NoWorker, ns |-> ns]

ASSUME JobQueueAssumption ==
  /\ Worker \subseteq Nat \ {NoWorker}
  /\ DefaultNamespace \in Namespace
  /\ AllNamespaces \notin Namespace
  /\ Connected \subseteq Server
  /\ Asked \subseteq Change
  /\ Posted \subseteq Change
  /\ {MaxChanges, MaxTime, KeepFor, MaxRestarts, MaxInFlight} \subseteq Nat

VARIABLES
  mem,      \* mem[s]: state.jobs[jobId] on server s
  entry,    \* database: ["queue", queue, jobId]
  result,   \* database: ["job-finished", jobId]
  spaces,   \* database: the namespaces n of ["job-queue-namespace", jobId, queue, n]
  line,     \* line[s]: the changes waiting in jobsStateChangesInternalQueue
  task,     \* task[s][k]: what the task of kind k on server s is doing
  inbox,    \* inbox[s]: channel messages on their way to s
  started,  \* the workers that have reported that they run the job
  now,      \* the clock
  changes,  \* how many changes were made
  restarts  \* how many times a server restarted

db   == <<entry, result, spaces>>
env  == <<started, now, changes, restarts>>
vars == <<mem, entry, result, spaces, line, task, inbox, started, now, changes, restarts>>

AnyJob  == Job(0..MaxTime, Worker, Namespace)
MaybeJob == AnyJob \cup {NoJob}

\* Locals of a task: the change and its time, the job it works on, the job it
\* will leave, what it read from the database, the namespaces it read.
Task ==
  {t \in [pc : {"idle", "start", "decide", "apply", "persist", "spread", "write", "release",
                "recheck", "drop", "dropped", "settle", "fetch", "store", "lookup", "insert",
                "join", "merge", "strip", "count", "erase"},
          ch : Change, time : 0..MaxTime, job : MaybeJob, most : MaybeJob,
          got : MaybeJob, left : SUBSET Namespace] :
     t.pc \in {"lookup", "insert", "join"} => t.ch.kind = "Queued"}

\* A change in the line.
Waiting == [ch : Change, time : 0..MaxTime]

\* A channel message: a job, or the one to forget it ("delete-cached-job").
DeleteCachedJob == [state |-> "DeleteCachedJob"]
Message         == AnyJob \cup {DeleteCachedJob}

TypeOK ==
  /\ mem \in [Server -> MaybeJob]
  /\ entry \in MaybeJob
  /\ result \in MaybeJob
  /\ spaces \in SUBSET Namespace
  /\ line \in [Server -> Seq(Waiting)]
  /\ task \in [Server -> [Kinds -> Task]]
  /\ inbox \in [Server -> SUBSET Message]
  /\ started \in SUBSET Worker
  /\ now \in 0..MaxTime
  /\ changes \in 0..MaxChanges
  /\ restarts \in 0..MaxRestarts

Idle ==
  [pc |-> "idle", ch |-> Enqueue(DefaultNamespace), time |-> 0, job |-> NoJob,
   most |-> NoJob, got |-> NoJob, left |-> {}]

\* No job anywhere.
Init ==
  /\ mem = [s \in Server |-> NoJob]
  /\ entry = NoJob /\ result = NoJob /\ spaces = {}
  /\ line = [s \in Server |-> <<>>]
  /\ task = [s \in Server |-> [k \in Kinds |-> Idle]]
  /\ inbox = [s \in Server |-> {}]
  /\ started = {} /\ now = 0 /\ changes = 0 /\ restarts = 0

-----------------------------------------------------------------------------
(* Helpers.                                                                *)

At(s, k, pc)  == task[s][k].pc = pc
Doing(s, k, kind) == task[s][k].ch.kind = kind

\* The task goes on as t; the task ends.
GoOn(s, k, t) == task' = [task EXCEPT ![s][k] = t]
End(s, k)     == GoOn(s, k, Idle)

SetMem(s, j) == mem' = [mem EXCEPT ![s] = j]

\* queueJobGet: the queue's entry with the namespaces of the job.
QueueJobGet == IF Exists(entry) THEN [entry EXCEPT !.namespaces = spaces] ELSE NoJob

Post(s, m) ==
  inbox' = [r \in Server |-> IF r = s THEN inbox[r] ELSE inbox[r] \cup {m}]

\* broadcastJobStatesToChannel, when server s holds j.
Tell(s, j) == IF IsJobOkForSending(j) THEN Post(s, j) ELSE UNCHANGED inbox

IsJobRemovableFromQueue(j) ==
  Exists(j) /\ j.state = "Finished" /\ now - j.time > KeepFor

-----------------------------------------------------------------------------
(* Where changes come from.                                                *)

Changed == changes < MaxChanges /\ changes' = changes + 1

\* stateChange: server s is asked for a change.
StateChange(s, c) ==
  /\ Changed
  /\ line' = [line EXCEPT ![s] = Append(@, [ch |-> c, time |-> now])]
  /\ UNCHANGED <<mem, db, task, inbox, now, restarts>>

\* Clients submit, cancel and delete.
ClientAsks(s, c) ==
  /\ c.kind = "Queued" \/ (c.kind = "Finished" /\ c.why \notin Worth)
  /\ StateChange(s, c)
  /\ UNCHANGED started

\* A worker reports a job it was shown, or reports it again, and finishes a job
\* it has reported.
WorkerAsks(s, c) ==
  /\ \/ /\ c.kind = "Running"
        /\ c.worker \in started \/ \E r \in Server : IsJobOkForSending(mem[r])
        /\ started' = started \cup {c.worker}
     \/ /\ c.kind = "Finished" /\ c.why \in Worth
        /\ started # {}
        /\ UNCHANGED started
  /\ StateChange(s, c)

\* processJobStateChangeQueue begins with the next change of the line.
ProcessJobStateChangeQueue(s) ==
  /\ At(s, "line", "idle") /\ line[s] # <<>>
  /\ LET c == Head(line[s]) IN
       GoOn(s, "line", [Idle EXCEPT !.pc = "start", !.ch = c.ch, !.time = c.time])
  /\ line' = [line EXCEPT ![s] = Tail(@)]
  /\ UNCHANGED <<mem, db, inbox, env>>

BeginDirect(s, c) ==
  /\ At(s, "direct", "idle")
  /\ GoOn(s, "direct", [Idle EXCEPT !.pc = "start", !.ch = c, !.time = now])

\* stateChangeJobEnqueue called by the submit route.
Direct(s, c) ==
  /\ Changed
  /\ BeginDirect(s, c)
  /\ UNCHANGED <<mem, db, line, inbox, started, now, restarts>>

\* requeueJobsFromMissingWorkers: the worker of a running job is not known to
\* server s.  Which workers it knows is left open.
RequeueJobsFromMissingWorkers(s) ==
  /\ Exists(mem[s]) /\ mem[s].state = "Running"
  /\ StateChange(s, Finish("WorkerLost", DefaultNamespace))
  /\ UNCHANGED started

\* checkForSourceConflicts, a job that has no namespaces in memory: they are
\* read, and a job that has none and is not finished is cancelled.
CheckNoNamespace(s) ==
  /\ Exists(mem[s]) /\ mem[s].namespaces = {}
  /\ IF spaces = {} /\ IsUnfinished(mem[s])
     THEN BeginDirect(s, Finish("Cancelled", DefaultNamespace)) /\ UNCHANGED mem
     ELSE SetMem(s, [mem[s] EXCEPT !.namespaces = spaces]) /\ UNCHANGED task
  /\ UNCHANGED <<db, line, inbox, env>>

\* checkForSourceConflicts, a job that a newer one of the same namespace
\* replaces.  The newer job is not in this module, so it may come at any time.
Supersede(s, ns) ==
  /\ Finish("JobReplacedByClient", ns) \in Posted
  /\ Exists(mem[s]) /\ ns \in mem[s].namespaces \ {DefaultNamespace}
  /\ Direct(s, Finish("JobReplacedByClient", ns))

-----------------------------------------------------------------------------
(* stateChangeJobFinished and stateChangeJobRunning: finding the job.      *)

LoadMissingJob(s, k) ==
  /\ At(s, k, "start") /\ ~Doing(s, k, "Queued")
  /\ ~Exists(mem[s])
  /\ GoOn(s, k, [task[s][k] EXCEPT !.pc = "decide", !.got = QueueJobGet])
  /\ UNCHANGED <<mem, db, line, inbox, env>>

\* The job in memory once what was loaded, if anything, has been put there.
Known(s, k) ==
  IF At(s, k, "decide") /\ Exists(task[s][k].got) THEN task[s][k].got ELSE mem[s]

Deciding(s, k, kind) ==
  /\ Doing(s, k, kind)
  /\ At(s, k, "decide") \/ (At(s, k, "start") /\ Exists(mem[s]))

\* Neither in memory nor in the queue: is a result stored?
LookForResult(s, k) ==
  /\ Deciding(s, k, "Finished") /\ ~Exists(Known(s, k))
  /\ IF Exists(result) THEN GoOn(s, k, [task[s][k] EXCEPT !.pc = "apply"]) ELSE End(s, k)
  /\ UNCHANGED <<mem, db, line, inbox, env>>

-----------------------------------------------------------------------------
(* setJobFinished (db.ts).  It is given the job in memory, which is absent *)
(* when only a result is stored.                                           *)

Applying(s, k) ==
  \/ Deciding(s, k, "Finished") /\ Exists(Known(s, k))
  \/ At(s, k, "apply")

GivenJob(s, k) == IF At(s, k, "apply") THEN mem[s] ELSE Known(s, k)

FinishedJob(s, k) ==
  SetFinished(GivenJob(s, k), task[s][k].ch.why, task[s][k].time)

StaysAsItIs(s, k) == KeepsFirst(GivenJob(s, k), FinishedJob(s, k))

\* Mutant: the record of the result is never written.
DecideResultUnstored(s, k) ==
  /\ Applying(s, k) /\ task[s][k].ch.why \in Worth
  /\ SetMem(s, GivenJob(s, k))
  /\ IF StaysAsItIs(s, k) THEN End(s, k)
     ELSE GoOn(s, k, [task[s][k] EXCEPT !.pc = "spread", !.most = FinishedJob(s, k)])
  /\ UNCHANGED <<db, line, inbox, env>>

\* A result that changes the job is stored: its files first,
DecideResult(s, k) ==
  /\ Applying(s, k) /\ task[s][k].ch.why \in Worth
  /\ SetMem(s, GivenJob(s, k))
  /\ IF StaysAsItIs(s, k) THEN End(s, k)
     ELSE GoOn(s, k, [task[s][k] EXCEPT !.pc = "persist", !.most = FinishedJob(s, k)])
  /\ UNCHANGED <<db, line, inbox, env>>

\* then the record of it,
StoreResult(s, k) ==
  /\ At(s, k, "persist")
  /\ result' = task[s][k].most
  /\ GoOn(s, k, [task[s][k] EXCEPT !.pc = "spread"])
  /\ UNCHANGED <<mem, entry, spaces, line, inbox, env>>

\* Mutants: the queued job is not written to the database; a job that has its
\* result is queued again.
RequeueJobUnwritten(s, k) ==
  /\ Applying(s, k) /\ task[s][k].ch.why = "WorkerLost"
  /\ SetMem(s, GivenJob(s, k))
  /\ IF StaysAsItIs(s, k) THEN End(s, k)
     ELSE GoOn(s, k, [task[s][k] EXCEPT
            !.pc = "settle", !.most = SetQueued(FinishedJob(s, k), task[s][k].time)])
  /\ UNCHANGED <<db, line, inbox, env>>

RequeueJobAlways(s, k) ==
  /\ Applying(s, k) /\ task[s][k].ch.why = "WorkerLost"
  /\ SetMem(s, GivenJob(s, k))
  /\ GoOn(s, k, [task[s][k] EXCEPT
       !.pc = "spread", !.most = SetQueued(FinishedJob(s, k), task[s][k].time)])
  /\ UNCHANGED <<db, line, inbox, env>>

\* A lost worker: the job is queued again.
RequeueJob(s, k) ==
  /\ Applying(s, k) /\ task[s][k].ch.why = "WorkerLost"
  /\ SetMem(s, GivenJob(s, k))
  /\ IF StaysAsItIs(s, k) THEN End(s, k)
     ELSE GoOn(s, k, [task[s][k] EXCEPT
            !.pc = "spread", !.most = SetQueued(FinishedJob(s, k), task[s][k].time)])
  /\ UNCHANGED <<db, line, inbox, env>>

\* and both are written to the queues that a namespace is found to hold the job in.
ListQueues(s, k) ==
  /\ At(s, k, "spread")
  /\ GoOn(s, k, [task[s][k] EXCEPT !.pc = IF spaces = {} THEN "settle" ELSE "write"])
  /\ UNCHANGED <<mem, db, line, inbox, env>>

SpreadResult(s, k) ==
  /\ At(s, k, "write")
  /\ entry' = task[s][k].most
  /\ GoOn(s, k, [task[s][k] EXCEPT !.pc = "settle"])
  /\ UNCHANGED <<mem, result, spaces, line, inbox, env>>

\* Cancelled, replaced or deleted: which namespaces are to let go of the job,
ListNamespaces(s, k) ==
  /\ Applying(s, k)
  /\ task[s][k].ch.why \in {"Cancelled", "JobReplacedByClient", "Deleted"}
  /\ SetMem(s, GivenJob(s, k))
  /\ LET ns    == task[s][k].ch.ns
         going == IF ns = AllNamespaces THEN spaces ELSE spaces \cap {ns}
     IN GoOn(s, k, [task[s][k] EXCEPT
          !.pc = IF going = {} THEN "recheck" ELSE "release", !.left = going,
          !.job = GivenJob(s, k),
          !.most = IF StaysAsItIs(s, k) THEN GivenJob(s, k) ELSE FinishedJob(s, k)])
  /\ UNCHANGED <<db, line, inbox, env>>

\* which they do one after the other,
ReleaseNamespace(s, k) ==
  /\ At(s, k, "release")
  /\ \E ns \in task[s][k].left :
       /\ spaces' = spaces \ {ns}
       /\ GoOn(s, k, [task[s][k] EXCEPT !.left = @ \ {ns},
            !.pc = IF task[s][k].left = {ns} THEN "recheck" ELSE "release"])
  /\ UNCHANGED <<mem, entry, result, line, inbox, env>>

\* then the namespaces that are left decide.  A cancelled or replaced job, the
\* one in memory, gets them in place.  Without a given job the change ends here:
\* setting them throws, or, for a delete that other namespaces outlive, leaves
\* a record that has no state, which is not modelled.
CountNamespaces(s, k) ==
  /\ At(s, k, "recheck")
  /\ LET t == task[s][k]
         deletes == t.ch.why = "Deleted"
     IN /\ IF Exists(t.job) \/ (deletes /\ spaces = {})
           THEN GoOn(s, k, [t EXCEPT !.pc = "drop", !.left = spaces]) ELSE End(s, k)
        /\ IF ~deletes /\ Exists(t.job) /\ mem[s] = t.job
           THEN SetMem(s, [t.job EXCEPT !.namespaces = spaces]) ELSE UNCHANGED mem
  /\ UNCHANGED <<db, line, inbox, env>>

Deletes(t) == t.ch.why = "Deleted" /\ t.left = {}

\* A delete that no namespace outlives removes the result first.
DeleteFinishedJob(s, k) ==
  /\ At(s, k, "drop") /\ Deletes(task[s][k])
  /\ result' = NoJob
  /\ GoOn(s, k, [task[s][k] EXCEPT !.pc = "dropped"])
  /\ UNCHANGED <<mem, entry, spaces, line, inbox, env>>

DropOrKeep(s, k) ==
  /\ At(s, k, "dropped") \/ (At(s, k, "drop") /\ ~Deletes(task[s][k]))
  /\ LET t == task[s][k]
         updated == [(IF t.left = {} THEN t.most ELSE t.job) EXCEPT !.namespaces = t.left]
     IN /\ entry' = IF At(s, k, "dropped") THEN NoJob ELSE updated
        /\ GoOn(s, k, [t EXCEPT !.pc = "settle", !.most = updated])
  /\ UNCHANGED <<mem, result, spaces, line, inbox, env>>

\* Every change ends with the job it leaves in memory and on the channel.  The
\* servers are told to forget a deleted job.
Settle(s, k) ==
  /\ At(s, k, "settle")
  /\ SetMem(s, task[s][k].most)
  /\ IF IsFinishedFor(task[s][k].most, {"Deleted"})
     THEN Post(s, DeleteCachedJob) ELSE Tell(s, task[s][k].most)
  /\ End(s, k)
  /\ UNCHANGED <<db, line, env>>

-----------------------------------------------------------------------------
(* stateChangeJobRunning and setJobRunning.                                *)

DecideRunning(s, k) ==
  /\ Deciding(s, k, "Running")
  /\ LET t   == task[s][k]
         job == Known(s, k)
         new == SetRunning(job, t.ch.worker, t.time)
     IN IF ~Exists(job) \/ KeepsFirst(job, new)
        THEN SetMem(s, job) /\ End(s, k)
        ELSE /\ SetMem(s, new)
             /\ GoOn(s, k, [t EXCEPT !.got = NoJob,
                              !.pc = IF spaces = {} THEN "store" ELSE "fetch"])
  /\ UNCHANGED <<db, line, inbox, env>>

\* The queue that a namespace was found to hold the job in is read.
FetchRunning(s, k) ==
  /\ At(s, k, "fetch")
  /\ GoOn(s, k, [task[s][k] EXCEPT !.pc = "store", !.got = QueueJobGet])
  /\ UNCHANGED <<mem, db, line, inbox, env>>

StoreRunning(s, k) ==
  /\ At(s, k, "store")
  /\ LET t == task[s][k] IN
       entry' = IF Exists(t.got) /\ t.got.state # "Finished"
                THEN SetRunning(t.got, t.ch.worker, t.time) ELSE entry
  /\ Tell(s, mem[s])
  /\ End(s, k)
  /\ UNCHANGED <<mem, result, spaces, line, env>>

-----------------------------------------------------------------------------
(* stateChangeJobEnqueue and queueJobAdd.                                  *)

\* The job in memory when the call is made or else the queue's, and the
\* namespaces it has; a job that cannot be queued again is only joined.
ReadForEnqueue(s, k) ==
  /\ At(s, k, "start") /\ Doing(s, k, "Queued")
  /\ LET job == IF Exists(mem[s]) THEN mem[s] ELSE QueueJobGet
         t   == [task[s][k] EXCEPT !.time = now, !.left = spaces]
     IN IF Exists(job) /\ KeepsFirst(job, SetQueued(job, now))
        THEN GoOn(s, k, [t EXCEPT !.pc = "join", !.most = job])
        ELSE GoOn(s, k, [t EXCEPT !.pc = "lookup"])
  /\ UNCHANGED <<mem, db, line, inbox, env>>

LookupResult(s, k) ==
  /\ At(s, k, "lookup")
  /\ IF Exists(result) /\ KeepsFirst(result, SetQueued(result, task[s][k].time))
     THEN GoOn(s, k, [task[s][k] EXCEPT !.pc = "join", !.most = result])
     ELSE GoOn(s, k, [task[s][k] EXCEPT !.pc = "insert"])
  /\ UNCHANGED <<mem, db, line, inbox, env>>

InsertQueued(s, k) ==
  /\ At(s, k, "insert")
  /\ LET t == task[s][k]
         queued == QueuedJob(t.time, t.left \cup {t.ch.ns})
     IN /\ spaces' = spaces \cup {t.ch.ns}
        /\ entry' = queued
        /\ GoOn(s, k, [t EXCEPT !.pc = "settle", !.most = queued])
  /\ UNCHANGED <<mem, result, line, inbox, env>>

\* The write of the namespace is not awaited: the list read right after may
\* or may not have it.
JoinNamespace(s, k) ==
  /\ At(s, k, "join")
  /\ spaces' = spaces \cup {task[s][k].ch.ns}
  /\ \E seen \in {spaces, spaces'} :
       GoOn(s, k, [task[s][k] EXCEPT !.pc = "settle", !.most.namespaces = seen])
  /\ UNCHANGED <<mem, entry, result, line, inbox, env>>

-----------------------------------------------------------------------------
(* The channel.                                                            *)

\* broadcastJobStatesToChannel, every ten seconds.
Broadcast(s) ==
  /\ IsJobOkForSending(mem[s])
  /\ \A r \in Server : Cardinality(inbox[r]) < MaxInFlight
  /\ Post(s, mem[s])
  /\ UNCHANGED <<mem, db, line, task, env>>

\* Mutant: a copy is taken only when it is newer.
MergedIfNewer(ours, theirs) == IF theirs.time > ours.time THEN theirs ELSE ours

\* What "job-states" leaves of our copy and a broadcast one.  With a job that is
\* gone the code also removes its history and the files of its result
\* (deleteJobFinishedResults), which are not in this module; the record stays.
Merged(ours, theirs) ==
  LET chosen == ResolveMostCorrectJob(ours, theirs) IN
    IF IsJobDeletedOrRemoved(chosen) THEN SetRemoved(ours) ELSE chosen

ReceiveKnown(s, j) ==
  /\ j \in inbox[s] \ {DeleteCachedJob}
  /\ Exists(mem[s])
  /\ SetMem(s, Merged(mem[s], j))
  /\ inbox' = [inbox EXCEPT ![s] = @ \ {j}]
  /\ UNCHANGED <<db, line, task, env>>

\* A job that is not in memory is first looked for in the database.
ReceiveUnknown(s, j) ==
  /\ j \in inbox[s] \ {DeleteCachedJob}
  /\ ~Exists(mem[s]) /\ At(s, "merge", "idle")
  /\ GoOn(s, "merge", [Idle EXCEPT !.pc = "merge", !.job = j, !.got = QueueJobGet])
  /\ inbox' = [inbox EXCEPT ![s] = @ \ {j}]
  /\ UNCHANGED <<mem, db, line, env>>

\* Mutant: a job that is not in the database is taken as it was broadcast.
MergeBroadcast(s) ==
  /\ At(s, "merge", "merge")
  /\ LET t == task[s]["merge"] IN
       IF Exists(t.got) THEN SetMem(s, Merged(t.got, t.job)) ELSE SetMem(s, t.job)
  /\ End(s, "merge")
  /\ UNCHANGED <<db, line, inbox, env>>

MergeLoaded(s) ==
  /\ At(s, "merge", "merge")
  /\ LET t == task[s]["merge"] IN
       IF Exists(t.got) THEN SetMem(s, Merged(t.got, t.job))
       ELSE IF IsJobRemovableFromQueue(t.job) THEN UNCHANGED mem
       ELSE SetMem(s, SetFinished(t.job, "Cancelled", now))
  /\ End(s, "merge")
  /\ UNCHANGED <<db, line, inbox, env>>

ReceiveDelete(s) ==
  /\ DeleteCachedJob \in inbox[s]
  /\ SetMem(s, NoJob)
  /\ inbox' = [inbox EXCEPT ![s] = @ \ {DeleteCachedJob}]
  /\ UNCHANGED <<db, line, task, env>>

-----------------------------------------------------------------------------
(* removeOldFinishedJobsFromQueue and queueJobRemove.                      *)

\* A job without namespaces is forgotten at once, and its entry stays.
BeginSweep(s) ==
  /\ At(s, "sweep", "idle") /\ IsJobRemovableFromQueue(mem[s])
  /\ IF mem[s].namespaces = {} THEN SetMem(s, NoJob) /\ UNCHANGED task
     ELSE /\ GoOn(s, "sweep", [Idle EXCEPT !.pc = "strip", !.left = mem[s].namespaces])
          /\ UNCHANGED mem
  /\ UNCHANGED <<db, line, inbox, env>>

\* The default namespace takes the others with it: those found with it go in one
\* step, where the code removes them one by one.
RemoveNamespace(s, ns) ==
  /\ At(s, "sweep", "strip") /\ ns \in task[s]["sweep"].left
  /\ IF IsJobRemovableFromQueue(mem[s])
     THEN /\ spaces' = IF ns = DefaultNamespace THEN {} ELSE spaces \ {ns}
          /\ GoOn(s, "sweep", [task[s]["sweep"] EXCEPT !.left = @ \ {ns}, !.ch.ns = ns,
                !.pc = IF ns = DefaultNamespace THEN "erase" ELSE "count"])
     ELSE End(s, "sweep") /\ UNCHANGED spaces
  /\ UNCHANGED <<mem, entry, result, line, inbox, env>>

\* The entry goes with the last namespace; one that has joined again in the
\* meantime under the removed name does not keep it.
CountSwept(s) ==
  /\ At(s, "sweep", "count")
  /\ GoOn(s, "sweep", [task[s]["sweep"] EXCEPT
       !.pc = IF spaces \subseteq {task[s]["sweep"].ch.ns} THEN "erase" ELSE "strip"])
  /\ UNCHANGED <<mem, db, line, inbox, env>>

EraseEntry(s) ==
  /\ At(s, "sweep", "erase")
  /\ entry' = NoJob
  /\ GoOn(s, "sweep", [task[s]["sweep"] EXCEPT !.pc = "strip"])
  /\ UNCHANGED <<mem, result, spaces, line, inbox, env>>

EndSweep(s) ==
  /\ At(s, "sweep", "strip") /\ task[s]["sweep"].left = {}
  /\ SetMem(s, IF IsJobRemovableFromQueue(mem[s]) THEN NoJob ELSE mem[s])
  /\ End(s, "sweep")
  /\ UNCHANGED <<db, line, inbox, env>>

-----------------------------------------------------------------------------
\* What setup takes from the database: removed and old finished jobs are left.
Loaded ==
  IF Exists(entry) /\ (entry.state = "Removed" \/ IsJobRemovableFromQueue(entry))
  THEN NoJob ELSE entry

\* A server restarts: what it had in memory, and what was on its way to it, is
\* gone; setup loads the queue from the database and broadcasts it.
Restart(s) ==
  /\ restarts < MaxRestarts
  /\ restarts' = restarts + 1
  /\ SetMem(s, Loaded)
  /\ inbox' = [r \in Server |->
       IF r = s THEN {} ELSE IF IsJobOkForSending(Loaded) THEN inbox[r] \cup {Loaded} ELSE inbox[r]]
  /\ line' = [line EXCEPT ![s] = <<>>]
  /\ task' = [task EXCEPT ![s] = [k \in Kinds |-> Idle]]
  /\ UNCHANGED <<db, started, now, changes>>

Tick ==
  /\ now < MaxTime
  /\ now' = now + 1
  /\ UNCHANGED <<mem, db, line, task, inbox, started, changes, restarts>>

\* The next step of the task of kind k.
TaskStep(s, k) ==
  \/ LoadMissingJob(s, k) \/ LookForResult(s, k)
  \/ DecideResult(s, k) \/ StoreResult(s, k)
  \/ RequeueJob(s, k) \/ ListQueues(s, k) \/ SpreadResult(s, k)
  \/ ListNamespaces(s, k) \/ ReleaseNamespace(s, k) \/ CountNamespaces(s, k)
  \/ DeleteFinishedJob(s, k) \/ DropOrKeep(s, k)
  \/ Settle(s, k)
  \/ DecideRunning(s, k) \/ FetchRunning(s, k) \/ StoreRunning(s, k)
  \/ ReadForEnqueue(s, k) \/ LookupResult(s, k) \/ InsertQueued(s, k) \/ JoinNamespace(s, k)

SweepStep(s) ==
  (\E ns \in Namespace : RemoveNamespace(s, ns)) \/ CountSwept(s) \/ EraseEntry(s) \/ EndSweep(s)

Next ==
  \/ \E s \in Server :
       \/ s \in Connected /\ \E c \in Asked : ClientAsks(s, c) \/ WorkerAsks(s, c)
       \/ \E c \in Posted : c.kind = "Queued" /\ Direct(s, c)
       \/ RequeueJobsFromMissingWorkers(s)
       \/ CheckNoNamespace(s)
       \/ \E ns \in Namespace : Supersede(s, ns)
       \/ ProcessJobStateChangeQueue(s)
       \/ \E k \in {"line", "direct"} : TaskStep(s, k)
       \/ Broadcast(s)
       \/ \E j \in inbox[s] : ReceiveKnown(s, j) \/ ReceiveUnknown(s, j)
       \/ MergeLoaded(s)
       \/ ReceiveDelete(s)
       \/ BeginSweep(s) \/ SweepStep(s)
       \/ Restart(s)
  \/ Tick

\* Tasks go on, the line is worked off, the channel delivers and the intervals
\* fire for ever; nothing makes anyone ask for a change or restart.
Fairness ==
  /\ WF_vars(Tick)
  /\ \A s \in Server :
       /\ WF_vars(ProcessJobStateChangeQueue(s))
       /\ WF_vars(TaskStep(s, "line"))
       /\ WF_vars(TaskStep(s, "direct"))
       /\ WF_vars(CheckNoNamespace(s))
       /\ WF_vars(MergeLoaded(s))
       /\ WF_vars(SweepStep(s))
       /\ WF_vars(\E j \in inbox[s] : ReceiveKnown(s, j) \/ ReceiveUnknown(s, j))
       /\ WF_vars(ReceiveDelete(s))
       /\ WF_vars(BeginSweep(s))
       /\ WF_vars(Broadcast(s))

Spec == Init /\ [][Next]_vars /\ Fairness
-----------------------------------------------------------------------------
(* Properties.                                                             *)

\* "The results have already been persisted in the db" (jobqueue.ts, 901): a
\* server that says a job succeeded, failed or timed out, to clients or on the
\* channel, says so of a job that has the record of its result in the database.
ToldIsStored ==
  \A s \in Server : IsFinishedFor(mem[s], Worth) => Exists(result)

AtRest(s) == line[s] = <<>> /\ \A k \in Kinds : At(s, k, "idle")

SameJob(a, b) == a.state = b.state /\ a.reason = b.reason /\ a.worker = b.worker

\* A job to be run that some namespace wants.
Wanted(j) == IsUnfinished(j) /\ j.namespaces # {}

\* "The db is the source of truth" (util.ts, 300): of a job still to be run, an
\* idle server holds what the database holds, so a restart changes nothing.
MemoryIsDatabase ==
  \A s \in Server : AtRest(s) /\ Wanted(mem[s]) => Exists(entry) /\ SameJob(mem[s], entry)

\* A job still to be run on an idle server is in the database at all: the sweep
\* of finished jobs does not take one that was submitted again.
WantedIsStored ==
  \A s \in Server : AtRest(s) /\ Wanted(mem[s]) => Exists(entry)

\* A result that a lost worker does not take back: resolveMostCorrectJob lets a
\* job that timed out be queued again when its worker is lost.
Lasting == {"Success", "Error"}

\* No change is being made past the line.
OnlyTheLine == \A s \in Server : At(s, "direct", "idle")

\* "if a job is Finished, it trumps most things" (util.ts, 304): the database
\* does not replace a job that succeeded or failed by one still to be run.
ResultStands ==
  [][IsFinishedFor(entry, Lasting) => ~IsUnfinished(entry')]_vars

\* A job that has its result is not run again: an idle server that holds it as
\* queued or running knows of no stored result (db.ts, 180: "we need to check if
\* the job is finished").  A crash between the result and the queue's entry does
\* have the job run again, so this is about servers that have not restarted.
NotRunAgain ==
  restarts = 0 =>
    \A s \in Server : AtRest(s) /\ Wanted(mem[s]) => ~IsFinishedFor(result, Lasting)

\* "submit job, allow to finish with success, then cancel, cancel has no effect"
\* (the cancel tests): no server turns a job that succeeded into a cancelled one.
CancelIsNoop ==
  [][\A s \in Server : IsFinishedFor(mem[s], {"Success"}) => ~IsFinishedFor(mem'[s], {"Cancelled"})]_vars

\* "if there are no namespaces left, we can actually delete the job" (db.ts,
\* 522): a result is deleted only while no namespace holds the job.  It is not so
\* when a submission past the line joins between the count and the deletion.
DeleteSparesOthers == [][Exists(result) /\ ~Exists(result') => spaces = {}]_vars

\* "correct job state always wins" (jobqueue.ts, 679): servers that hold the job
\* end up holding it in the same state, unless they never come to rest.
EventuallyAgree ==
  \A r, s \in Server : <>[](Exists(mem[r]) /\ Exists(mem[s]) => SameJob(mem[r], mem[s]))

\* Server s holds a job that finished at time t.
Holds(s, t) == Exists(mem[s]) /\ mem[s].state = "Finished" /\ mem[s].time = t

\* "check the queue a bit later and remove old jobs from the queue" (jobqueue.ts,
\* 900): a finished job leaves the memory of every server for good once it is old.
EventuallyForgotten ==
  \A s \in Server : \A t \in 0..MaxTime : t + KeepFor < MaxTime => <>[]~Holds(s, t)

\* It does once the sweep of some server has erased it from the database, although
\* the other servers still hold it and broadcast it to those that have forgotten it.
ForgottenOnceErased ==
  \A s \in Server : \A t \in 0..MaxTime :
    t + KeepFor < MaxTime => (<>[]~Exists(entry) => <>[]~Holds(s, t))
===============================================================================
