# A verification development for metapages/compute-queues

Compute queues run docker jobs that browsers and programs submit.  A *queue*
has an address.  API servers keep its state; workers connect to any server,
claim queued jobs and report on them; clients connect to any server, submit,
cancel and delete jobs and watch.  Several servers may hold the same queue:
each keeps a copy of every job in memory, they share one database (Deno KV)
and tell each other about changes over a broadcast channel.  There are no
transactions across reads and writes, almost every step of every handler is an
`await`, and workers and servers come and go.  What a careful reader of this
code worries about is therefore: which of two versions of a job wins, what a
handler still believes after an await, and what the database says when a server
restarts.  Around that core, files and images are shared by the jobs of a worker,
sockets are held by two ends that learn of their end at different times, and a
browser keeps a copy of all of it in a store whose functions overlap.

## The system

| part | where | state | operations |
|---|---|---|---|
| job state and conflict resolution | `app/shared/src/shared/util.ts`, `types.ts` | none (pure) | `setJobState*`, `resolveMostCorrectJob`, `isJobOkForSending` |
| API servers' job queue | `jobqueue.ts` (`BaseDockerJobQueue`) | `state.jobs`, the lines of changes, `workers`, sockets, intervals | `stateChange*`, channel handler, `setup`, sweep, requeue of lost workers, `checkForSourceConflicts`, connections |
| the line of changes of one job | `jobqueue.ts` 726-777 | `jobsStateChangesInternalQueue` | `stateChange`, `processJobStateChangeQueue` |
| job database | `db.ts` | queue entry, result record, namespaces, history, definitions | `queueJobAdd`, `setJobRunning`, `setJobFinished`, `queueJobRemove`, ... |
| HTTP routes | `app/api/src/routes` | none | `submit` calls the queue's functions directly; `cancel` repeats a change until it holds; the others read |
| worker queue | `app/worker/src/queue/DockerJobQueue.ts` | `apiQueue` (what the server said), `queue` (what runs here), GPU slots, timers | updates, `_checkRunningJobs`, `_claimJobs`, `_startJob`, `_killJobAndIgnore` |
| worker container, cleanup, definitions | `DockerJob.ts`, `cleanup.ts`, `JobDefinitionCache.ts` | containers, cache | run, kill, time out |
| inputs and outputs | `jobtools.ts`, `IO.ts`, `dataref.ts` | files by content hash, each job's directories | copy inputs, collect outputs |
| docker images | `app/worker/src/queue/dockerImage.ts` | docker's images, the record of those pulled, the build directory | pull, download and unpack a context, build, push |
| worker local mode | `app/worker/src/lib/local-handler.ts` | the same files; the same queue class | upload, download, exists |
| connections of a queue | `jobqueue.ts` (`connectWorker`, `connectClient`, broadcasts), `routes/websocket.ts` | `userJobQueues`, `workers.myWorkers`, `otherWorkers`, `clients` | connect, register, close, tell, declare lost |
| worker connection | `app/worker/src/commands/run.ts` | socket, timers | connect, register, PING, reconnect |
| browser client | `app/browser/src` (`store.ts`, `cache.tsx`, `hooks/serverWebsocket.tsx`, hooks, the button) | `jobStates`, the job shown, the cache of finished jobs, the sender of messages | set, define, query, submit, cancel, delete |
| webhooks | `webhooks.ts` | pending webhooks | call, retry |
| command line, deployment | `app/cli`, `app/deploy` | | thin clients of the API |

A job's life: a client's `Queued` change goes to a server (over its socket, or by
POST), which writes an entry, a namespace and its copy in memory, and tells
workers, clients and the other servers.  A worker that has room starts the
job and sends `Running`, later `Finished` with the result, over its socket.  A server
finishes a job by storing the result record first and the queue's entry
after.  A *namespace* is a reason to run the job: a cancel, a replacement or a
delete is for one namespace (or all) and takes effect when none is left.
Servers cancel jobs without namespaces and jobs that a newer one of the same
namespace replaces, requeue jobs whose worker is lost, and remove finished
jobs after a minute.

### What is hard

* **Awaits.** Between the read of an entry and its write any other handler, of
  this server or another, may run.
* **Two paths for a change.** Socket changes of a job wait in line; POST
  submissions and the conflict check call the functions directly.
* **The channel.** Broadcasts are filtered, and may be late or reordered; some
  changes are never broadcast.
* **Loss.** Workers vanish, servers restart between two writes.
* **Time.** Clocks of clients and workers decide between versions; a sweep
  removes what is old while others still speak of it.
* **Sharing.** Jobs of a worker share one file per content through hard links, and
  runs of one build share one directory; both are filled step by step under
  their final names.
* **Half-open sockets.** Each end believes what it last heard; a list of workers
  is a copy of such beliefs, and other servers have copies of the list.
* **Overlapping calls.** The browser's store functions await its cache and
  downloads, and each writes a whole map it read before.

### What makes each part correct

* *Resolution*: the same two versions have the same winner wherever they meet;
  a copy never goes back; copies that meet end up equal.
* *Line*: the changes of one job are made one at a time, in order, all of them.
* *Queue and database*: a result that is announced can be fetched; it is not
  overwritten by an unfinished job; what memory
  says is to be run is what the database says; a job with a result is not run
  again; servers converge; old jobs are dropped.  (That a result is not deleted while someone holds it is what one would
  want too; the code does not have it, see *Runs*.)
* *Worker*: no GPU has two slots; jobs are claimed within the CPUs; a slot is not
  given away while it is taken, and a run that ends without a word does not keep
  its slot; the slot of a job that nobody wants comes back.
* *Files*: a file called by a hash has that hash; a container sees its own input,
  all of it; what a job reports can be fetched; a name in the cache never
  changes its file; runs end.
* *Images*: an image goes by the name of a build only if it was made from the
  whole context; trying again gets an image that has gone missing.
* *Connections*: who stays is known, for good, whatever became of sockets and
  servers; who goes is forgotten; a job is declared lost by mistake only while
  news is late.
* *Browser*: what is shown in the end is the job of the latest inputs, with its result if
  there is one; a cancel is neither undone here nor lost on the way; a submission
  ends at the server or in a result.

## Modules

| module | models | role |
|---|---|---|
| `JobState` | records, transitions and `resolveMostCorrectJob` | operators shared by the two below |
| `JobGossip` | servers' copies of a job and the channel | the exchange alone, with losses |
| `InTurn` | what the line of changes promises | abstract specification |
| `StateChangeQueue` | `stateChange` and `processJobStateChangeQueue`, with the identity of arrays | implements `InTurn` |
| `JobQueue` | the queue and the database, step by step | the core: `JobState`'s jobs, every await |
| `Worker` | the worker's queue, its runs and containers, await by await | the other end of the protocol |
| `JobFiles` | inputs, outputs and the cache of files on a worker's disk | what the runs find there |
| `ImageBuild` | pulled and built images | what the containers are made of |
| `WorkerDisk` | a run from its claim to its report | composes the two above |
| `Connections` | sockets, lists of workers, lost jobs | who talks to the queue |
| `Client` | the browser's store, cache, hooks and socket; `JobState`'s resolution | the user's end of the protocol |
| `MC*` | model values and change sets | for TLC |
| `*Proofs` | theorems | for TLAPS |

### JobState

A job is a record of state, reason, worker, time and namespaces; `NoJob` stands for
`undefined`.  Worker ids are numbers because `resolvePreferredWorker` compares
them.  `ResolveMostCorrectJob` is written as *the first is kept if*
(`KeepsFirst`), with one operator per state of the first argument;
the table of reasons is `StandsOver`.

### JobGossip

`mem[s]` is the copy in memory, `inbox[s]` the copies on their way.  `Change` is any
change that reaches a server, `Broadcast` the interval or the end of a change,
`Receive` the job-states handler, `Lose` the channel's.  A set of messages models
reordering and, with the repeated broadcast, duplicates.

### StateChangeQueue

Arrays have numbers because a processor keeps the array it found while the map
may get another one.  Processors are records with a number of their own, so two
of them for one change would be two.  `JobQueue` takes from here that each server
has one `line` task.

### JobQueue

One job, one queue address, several servers.  `mem[s]` is `state.jobs[jobId]`;
`entry`, `result` and `spaces` are the database's queue entry, job-finished
record and namespaces; `line[s]` the changes that wait; `task[s][k]` the
running async function of each kind: `line`, `direct` (past the line),
`merge` (the job-states handler that looks in the database), `sweep`.  A step of
a task runs from an await to the effect of the next database operation.

| actions | code |
|---|---|
| `ClientAsks`, `WorkerAsks`, `StateChange`, `ProcessJobStateChangeQueue` | sockets' messages, `stateChange` |
| `Direct`, `CheckNoNamespace`, `Supersede` | `submit.ts`, `checkForSourceConflicts` |
| `RequeueJobsFromMissingWorkers` | the interval; which workers are known is left open |
| `LoadMissingJob` ... `Settle` | `stateChangeJobFinished` and `setJobFinished`, one branch per reason |
| `DecideRunning`, `FetchRunning`, `StoreRunning` | `stateChangeJobRunning`, `setJobRunning` |
| `ReadForEnqueue` ... `JoinNamespace` | `stateChangeJobEnqueue`, `queueJobAdd` |
| `Broadcast`, `Receive*`, `MergeLoaded` | the channel |
| `BeginSweep` ... `EndSweep` | `removeOldFinishedJobsFromQueue`, `queueJobRemove` |
| `Restart` | a crash and `setup` |

Abstractions: a server has at most one task of each kind, so POST submissions and
conflict checks of one server share the `direct` slot; `queueJobGet`'s two reads are one
step, as are the two writes that remove a namespace (`set` to false, then `delete`) and the removal of
the default namespace by the sweep with all that are listed with it; the conflict check that ends a submission is the independent
`CheckNoNamespace` and `Supersede`; the newer job that replaces this one is not
there, it may come any time; result files, history, control keys, webhooks and
definitions are left out, and with them `deleteJobFinishedResults`, which a merge with a
job that is gone calls for its files (the result record stays).  `Connected` names the servers that
clients and workers talk to; the others hold the queue because they did once, and take part by
the channel, the sweep and what they are `Posted`.  A delete without a job in memory or queue that other
namespaces outlive leaves a record without state in the code and is not modelled.

### Worker

A worker keeps `api` (`apiQueue`, what the last update said of each job) and
`queue` (what it runs).  The code keys the queue by job, but a run that was started
for an earlier slot of the same job goes on with whatever slot is there when its
await ends.  So every call of `_startJob` has a number: `start[n]` is its item and its
run, `queue[j]` the start whose item has the slot of job `j`, `box[n]` the container
that start `n` created.  Where the code follows `localJob.execution`, the model
follows `execution`, which may be an older start than the item.

| actions | code |
|---|---|
| `Update` | `onUpdateSetAllJobStates`, `onUpdateUpdateASubsetOfJobs`: timers, and a call of `_claimJobs` |
| `ClaimJob`, `NoDefinition` | `_claimJobs` from the await of a definition to the next, with `_startJob` up to its first await |
| `CopyInputs`, `CopyInputsFails` | the rest of `_startJob` up to `dockerJobExecute` |
| `EnsureDockerImage` ... `ContainerFinished` | `finish()` of `DockerJob.ts`, one action per await |
| `DockerBuildError`, `GetOutputs`, `DockerFails` | how `finish.then` and `finish.catch` end |
| `MaxDurationCheck`, `KillAndRemove` | the kill of a run that takes too long, `killAndRemove` |
| `CheckRunningJobs` | the callback of the six-second timers |
| `CheckContainer`, `ContainerListed`, `ContainerInspected` | `checkRunningJobContainers`, await by await |
| `ContainerExits` | docker (external) |

Abstractions.  The server may say any word of `Words` at any time and messages to it
are left out: what it does with them is `JobQueue`'s.  Whatever a worker
property needs of the server is in its premise.  Jobs are numbered in the order of
their queue times, which is the order of claims.  Timers of one kind for one job are
one, because each only compares the server's word of then.  A GPU is any free one.
The containers docker lists are those this process created: those of other
workers are filtered out by label, those of an earlier process are not modelled.  (A run lists the
containers of its job without that label, so the worker is taken to be the only one of its
docker.)  The health check kills the job on any error of `inspect`, whether the container is
there or not.
The health check's calls of docker are answered; a run's calls may fail.

### JobFiles, ImageBuild and WorkerDisk

`Worker` says which runs a worker starts and kills; these three say what the runs
find on the disk and in docker and leave there.  In `JobFiles` a path holds a file and a file holds
a content: `cache[c]` is the file at `f/<hash of c>`, `inputs[j]` and
`outputs[j]` those in the directories of job `j`, `data[i]` what file `i` holds.  A hard link is
two paths with one file, so a write through one is seen through the other.  A content is a
blob or a torn piece of one and stands for its hash.  A run has a place (`at`), the
attempts of its `retryAsync`, the file its download has open, the hash it works with, and,
for the properties only, what its container saw and wrote and what was
reported.  `upload` and `sent` belong to a local worker, which is the server of its own
files; `store` is the remote server's.

`ImageBuild` has one image to pull and one to build, for any number of runs.
`step[r]` is where `ensureDockerImage` is; the directory of a build is
nothing, empty, a part, the archive in its top folder, the context, or something
else a run put there.  `WorkerDisk` joins the two at the container: inputs, then
the image, then the run, then the outputs, and from the start again when a failed
job is submitted again.

| actions | code |
|---|---|
| `Begin`, `LookInCache`, `Fetch*`, `Pipe*`, `HashInput` ... `LinkToCache` | `convertIOToVolumeMounts` (`IO.ts`), `dataRefToFile`, `copyFile` and `retryAsync` (`jobtools.ts`) |
| `HashOutput`, `GetLocalDataRef`, `AskExists`, `SendOutput`, `SendFails` | `getOutputs`, `fileToDataref` |
| `StartContainer`, `WriteInput`, `WriteOutput`, `ContainerEnds` | the program (external) and its mounts |
| `Upload*`, `Stored`, `GetJobInput`, `GetJobOutput` | `uploadHandler`, `downloadHandler`, `existsHandler` and the job's files in `local-handler.ts` |
| `ClearJobCache` | `run.ts` when a job is deleted |
| `BelieveRecord`, `Pull*`, `Check*`, `Forget` | `ensureDockerImage` for an image by name, `CACHED_DOCKER_IMAGES` and the check nobody waits for |
| `CheckForDockerImage` ... `RestoreDestination` | the context: download, unpack, unwrap |
| `Build*`, `BackgroundPullEnds`, `RemovePulled`, `ClearCache` | docker (external) |

Half of what TLC showed is in the conjuncts of `Quiet`, under which the promises
of the cache hold; each of them is needed, and without it the run finds how it goes wrong:

* a program that writes into its input writes into the cache (hard links);
* a download that is cut and then answered with an error ends the retries, and the torn
  file is published under the hash of its reference;
* an upload truncates, or leaves torn, the file under its final name;
* two runs of one job share the directories the second empties;
* a job deleted between the hash of its output and the link reports a file nobody has
  (the exception of `FilesAreKept`).

Two jobs that race on one input are safe: the second gets `EEXIST` and fails.
Data in references of other kinds (inlined, by key, base64, JSON), small outputs that are
inlined, S3, and a Dockerfile without a context are left out.

### Connections

A socket is one record with both ends, because they learn of its end at different
times: `near` is the worker's or browser's, `far` the server's (`awaited` while its
handler awaits the queue object and has set no listeners, `missed` if it closed by
then), with the messages under way.  A server's process may make an object of the
queue more than once (`object`, `current`: `userJobQueues`); `mine[q]`
are its entries of workers with their sockets, `others[q]` what it heard of
other servers, `news` the lists under way, `clients[q]` the browsers'.  `running` are
workers whose job the servers hold as running: a job that is declared lost leaves it.

| actions | code |
|---|---|
| `WorkerOpens`, `ClientOpens`, `SetupEnds` | `websocket.ts`, `getApiDockerJobQueue`, `connectWorker`, `connectClient` |
| `OnPing`, `OnRegister`, `OnClose`, `Unlistened` | the listeners of `connectWorker` and `connectClient` |
| `JobsInterval`, `BroadcastJobStates` | `broadcastJobStatesToWebsockets` and the broadcasts that drop closed sockets |
| `WorkersInterval`, `HearWorkers` | `broadcastWorkersToChannel`, `requeueJobsFromMissingWorkers`, `otherWorkersHaveChanged` |
| `Ping`, `OnPong`, `RegistrationInterval`, `NoJobStates`, `NoPong`, `HearClose` | `run.ts`, `register` of `DockerJobQueue.ts` |
| `ReconnectInHaste`, `WorkerGoes`, `Cut`, `ServerCrashes` | troubles |

What the code does that a reader might not expect, and the model has:

* A worker whose id is listed keeps the entry's old socket when it registers on a new
  one; the late close of the old socket takes it out of the list while PONGs
  still name it, and only the check for job states (20 seconds) makes it connect again.
* A message with no jobs does not count for that check, so the workers of an empty queue
  reconnect all the time.  `KnownAgain` therefore says listed again and again, and for good once
  there are jobs.
* The periodic registration stops for good when the first socket closes.
* Two objects of one server ignore each other's lists, which carry their own server's id;
  each declares the jobs of the other's workers lost.  So does a server that has
  not heard of another yet.  Both are what `LostOnlyIfUnlisted` leaves open.
* A worker that made an object of the queue is connected, after its await, to the object that is in
  `userJobQueues` by then, which may be a twin a browser has set; a browser is connected to
  the object it made (`SetupEnds`).
* The list of a server that is gone is kept by the others, so the jobs of its workers are never
  declared lost: the exception of `LostIsNoticed`.
* `checkForMissingWorkers` and `dispose` are never called.

PINGs that are answered with the known id, worker status and logs are left out, and time is:
a timer may fire when what it waits for is not under way, or as a trouble.

### Client

The store's functions are async and overlap: `calls` are those under way, each with
its place and its locals, above all the whole map of jobs it will write.  Everything
a step of the store sets off in React follows at once (`Effects`): a new definition
is queried, with autostart submitted.  `line` is the socket as it is, which the
browser notices in `Close`; `kept` is the one submission that is kept while there is
no connection; `up` what the server has not yet taken.  The server is the
environment: one record and one stored result per job, told all at once or one at a time.

| actions | code |
|---|---|
| `HearJobStates`, `HearJobStateUpdates`, `Open`, `Close` | `serverWebsocket.tsx` |
| `Resolve`, `LooksForResult`, `Answered`, `Saved`, `DeletesEntry`, `DownloadThrows` | `setJobStates`, `processJob`, `cache.tsx` |
| `ChangeInputs`, `SetNewJobDefinition`, `SetSameJobDefinition`, `RefreshGoesOn` | `useDockerJobDefinition`, `setNewJobDefinition` |
| `SubmitJob`, `SubmitGoesOn`, `SendClientStateChange`, `QueryJob`, `QueryGoesOn` | `submitJob`, `sendClientStateChange`, `queryJob`, `useJobSubmissionHook` |
| `Click*`, `EndsJobGoesOn`, `ResubmitJob`, `SaveInputFileAndRun` | the button, `cancelJob`, `deleteJobCache`, `resubmitJob` |
| `TakeChange`, `JobStarts`, `JobEnds`, `Swept` | the server (as `JobQueue` has it) |

An effect that computes a definition stays in `computing` until it sets it.  One whose upload of
a large input fails stays there for good, and the page goes on with the definition it has.

What it shows beside its properties: a call that began under an old definition shows the
old job until the next broadcast; a download under way overwrites the entry of
a cancelled job; a cancel or delete without a connection is lost, while a
submission is kept and may be sent after a later cancel that was lost; after a delete,
a late broadcast downloads the result again.  The premises of the properties name
these.  That a submission held up in an await cannot overtake a cancel and run again is due
to the server keeping its record for a minute, hence the guard of `Swept`.  Left
out: the hook that sends outputs, logs, the list of workers, a change of the queue's
address, and what PINGs and their timers do beyond `Close`.

## Runs

| run | instance | shows |
|---|---|---|
| `gossip` | 2 servers, 2 workers, 2 clock values, 2 changes, losses | `TypeOK`, `NothingBetterInFlight`, `NeverBack`, `EventuallyAgree` |
| `line` | 7 changes | `OneAtATime`, `ImplementsInTurn`, `EveryChangeIsMade` |
| `queue_one` | 1 server, 2 workers, time-outs, 6 changes, a restart, no sweep | `MemoryIsDatabase`, `NotRunAgain` |
| `queue_shared` | 2 servers, the second only listens, 2 namespaces, cancels, deletes, replacements past the line, a restart, 5 changes | `TypeOK`, `ResultStands` |
| `queue_sweep` | 2 servers that sweep and broadcast, clients and workers at one, POST at both, 2 namespaces, 3 changes | `ForgottenOnceErased` |
| `queue_agree` | 2 servers, POST and sockets, 3 changes | `ToldIsStored`, `EventuallyAgree` |
| `queue_noop` | 1 server, 4 changes | **violated** `CancelIsNoop` |
| `worker_runs` | 1 job that needs the GPU, 4 words (absent, queued, running here, finished), 3 changes of word, 2 starts | `TypeOK`, `NeverReplaced`, `NoDeadSlot`, `SlotsComeBack` |
| `worker_slots` | 3 jobs, 2 of them need the one GPU, 2 CPUs, 4 words (absent, queued, running here or elsewhere), 2 changes of word, 3 starts that end before docker | `GpusNotShared`, `ClaimsWithinCpus` |
| `disk` | 2 runs of 1 or 2 jobs, 2 blobs, 8 files, 2 attempts, 2 uploads, 1 removed image; nine settings about files, four about images | `TypeOK`, `CacheHoldsItsHash`, `InputsAreRight`, `FilesAreKept`, `ImageIsOfItsContext`, `PathKeepsItsFile`, `RunsEnd`, `RetriesWork` |
| `connections` | 1 worker; 2 servers and 2 sockets, or 1 server with an empty queue and 3 sockets, or 1 server that may make two objects, and a browser; 1 trouble | `TypeOK`, `ViewsCatchUp`, `LostOnlyIfUnlisted`, `KnownAgain`, `LostIsNoticed`, `ClientsAreSwept` |
| `client` | 2 definitions, eight pages with up to 3 acts of the user and 1 cut | `TypeOK`, `ShowsTheResult`, `CancelStandsUntilActedOn`, `CancelReachesServer`, `SubmissionIsNotLost` |

The violation is a disagreement between the code and what its test says;
`PROJECT.json` quotes the line.

Five further configurations are kept beside the runs, for who wants to see a property fail
where a hazard says so.  `MCJobQueueDelete.cfg`: on one server, a POST submission of another
namespace joins between the count of a delete and `deleteFinishedJob`, and loses the result
(`DeleteSparesOthers`); a second server's submission can do the same.  Where all changes wait in one
line nobody can join in between, so no run and no theorem states it there.
`MCJobQueueForget.cfg`: a cancel is not told to other servers, so another one keeps the queued job and
broadcasts it; the server that cancelled it has no namespaces left and forgets it
without erasing its entry, and loads that again at every broadcast (`EventuallyForgotten`).  `MCJobQueueStale.cfg`: with two servers, `setJobRunning` writes back
as Running an entry it read before another server finished the job, and `ResultStands` is
violated.  `MCJobQueueResubmit.cfg`: a job submitted again while the sweep is between its
decision and its deletion is shown as to be run and is not in the database
(`WantedIsStored`).  `MCWorkerUpload.cfg`: the health check frees the slot of a run whose
container has ended and which uploads its outputs (`UploadKeepsSlot`).

*Bounds.*  Two servers suffice for one to be behind the other; two workers for
one to be preferred; two namespaces for one to outlive the other.  A result
needs three changes (submitted, running, finished), a duplicate report or a
resubmission one more, a lost worker another, which is what `queue_one`
has; a shared job whose result meets a delete, a cancel or a replacement needs five (two submissions,
running, finished, and that), which is what `queue_shared` has, and the listening server there adds what the channel does
to a copy without changes of its own (`OneSpeaks`).  A job comes back to a server that has
forgotten it when another one still holds and broadcasts it, which takes a result (three
changes) and two servers that sweep at different times: `queue_sweep`.  `MaxInFlight = 1` there makes a server
wait with repeating itself until the last message was heard.  Clocks of two or three values
tell earlier, equal and later apart, and `KeepFor = 0` makes a job old at the
next tick.  `KeepFor >= MaxTime` switches the sweep off.

For the worker, a second start of one job while the first goes on is where runs and slots
part, so `worker_runs` has two starts; three changes of word let the server
give a job, take it and give it again.  What a run makes of a job that runs elsewhere it also
makes of one that is absent (`IsDisowned`), so that word is left to `worker_slots`; `NoDeadSlot` is
proved for all of them.  Slots and GPUs are contended by jobs that
share a CPU limit and a GPU: `worker_slots` has one job more than CPUs.  There runs end
before they come to docker (`NoDocker`), since a run that ends later frees its slot in
the same way and the theorems below cover all of them.  `GpusNotShared` is about slots: a killed
run whose container is still there uses its GPU, and the code does not wait for it.

For the disk, two runs show every race on one input, one output or one build; with eight files no
step waits for one (`HasRoom` holds in every state).
`MaxTry` is 2 where the code has 5 for downloads and 20 for uploads: one attempt
fails and one is the last.  Settings have one kind of trouble at a time, next to
four without any.  For the connections, `Socket` numbers those not yet
forgotten by both ends, and a worker opens as many as it likes one after another; `MaxNews = 1`
makes a server that has just told wait until it is heard, and `LastWord`
says no more is lost than a repeated list.  One trouble is a
cut, a worker gone or a reconnection in haste, at any moment; beside it all servers but the
last may crash.  For the client, the page bounds acts of the user, cuts, and
calls under way when a message is taken (one, or two where calls of the user must overlap);
two definitions are one to leave and one to come to.

*Where a run leaves something out on purpose.*  `MemoryIsDatabase` and `NotRunAgain` are
checked without the sweep: a worker declared lost whose change waits until the sweep
has removed the job starts from nothing, and queues the job again.  `NotRunAgain` speaks of
servers that have not restarted: a crash between the result record and the queue's entry
makes the server run the job again.  `MemoryIsDatabase` is checked without cancels and
POST submissions: a cancel timed before the queueing it meets is written and not kept in
memory, and a POST submission overtakes the line.  `NotRunAgain` and `ResultStands` are
about `Lasting` results: `resolveMostCorrectJob` lets a job that timed out be queued again
when its worker is lost.  `ResultStands` is about changes of one
server of which those of the line and those past it do not overlap (`OneSpeaks`): with two servers,
`setJobRunning` writes back what it read, and with both at once a replacement that other namespaces
outlive writes back the unfinished job it was given.
`ForgottenOnceErased` is about a job whose entry is erased for good: `EventuallyForgotten`
without that premise fails, as said above.  `EventuallyAgree` is checked without cancels: a
cancelled job is not sent to other servers, so they keep the unfinished one.  All of
these are listed as hazards.

*Fairness.*  Weak fairness for a task's next step (an await ends), for the
line, for deliveries, the sweep and the broadcast (intervals of ten seconds
and less that run for ever), and the clock.  None for clients, workers,
restarts or lost workers.  For the worker only that updates come and timers go
off: a run, a call of docker or a definition may hang for ever, and slots must
come back all the same.  For the disk: awaits of a run end and `maxDuration` ends its
container; that docker, the registry and the context's server do not fail
for ever (strong fairness of `Succeeds`) is what `RetriesWork` rests on, with the premise that jobs are submitted again.
For connections: messages arrive, awaits end, intervals fire, a closed socket
is noticed, a worker without a connection makes one; nothing of browsers and troubles.
For the client: the oldest call goes on (no await hangs), its timers fire and effects run, a
lost socket is noticed and opened again, the server takes what it is sent and
repeats what it has (an interval); nothing of users, workers, the sweep and the uploads of a definition's inputs:
that none of these hangs or has failed is the premise of `ShowsTheResult`.  `JobGossip` has strong fairness for the
delivery of the copy a server keeps broadcasting, because its channel may
lose: of infinitely many broadcasts one arrives.

## Proofs

| theorem | module | says |
|---|---|---|
| `ResolveIsBest` | `JobGossipProofs` | the resolution picks the better of two jobs shown to others, in either order |
| `TypeCorrect` | `JobGossipProofs` | type correctness of the exchange |
| `ServersNeverGoBack`, `ChannelIsNeverAhead` | `JobGossipProofs` | `NeverBack`, `NothingBetterInFlight` for any servers, clocks and losses |
| `NeverTwoAtOnce`, `QueueIsInTurn` | `StateChangeQueueProofs` | the line runs one change at a time and every step is one of `InTurn` |
| `TypeCorrect` | `JobQueueProofs` | type correctness of the queue and database |
| `ResultsAreStored` | `JobQueueProofs` | `ToldIsStored`, as long as nobody deletes |
| `ResultsStand` | `JobQueueAloneProofs` | `ResultStands` on one server whose changes all wait in line |
| `FinishedNotRunAgain` | `JobQueueAloneProofs` | `NotRunAgain` on one server whose changes all wait in line, until the first sweep |
| `MemoryMirrorsDatabase` | `JobQueueAloneProofs` | `MemoryIsDatabase` on one server, of a job nobody takes out, until the first sweep |
| `TypeCorrect` | `WorkerProofs` | type correctness of the worker, and that a slot is that of a start of its job |
| `GpusAreNotShared`, `SlotsAreNeverReplaced` | `WorkerProofs` | `GpusNotShared`, `NeverReplaced` for any jobs, CPUs, GPUs, words and bounds |
| `QueuedJobsFitTheCpus` | `WorkerProofs` | `ClaimsWithinCpus` for any jobs, CPUs, GPUs, words and bounds |
| `NoSlotIsDead` | `WorkerProofs` | `NoDeadSlot` for any jobs, words and bounds |
| `TypeCorrect` | `ConnectionsProofs` | type correctness of connections, and that a listed worker has a socket of its own the server has not seen closed |
| `ViewsAlwaysCatchUp`, `LostOnlyByTheUntold` | `ConnectionsProofs` | `ViewsCatchUp`, `LostOnlyIfUnlisted` for any servers, objects, workers, sockets and troubles |
| `TypeCorrect` | `WorkerDiskProofs` | type correctness of files, cache, store and runs |
| `PathsKeepTheirFiles`, `FilesStayFetchable` | `WorkerDiskProofs` | `PathKeepsItsFile`, `FilesAreKept` for any jobs, runs, contents and attempts, whatever programs and clients do |
| `CacheIsTrueToItsNames`, `ContainersSeeTheirInputs` | `WorkerDiskProofs` | `CacheHoldsItsHash`, `InputsAreRight`: while `Quiet`, for any number of runs of different jobs |
| `ImagesAreWhole` | `WorkerDiskProofs` | `ImageIsOfItsContext` for any number of runs of which one builds, however images are removed and steps fail |
| `ClientTypes` | `ClientProofs` | type correctness of the browser: cached jobs are finished and have their results |
| `SubmissionsAreNotLost` | `ClientProofs` | `SubmissionIsNotLost` for any definitions, pages, acts, cuts and overlapping calls |
| `CancelledStays` | `ClientProofs` | `CancelStandsUntilActedOn` for any definitions, pages, acts, cuts and overlapping calls |

The arguments.  *Gossip*: among jobs that are shown to others the resolution is the
maximum of a total preorder (`AtLeast`), so a merge never lowers a
copy, and a message was somebody's copy once, who never went back.  The two
theorems assume changes finish jobs by results only: cancelled, replaced and
deleted jobs are outside that order (see `CancelIsNoop`).
*Line*: `IInv` says that only the map's array has changes, that a processor holds
that array and its first change, and that there is a timer exactly when changes wait
and nobody makes them; each action keeps this, and with it maps to an
action of `InTurn`.  *Results*: that a server's own memory is covered is not
inductive, because a copy may come from the database, a message, or a local of a
task; `NothingTold` says that none of them is a job with a result, `Stores`
that a task past its decision has either not stored yet or has stored, and
the invariant is: a result exists, or nothing told one.  A delete would
remove the record while copies remain, hence the assumption `NobodyDeletes`.
*One server*: the three theorems of `JobQueueAloneProofs` assume `Alone`; a server hears no
broadcast of its own, so its `merge` task stays idle (`NothingHeard`).  What is left to
interfere is the `line` task, the `direct` one, the sweep and restarts, and each invariant says what a
task between two awaits may still do.  `StandsIn`: once the entry is a lasting result, memory
and what a task works on is that result or nothing, and no task is at a step that writes
a job still to be run; a POST submission may be at such a step, so the theorem needs `OnlyTheLine`.
`RanIn`: once the record is a
lasting result, memory and every copy a task will leave there is `Firm`, finished in a way that
neither a worker nor the loss of one undoes; it needs that memory is empty only while the
queue and the record are, which a restart breaks (hence `restarts = 0` in `NotRunAgain`)
and the sweep too.  `MirrorsIn`: memory and the queue have the same job to be run but while a
change is under way, which then holds in `most` what the other is about to get.  `KeepFor >= MaxTime`
switches the sweep off; without it TLC finds the worker's loss that waits until the sweep is
over.  `NobodyTakesOut` leaves out cancels, replacements and deletes; with cancels the
equation is false, as said above.
*Worker*: `_startJob` overwrites `queue[jobId]` without a look and picks a GPU that
no item has at that moment.  That no slot is replaced needs `OneClaim`: at most
one loop of `_claimJobs` is under way, and the job it waits for has no slot; every other step
only frees slots and keeps jobs and GPUs of starts (`Quiet`), so what the loop saw
before its await still holds after it.  *Runs*: a kill frees the slot and makes the
run silent later, through `localJob.execution`; that it is this job's run needs
`SameJob`, and that the run cannot have a slot again when it falls silent needs
`KilledOrSlot`: a killed start has its job's slot only when its time was over, and
then it waits for docker and must report.  *CPUs*: only a claim takes a slot; the
claim of a queued job counts the slots in the step that takes one, so the
count of `Held` grows by one from below `Cpus` (`OnlyClaimsTakeSlots`, `QueuedWithinCpus`).
*Connections*: that a list and what others heard of it agree once news has arrived needs
three more parts in `IInv`: `Silent` (an object not made lists nobody, has said nothing and
heard nothing, and nobody has heard of a server that made none), `CurrentIsMade`, and
`Attended` (an open socket leads to an object there is, and a worker that waits for one (`Waits`) finds
one in `userJobQueues` when its await ends), without which a registration could change the
list of an object that is not there.  Only `WorkersInterval` declares jobs lost, and it does so of workers in none
of the lists it heard; by `ViewsCatchUp` a server that lists one of them has
news under way or was never heard.
*Files*: `Basic` holds whatever programs and clients do: each step of a run finds
what the step before left it (`HasWork`), an upload has its name from the beginning,
and what a run was given or told can be fetched (`Fetchable`).  Names need no invariant:
`link` fails on a name there is, and nothing unlinks one.  What a file holds does need
one, `Orderly`, and it lasts while `Quiet` only: a file reached by two paths is one of the cache, and
the file a run is downloading, or a job's container is writing, has no name in the cache yet, so
nobody but its run writes it.  Every step of a run touches its own files only
(`TouchesOwnFiles`), which leaves the other runs in order (`LeavesOthersAlone`).
*Images*: while one run builds, the place it is at says what the archive, the
directory, the one set aside and docker's context are (`BuildsInOrder`), so what it builds and pushes is
the whole context; a second builder, or a download cut short, breaks exactly this.
*Client*: most actions begin, continue or end one call, so the lemmas are about the set
of calls, `Range(calls)`, and the call that is touched.  Types need `Settled`: only
`setJobStates` downloads, a call without a job is one that found no definition, and a page
without a definition has nothing to resubmit.  For a submission, every step either leaves
it where it is (`OthersStay`) or is one of four that move it: from call to call, to
the socket, to the server, or to the next connection.  For a cancelled job, every call that
begins or goes on still `Leaves` its entry alone: what it would write is no deleted job, and it downloads
no result since the cache has an entry.

Only model-checked: all liveness (`EventuallyAgree`, `ForgottenOnceErased`,
`EveryChangeIsMade`, `SlotsComeBack`, `RunsEnd`, `RetriesWork`, `KnownAgain`, `LostIsNoticed`,
`ClientsAreSwept`, `ShowsTheResult`, `CancelReachesServer`), and with it the liveness part of
`ImplementsInTurn`.  Every invariant and action property that a passing run checks is
stated by a theorem; of the queue's, three are proved for one server, and TLC checks
`ResultStands` beside a second one that listens.

## Not modelled, and the plan

1. **Worker and server composed**: `Worker` with a server that answers it, to check
   that a started job is reported or killed, that a job has one live run in the end
   and that a queued job is not starved by newer ones (claims go newest first).
2. **Worker at its edges**: containers left by an earlier process, the check at
   start.
3. **Namespaces**: `checkForSourceConflicts` for several jobs; what the hazards of
   `db.ts` 546 and 556 need.
4. **Outputs to a metaframe**: `useSendJobOutputs` and the browser's remaining hooks.
5. **Webhooks** and the definitions' cache.
6. **Proofs**: the theorems of one server beside others that only listen, and the
   safety of a server that has restarted (which jobs it may run again).

Webhooks are not modelled because no state of the queue or of a job depends on
them: each is a call kept in the database and tried again every minute.  The
command line and deployment have no state of their own: a thin client of the
routes, and configuration.  Left out of modelled parts, beside what the sections above
name: job history, control keys and the store of definitions in the database, logs and
worker status, S3 behind the server, registry credentials.
