-------------------------------- MODULE Worker --------------------------------
(***************************************************************************)
(* A worker (DockerJobQueue.ts) and the executions of its jobs             *)
(* (DockerJob.ts, cleanup.ts): what it believes the server says, what      *)
(* slots it has given away, and the asynchronous runs behind them.         *)
(*                                                                         *)
(* Every _startJob gets a number.  Slots are keyed by job, but a run that  *)
(* was started for an earlier slot of the same job goes on with whatever   *)
(* slot is there when its await ends, so a slot is not a job: it is the    *)
(* number of the start that made it.  A container is numbered by the start *)
(* that created it.  Jobs are numbered in the order of their queue times.  *)
(*                                                                         *)
(* What the server says is left open, and so is the moment: any word may   *)
(* follow any other.  Messages to the server change nothing here and are   *)
(* left out, except that a run ends "told" or "silent".                    *)
(***************************************************************************)
EXTENDS Naturals, Sequences, FiniteSets

CONSTANTS Job,        \* numbers, in the order of queuedTime
          NeedsGpu,   \* the jobs whose definition requires a GPU
          Me, Other,  \* worker ids; the smaller of two is preferred
          Cpus, Gpus,
          Words,      \* what an update may say of all jobs
          MaxChanges, \* bound: updates that say something new
          MaxStarts   \* bound: calls of _startJob

None  == 0       \* no start, no container
NoGpu == Gpus    \* an item without gpuIndices

Said ==
  [state : {"Absent", "Queued"}, worker : {0}]
    \cup [state : {"Running", "Finished"}, worker : {Me} \cup Other]

ASSUME WorkerAssumption ==
  /\ Job \subseteq Nat /\ IsFiniteSet(Job)
  /\ NeedsGpu \subseteq Job
  /\ Me \in Nat \ {0} /\ Other \subseteq Nat \ {0, Me}
  /\ Words \subseteq [Job -> Said]
  /\ {Cpus, Gpus, MaxChanges, MaxStarts} \subseteq Nat

VARIABLES
  api,           \* apiQueue
  changes,       \* number of updates so far that said something new
  queue,         \* queue[j]: the start that made the item of job j, or None
  start,         \* the starts: their items and runs
  box,           \* box[n]: the container that start n created
  reaping,       \* killAndRemove under way: containers and the step they are at
  claims,        \* _claimJobs under way: waiting for a definition
  isClaiming,    \* _isClaimingJobs
  needsAnother,  \* _needsAnotherClaimJobs
  timers,        \* timers of _checkRunningJobs
  looks          \* checkRunningJobContainers under way: waiting for docker

vars == <<api, changes, queue, start, box, reaping, claims, isClaiming,
          needsAnother, timers, looks>>
runs   == <<queue, start, box, reaping>>
claim  == <<claims, isClaiming, needsAnother>>
server == <<api, changes>>

Starts == 1 .. MaxStarts

\* The item of a start: phase, execution (of which start) and gpu.  Its run:
\* where it waits (pc), the item it works for, whether isKilled or isTimedOut is
\* set, the container found running and the one it is attached to.
Start ==
  [job : Job, phase : {"CopyInputs", "Building", "Running", "UploadOutputs", "Ended"},
   execution : Starts \cup {None}, gpu : 0 .. NoGpu,
   pc : {"refused", "copying", "building", "looking", "checking", "creating",
         "attaching", "starting", "waiting", "uploading", "told", "silent"},
   item : Starts \cup {None}, isKilled : BOOLEAN, isTimedOut : BOOLEAN,
   found : Starts \cup {None}, container : Starts \cup {None}]

TypeOK ==
  /\ api \in [Job -> Said]
  /\ changes \in 0 .. MaxChanges
  /\ queue \in [Job -> Starts \cup {None}]
  /\ start \in Seq(Start) /\ Len(start) <= MaxStarts
  /\ box \in [Starts -> {"none", "created", "up", "exited", "removed"}]
  /\ reaping \subseteq [box : Starts, step : {"inspect", "kill", "remove"}]
  /\ claims \subseteq [stage : {"ours", "queued"}, job : Job, left : SUBSET Job]
  /\ {isClaiming, needsAnother} \subseteq BOOLEAN
  /\ timers \subseteq Job \X {"gone", "elsewhere"}
  /\ looks \subseteq [job : Job, item : Starts, box : Starts \cup {None}]
  /\ \A j \in Job : queue[j] # None => queue[j] <= Len(start) /\ start[queue[j]].job = j

Init ==
  /\ api = [j \in Job |-> [state |-> "Absent", worker |-> 0]]
  /\ changes = 0
  /\ queue = [j \in Job |-> None]
  /\ start = <<>>
  /\ box = [n \in Starts |-> "none"]
  /\ reaping = {} /\ claims = {} /\ timers = {} /\ looks = {}
  /\ isClaiming = FALSE /\ needsAnother = FALSE

-----------------------------------------------------------------------------
(* What the server says of a job.                                          *)

IsGone(word)      == word.state \in {"Absent", "Finished"}
IsOurs(word)      == word.state = "Running" /\ word.worker = Me
IsElsewhere(word) == word.state = "Running" /\ word.worker # Me
IsPreferredElsewhere(word) == IsElsewhere(word) /\ word.worker < Me

\* The result of a run is ignored.
IsDisowned(word) ==
  \/ word.state = "Absent"
  \/ word.state \in {"Running", "Finished"} /\ word.worker # Me

Held == {j \in Job : queue[j] # None}

-----------------------------------------------------------------------------
(* _claimJobs: first the jobs that the server says run here, then the      *)
(* queued ones, the newest first.  It waits for the definition of a job    *)
(* that has no slot; the answer is the set of what it waits for, empty     *)
(* when nothing is left.                                                   *)

Waiting(stage, left, q) ==
  {[stage |-> stage, job |-> j, left |-> {k \in left : k < j}] :
     j \in {m \in left : q[m] = None /\ \A k \in left : q[k] = None => k <= m}}

QueuedJobs(a, q) == Waiting("queued", {j \in Job : a[j].state = "Queued"}, q)

Round(a, q) ==
  LET ours == Waiting("ours", {j \in Job : IsOurs(a[j])}, q)
  IN IF ours # {} THEN ours ELSE QueuedJobs(a, q)

\* The rest of the round in which c was waiting.
RestOfRound(c, q) ==
  LET rest == Waiting(c.stage, c.left, q)
  IN IF rest = {} /\ c.stage = "ours" THEN QueuedJobs(api, q) ELSE rest

ContinueClaim(c, q) ==
  LET rest  == RestOfRound(c, q)
      again == rest = {} /\ needsAnother
      next  == IF again THEN Round(api, q) ELSE rest
  IN /\ claims' = (claims \ {c}) \cup next
     /\ isClaiming' = (next # {})
     /\ needsAnother' = (needsAnother /\ ~again)

\* Mutant: nothing keeps a second call from running beside the first.
ClaimJobsUnguarded(a) ==
  /\ claims' = claims \cup Round(a, queue)
  /\ isClaiming' = (Round(a, queue) # {})
  /\ needsAnother' = FALSE

\* _claimJobs is called, with the server's word a.
ClaimJobs(a) ==
  IF isClaiming
  THEN /\ needsAnother' = TRUE
       /\ UNCHANGED <<claims, isClaiming>>
  ELSE /\ claims' = claims \cup Round(a, queue)
       /\ isClaiming' = (Round(a, queue) # {})
       /\ needsAnother' = FALSE

\* An update from the server: onUpdateSetAllJobStates, or a subset of jobs.
Update(word) ==
  /\ word # api => changes < MaxChanges
  /\ changes' = IF word = api THEN changes ELSE changes + 1
  /\ api' = word
  /\ timers' = timers
       \cup {<<j, "gone">> : j \in {k \in Held : IsGone(word[k])}}
       \cup {<<j, "elsewhere">> : j \in {k \in Held : IsPreferredElsewhere(word[k])}}
  /\ ClaimJobs(word)
  /\ UNCHANGED <<runs, looks>>

UsedGpus == {start[queue[j]].gpu : j \in Held} \ {NoGpu}

\* Mutant: the indices given to runs that still copy their inputs count as free.
FreeGpusOfRunning ==
  (0 .. Gpus - 1) \ {start[queue[j]].gpu : j \in {k \in Held : start[queue[k]].execution # None}}

FreeGpus == (0 .. Gpus - 1) \ UsedGpus

\* Mutant: one job too many.
HasRoomForOneMore(j) ==
  /\ Cardinality(Held) <= Cpus
  /\ j \in NeedsGpu => FreeGpus # {}

HasRoom(j) ==
  /\ Cardinality(Held) < Cpus
  /\ j \in NeedsGpu => FreeGpus # {}

\* _startJob: the slot is taken before the GPU is looked for, and a job that
\* gets none is refused by an exception that leaves the slot taken.  The first
\* free GPU is the first in the order of the worker's configuration.
StartJob(j) ==
  LET n       == Len(start) + 1
      refused == j \in NeedsGpu /\ FreeGpus = {}
  IN /\ n <= MaxStarts
     /\ \E gpu \in IF j \in NeedsGpu /\ ~refused THEN FreeGpus ELSE {NoGpu} :
          start' = Append(start,
            [job |-> j, phase |-> "CopyInputs", execution |-> None, gpu |-> gpu,
             pc |-> IF refused THEN "refused" ELSE "copying", item |-> None,
             isKilled |-> FALSE, isTimedOut |-> FALSE, found |-> None, container |-> None])
     /\ queue' = [queue EXCEPT ![j] = n]

\* The definition that c waits for has come.
ClaimJob(c) ==
  /\ IF c.stage = "ours" \/ HasRoom(c.job)
     THEN StartJob(c.job)
     ELSE UNCHANGED <<queue, start>>
  /\ ContinueClaim(c, queue')
  /\ UNCHANGED <<server, box, reaping, timers, looks>>

\* The definition has not come: caught for a job that runs here, otherwise the
\* exception ends _claimJobs.
NoDefinition(c) ==
  /\ IF c.stage = "ours"
     THEN ContinueClaim(c, queue)
     ELSE /\ claims' = claims \ {c}
          /\ isClaiming' = FALSE
          /\ UNCHANGED needsAnother
  /\ UNCHANGED <<server, runs, timers, looks>>

-----------------------------------------------------------------------------
(* Killing and reporting.                                                  *)

JobOf(n) == start[n].job

\* Mutant: it is not asked whether there is a container.
ReapAny(c) == reaping \cup {[box |-> c, step |-> "inspect"]}

\* killAndRemove of a container, which goes on by itself; nothing to do without one.
Reap(c) == IF c = None THEN reaping ELSE reaping \cup {[box |-> c, step |-> "inspect"]}

\* Start n goes to pc; its item gets a phase (the item may be that of a later start).
Goes(n, pc) == [start EXCEPT ![n].pc = pc]
GoesInPhase(n, pc, phase) ==
  [start EXCEPT ![n].pc = pc,
                ![start[n].item].phase = phase]

\* The slot of the job is freed, whoever has it, and the result is sent.
Tell(n) ==
  /\ start' = GoesInPhase(n, "told", "Ended")
  /\ queue' = [queue EXCEPT ![JobOf(n)] = None]

Silent(n) ==
  /\ start' = Goes(n, "silent")
  /\ UNCHANGED queue

\* finish.then: a result that the server's word makes someone else's is ignored.
Resolve(n) ==
  IF IsDisowned(api[JobOf(n)]) THEN Silent(n) ELSE Tell(n)

\* _killJobAndIgnore: a run is told only through the item's execution.
KillJobAndIgnore(j) ==
  LET i == queue[j]
      e == start[i].execution
      ended == [start EXCEPT ![i].phase = "Ended"]
  IN IF i = None THEN UNCHANGED runs
     ELSE /\ queue' = [queue EXCEPT ![j] = None]
          /\ start' = IF e = None THEN ended ELSE [ended EXCEPT ![e].isKilled = TRUE]
          /\ reaping' = IF e = None THEN reaping ELSE Reap(start[e].container)
          /\ UNCHANGED box

-----------------------------------------------------------------------------
(* A run.  Each action begins where an await of the start ends.            *)

Resumes(n, pc) == n \in DOMAIN start /\ start[n].pc = pc

\* The inputs are there.  The run goes on for the item that has the slot now.
CopyInputs(n) ==
  LET i == queue[JobOf(n)]
  IN /\ Resumes(n, "copying")
     /\ start' = IF i = None \/ start[n].isKilled THEN Goes(n, "silent")
                 ELSE [start EXCEPT ![i].phase = "Building",
                                    ![i].execution = n,
                                    ![n].pc = "building",
                                    ![n].item = i]
     /\ UNCHANGED <<server, queue, box, reaping, claim, timers, looks>>

CopyInputsFails(n) ==
  /\ Resumes(n, "copying")
  /\ start' = Goes(n, IF start[n].isKilled THEN "silent" ELSE "told")
  /\ queue' = [queue EXCEPT ![JobOf(n)] = None]
  /\ UNCHANGED <<server, box, reaping, claim, timers, looks>>

EnsureDockerImage(n) ==
  /\ Resumes(n, "building")
  /\ start' = Goes(n, IF start[n].isKilled THEN "silent" ELSE "looking")
  /\ UNCHANGED <<server, queue, box, reaping, claim, timers, looks>>

DockerBuildError(n) ==
  /\ Resumes(n, "building")
  /\ Resolve(n)
  /\ UNCHANGED <<server, box, reaping, claim, timers, looks>>

\* The running containers of the job, those of its earlier starts.  A run lists
\* them by the job alone and the health check by job and worker: the same here,
\* where docker has the containers of one worker.
RunningContainers(j) == {m \in DOMAIN start : JobOf(m) = j /\ box[m] = "up"}

GetRunningContainerForJob(n) ==
  /\ Resumes(n, "looking")
  /\ IF start[n].isKilled
     THEN start' = Goes(n, "silent")
     ELSE \/ /\ RunningContainers(JobOf(n)) = {}
             /\ start' = Goes(n, "creating")
          \/ \E c \in RunningContainers(JobOf(n)) :
               start' = [start EXCEPT ![n].pc = "checking", ![n].found = c]
  /\ UNCHANGED <<server, queue, box, reaping, claim, timers, looks>>

\* The container that was found is inspected: it may have ended meanwhile.
InspectFound(n) ==
  LET c  == start[n].found
      on == IF box[c] = "up" THEN c ELSE start[n].container
  IN /\ Resumes(n, "checking")
     /\ box[c] # "removed"
     /\ start' = [start EXCEPT ![n].container = on,
                               ![n].pc = IF start[n].isKilled THEN "silent"
                                         ELSE IF on = None THEN "creating" ELSE "attaching"]
     /\ UNCHANGED <<server, queue, box, reaping, claim, timers, looks>>

CreateContainer(n) ==
  /\ Resumes(n, "creating")
  /\ box' = [box EXCEPT ![n] = "created"]
  /\ start' = [start EXCEPT ![n].container = n, ![n].pc = "attaching"]
  /\ UNCHANGED <<server, queue, reaping, claim, timers, looks>>

\* A run that found a container starts none, not even the one it created.
Attach(n) ==
  /\ Resumes(n, "attaching")
  /\ box[start[n].container] # "removed"
  /\ start' = IF start[n].isKilled THEN Goes(n, "silent")
              ELSE GoesInPhase(n, IF start[n].found = None THEN "starting" ELSE "waiting",
                               "Running")
  /\ UNCHANGED <<server, queue, box, reaping, claim, timers, looks>>

StartContainer(n) ==
  /\ Resumes(n, "starting")
  /\ box[start[n].container] = "created"
  /\ box' = [box EXCEPT ![start[n].container] = "up"]
  /\ start' = Goes(n, "waiting")
  /\ UNCHANGED <<server, queue, reaping, claim, timers, looks>>

\* Mutant: the run asks once more whether it was killed.
ContainerFinishedUnlessKilled(n) ==
  /\ Resumes(n, "waiting")
  /\ box[start[n].container] # "up"
  /\ IF start[n].isKilled \/ IsDisowned(api[JobOf(n)])
     THEN Silent(n)
     ELSE /\ start' = GoesInPhase(n, "uploading", "UploadOutputs")
          /\ UNCHANGED queue
  /\ reaping' = Reap(start[n].container)
  /\ UNCHANGED <<server, box, claim, timers, looks>>

\* The container is not running any more, whatever ended it: a kill is not looked at.
ContainerFinished(n) ==
  /\ Resumes(n, "waiting")
  /\ box[start[n].container] # "up"
  /\ reaping' = Reap(start[n].container)
  /\ IF IsDisowned(api[JobOf(n)])
     THEN /\ start' = GoesInPhase(n, "silent", "UploadOutputs")
          /\ UNCHANGED queue
     ELSE IF start[n].isTimedOut THEN Tell(n)
     ELSE /\ start' = GoesInPhase(n, "uploading", "UploadOutputs")
          /\ UNCHANGED queue
  /\ UNCHANGED <<server, box, claim, timers, looks>>

\* getOutputs has ended, well or with an error.
GetOutputs(n) ==
  /\ Resumes(n, "uploading")
  /\ Tell(n)
  /\ UNCHANGED <<server, box, reaping, claim, timers, looks>>

\* A call of docker is rejected: the catch of the run, which asks nothing.
DockerFails(n) ==
  /\ \E pc \in {"looking", "checking", "creating", "attaching", "starting", "waiting"} :
       Resumes(n, pc)
  /\ Tell(n)
  /\ UNCHANGED <<server, box, reaping, claim, timers, looks>>

\* maxDurationCheck: the time of a started container is over.
MaxDurationCheck(n) ==
  /\ Resumes(n, "waiting")
  /\ ~start[n].isKilled
  /\ reaping' = Reap(start[n].container)
  /\ start' = [start EXCEPT ![n].isKilled = TRUE,
                            ![n].isTimedOut = TRUE,
                            ![start[n].item].phase = "Ended"]
  /\ UNCHANGED <<server, queue, box, claim, timers, looks>>

-----------------------------------------------------------------------------
(* Docker, and killAndRemove, which waits for it three times.              *)

\* A job ends by itself.
ContainerExits(c) ==
  /\ box[c] = "up"
  /\ box' = [box EXCEPT ![c] = "exited"]
  /\ UNCHANGED <<server, queue, start, reaping, claim, timers, looks>>

ReapOn(r, step) == (reaping \ {r}) \cup {[r EXCEPT !.step = step]}

KillAndRemove(r) ==
  /\ CASE r.step = "inspect" ->
            /\ reaping' = CASE box[r.box] = "removed" -> reaping \ {r}
                            [] box[r.box] = "up"      -> ReapOn(r, "kill")
                            [] OTHER                  -> ReapOn(r, "remove")
            /\ UNCHANGED box
       [] r.step = "kill" ->
            /\ reaping' = ReapOn(r, "remove")
            /\ box' = [box EXCEPT ![r.box] = IF @ = "up" THEN "exited" ELSE @]
       [] r.step = "remove" ->   \* refused for a container that runs
            /\ reaping' = reaping \ {r}
            /\ box' = [box EXCEPT ![r.box] = IF @ = "up" THEN "up" ELSE "removed"]
  /\ UNCHANGED <<server, queue, start, claim, timers, looks>>

-----------------------------------------------------------------------------
(* Timers and the health check.                                            *)

\* Mutant: a job that the server says has finished is left alone.
CheckRunningJobsAbsent(j, why) ==
  /\ <<j, why>> \in timers
  /\ timers' = timers \ {<<j, why>>}
  /\ IF \/ why = "gone" /\ api[j].state = "Absent"
        \/ why = "elsewhere" /\ IsPreferredElsewhere(api[j])
     THEN KillJobAndIgnore(j)
     ELSE UNCHANGED runs
  /\ UNCHANGED <<server, claim, looks>>

\* Six seconds after an update said that a job is not ours.
CheckRunningJobs(j, why) ==
  /\ <<j, why>> \in timers
  /\ timers' = timers \ {<<j, why>>}
  /\ IF \/ why = "gone" /\ IsGone(api[j])
        \/ why = "elsewhere" /\ IsPreferredElsewhere(api[j])
     THEN KillJobAndIgnore(j)
     ELSE UNCHANGED runs
  /\ UNCHANGED <<server, claim, looks>>

\* checkRunningJobContainers comes to job j: it waits for its container to be
\* inspected or, when the item knows of none, to be listed.
CheckContainer(j) ==
  LET i == queue[j]
      e == start[i].execution
      c == IF e = None THEN None ELSE start[e].container
  IN /\ i # None
     /\ api[j].state = "Running"
     /\ start[i].phase \in {"Running", "UploadOutputs"}
     /\ looks' = looks \cup {[job |-> j, item |-> i, box |-> c]}
     /\ UNCHANGED <<server, runs, claim, timers>>

\* The list of running containers has come.
ContainerListed(k) ==
  LET e == start[k.item].execution
  IN /\ k \in looks /\ k.box = None
     /\ \E c \in RunningContainers(k.job)
               \cup (IF RunningContainers(k.job) = {} THEN {None} ELSE {}) :
          LET known == IF e = None THEN None
                       ELSE IF start[e].container = None THEN c ELSE start[e].container
              noted == IF e = None THEN start ELSE [start EXCEPT ![e].container = known]
          IN IF queue[k.job] = None
             THEN /\ start' = noted
                  /\ looks' = looks \ {k}
                  /\ UNCHANGED <<queue, box, reaping>>
             ELSE IF known = None
             THEN /\ KillJobAndIgnore(k.job)
                  /\ looks' = looks \ {k}
             ELSE /\ start' = noted
                  /\ looks' = (looks \ {k}) \cup {[k EXCEPT !.box = known]}
                  /\ UNCHANGED <<queue, box, reaping>>
     /\ UNCHANGED <<server, claim, timers>>

\* The container has been inspected; when that fails, because it is not there any
\* more or for any other reason, the job is killed, whichever start has its slot
\* by now.
ContainerInspected(k) ==
  /\ k \in looks /\ k.box # None
  /\ looks' = looks \ {k}
  /\ KillJobAndIgnore(k.job) \/ (box[k.box] # "removed" /\ UNCHANGED runs)
  /\ UNCHANGED <<server, claim, timers>>

-----------------------------------------------------------------------------
Run(n) ==
  \/ CopyInputs(n) \/ CopyInputsFails(n)
  \/ EnsureDockerImage(n) \/ DockerBuildError(n)
  \/ GetRunningContainerForJob(n) \/ InspectFound(n)
  \/ CreateContainer(n) \/ Attach(n) \/ StartContainer(n)
  \/ ContainerFinished(n) \/ GetOutputs(n)
  \/ DockerFails(n) \/ MaxDurationCheck(n)

Claim == \E c \in claims : ClaimJob(c) \/ NoDefinition(c)

HealthCheck == \E k \in looks : ContainerListed(k) \/ ContainerInspected(k)

Next ==
  \/ \E word \in Words : Update(word)
  \/ Claim
  \/ \E n \in Starts : Run(n) \/ ContainerExits(n)
  \/ \E r \in reaping : KillAndRemove(r)
  \/ \E j \in Job, why \in {"gone", "elsewhere"} : CheckRunningJobs(j, why)
  \/ \E j \in Job : CheckContainer(j)
  \/ HealthCheck

\* Updates come every few seconds and timers go off.  That is all: runs and calls
\* of docker may hang, definitions may never come.
Fairness ==
  /\ WF_vars(Update(api))
  /\ \A j \in Job : WF_vars(CheckRunningJobs(j, "gone"))

Spec == Init /\ [][Next]_vars /\ Fairness

-----------------------------------------------------------------------------
(* Properties.                                                             *)

\* No GPU is promised to two slots, however slots are freed, refused and given
\* away again while runs go on.
GpusNotShared ==
  \A j, k \in Held : j # k /\ start[queue[j]].gpu # NoGpu => start[queue[j]].gpu # start[queue[k]].gpu

\* A slot is never given away while it is taken: _startJob never replaces an
\* item, although it does not look and _claimJobs looked before it waited.
NeverReplaced == [][\A j \in Job : queue[j] # None => queue'[j] \in {queue[j], None}]_vars

\* More slots than CPUs are only taken by jobs the server said run here.
ClaimsWithinCpus ==
  [][Cardinality(Held') > Cardinality(Held) /\ Cardinality(Held') > Cpus
       => \E c \in claims : c.stage = "ours"]_vars

\* A run that ends without a word leaves its slot behind only when the server's
\* word is that the job is not ours: a run that timed out, failed or was killed
\* for another slot's sake never keeps the slot.
NoDeadSlot ==
  [][\A n \in DOMAIN start :
       /\ start[n].pc # "silent" /\ start'[n].pc = "silent"
       /\ queue'[JobOf(n)] = n
       => IsDisowned(api[JobOf(n)])]_vars

\* When the server has dropped a job for good its slot comes back, whatever the
\* run, or the refused start, behind it does.
SlotsComeBack == \A j \in Job : <>[]IsGone(api[j]) => <>[](queue[j] = None)

\* Violated: checkRunningJobContainers is about jobs that are supposed to be
\* running, so while the server says that a job runs here its slot is not taken
\* from a run that uploads its outputs.
UploadKeepsSlot ==
  [][\A n \in DOMAIN start :
       /\ start[n].pc = "uploading" /\ start'[n].pc = "uploading"
       /\ queue[JobOf(n)] = n /\ IsOurs(api[JobOf(n)])
       => queue'[JobOf(n)] = n]_vars

===============================================================================
