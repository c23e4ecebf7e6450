----------------------------- MODULE WorkerProofs -----------------------------
(***************************************************************************)
(* Worker for any jobs, any CPUs and GPUs, any words of the server and any *)
(* bounds: the types, that no GPU is promised to two slots, that no slot   *)
(* is given away while it is taken, and that queued jobs are only claimed  *)
(* within the CPUs.                                                        *)
(*                                                                         *)
(* All of it rests on one fact of _claimJobs, OneClaim.  _startJob does    *)
(* not look whether the job has a slot: the loop did, before it waited for *)
(* the definition.  What it saw still holds because no other loop runs and *)
(* because everything else only frees slots, which Quiet says.             *)
(***************************************************************************)
EXTENDS Worker, SequenceTheorems, FiniteSetTheorems, TLAPS

USE WorkerAssumption

-----------------------------------------------------------------------------
(* The inductive invariant.                                                *)

\* What starts and health checks refer to are starts there have been.
Refs ==
  /\ \A n \in DOMAIN start : start[n].execution \in 0 .. Len(start)
  /\ \A k \in looks : k.item <= Len(start)

Claimant == [stage : {"ours", "queued"}, job : Job, left : SUBSET Job]

\* A set of calls of _claimJobs: at most one, and its job has no slot.
OneAndFree(calls, q) ==
  /\ calls \subseteq Claimant
  /\ \A c, d \in calls : c = d
  /\ \A c \in calls : q[c.job] = None

OneClaim ==
  /\ OneAndFree(claims, queue)
  /\ claims # {} => isClaiming

IInv == TypeOK /\ Refs /\ GpusNotShared /\ OneClaim

\* Slots are kept or freed, not given.
OnlyFreed == \A j \in Job : queue[j] # None => queue'[j] \in {queue[j], None}

LEMMA Numbers == Starts \subseteq Nat /\ None \notin Starts
BY DEF Starts, None

LEMMA InitInv == Init => IInv
<1> SUFFICES ASSUME Init
             PROVE  IInv
  OBVIOUS
<1> USE DEF Init
<1>1. start \in Seq(Start) /\ Len(start) = 0 /\ DOMAIN start = {}
  BY EmptySeq
<1>2. TypeOK
  <2>1. api \in [Job -> Said] /\ changes \in 0 .. MaxChanges
    BY DEF Said
  <2>2. /\ start \in Seq(Start) /\ Len(start) <= MaxStarts
        /\ queue \in [Job -> Starts \cup {None}]
        /\ \A j \in Job : queue[j] = None
    BY <1>1
  <2> QED
    BY <2>1, <2>2 DEF TypeOK
<1>3. Refs /\ GpusNotShared /\ OneClaim
  BY <1>1 DEF Refs, GpusNotShared, Held, OneClaim, OneAndFree
<1> QED
  BY <1>2, <1>3 DEF IInv

-----------------------------------------------------------------------------
(* Steps that take no slot.                                                *)

\* The starts as they are, but for what neither slots nor GPUs depend on.
Kept(s) ==
  /\ s \in [DOMAIN start -> Start]
  /\ \A n \in DOMAIN start :
       /\ s[n].job = start[n].job
       /\ s[n].gpu = start[n].gpu
       /\ s[n].execution \in 0 .. Len(start)

Quiet ==
  /\ Kept(start')
  /\ queue' \in [Job -> Starts \cup {None}]
  /\ \A j \in Job : queue'[j] \in {queue[j], None}
  /\ box' \in [Starts -> {"none", "created", "up", "exited", "removed"}]
  /\ reaping' \subseteq [box : Starts, step : {"inspect", "kill", "remove"}]
  /\ timers' \subseteq Job \X {"gone", "elsewhere"}
  /\ looks' \subseteq [job : Job, item : Starts, box : Starts \cup {None}]
  /\ \A k \in looks' : k.item <= Len(start)
  /\ UNCHANGED <<server, claim>>

LEMMA QuietStep ==
  ASSUME IInv, Quiet
  PROVE  IInv' /\ OnlyFreed
<1> USE DEF IInv, Quiet
<1>1. start \in Seq(Start) /\ DOMAIN start = 1 .. Len(start) /\ Len(start) \in Nat
  BY DEF TypeOK
<1>2. start' \in Seq(Start) /\ Len(start') = Len(start) /\ DOMAIN start' = DOMAIN start
  <2>1. start' \in [1 .. Len(start) -> Start]
    BY <1>1 DEF Kept
  <2>2. start' \in Seq(Start)
    BY <1>1, <2>1, SeqDef
  <2> QED
    BY <1>1, <2>1, <2>2, LenProperties
<1>3. ASSUME NEW j \in Job, queue'[j] # None
      PROVE  queue'[j] = queue[j] /\ queue[j] \in DOMAIN start
  BY <1>1, <1>3, Numbers DEF TypeOK, Starts
<1>4. TypeOK'
  <2>1. \A j \in Job : queue'[j] # None => queue'[j] <= Len(start') /\ start'[queue'[j]].job = j
    BY <1>2, <1>3 DEF TypeOK, Kept
  <2>2. api' \in [Job -> Said] /\ changes' \in 0 .. MaxChanges
    BY DEF TypeOK, server
  <2>3. /\ claims' \subseteq [stage : {"ours", "queued"}, job : Job, left : SUBSET Job]
        /\ {isClaiming', needsAnother'} \subseteq BOOLEAN
    BY DEF TypeOK, claim
  <2>4. start' \in Seq(Start) /\ Len(start') <= MaxStarts
    BY <1>2 DEF TypeOK
  <2> QED
    BY <2>1, <2>2, <2>3, <2>4 DEF TypeOK
<1>5. Refs'
  BY <1>2 DEF Refs, Kept
<1>6. GpusNotShared'
  <2> SUFFICES ASSUME NEW j \in Job, NEW k \in Job, j # k,
                      queue'[j] # None, queue'[k] # None,
                      start'[queue'[j]].gpu # NoGpu
               PROVE  start'[queue'[j]].gpu # start'[queue'[k]].gpu
    BY DEF GpusNotShared, Held
  <2>1. /\ j \in Held /\ k \in Held
        /\ start'[queue'[j]].gpu = start[queue[j]].gpu
        /\ start'[queue'[k]].gpu = start[queue[k]].gpu
    BY <1>3 DEF Held, Kept
  <2> QED
    BY <2>1 DEF GpusNotShared
<1>7. OneClaim'
  <2>1. UNCHANGED <<claims, isClaiming>>
    BY DEF claim
  <2>2. \A c \in claims : c.job \in Job /\ queue[c.job] = None
    BY DEF OneClaim, OneAndFree, Claimant
  <2> QED
    BY <2>1, <2>2 DEF OneClaim, OneAndFree, Claimant
<1> QED
  BY <1>4, <1>5, <1>6, <1>7 DEF OnlyFreed

-----------------------------------------------------------------------------
(* Changes of a start that are kept.                                       *)

LEMMA StartFields ==
  ASSUME IInv, NEW n \in DOMAIN start
  PROVE  /\ start[n] \in Start
         /\ start[n].job \in Job
         /\ {start[n].item, start[n].found, start[n].container} \subseteq Starts \cup {None}
         /\ start[n].execution \in 0 .. Len(start)
         /\ n \in 1 .. Len(start)
<1>1. start \in Seq(Start)
  BY DEF IInv, TypeOK
<1>2. start[n] \in Start
  BY <1>1
<1>3. start[n].job \in Job
  BY <1>2 DEF Start
<1>4. {start[n].item, start[n].found, start[n].container} \subseteq Starts \cup {None}
  BY <1>2 DEF Start
<1> QED
  BY <1>1, <1>2, <1>3, <1>4 DEF IInv, Refs

\* A slot is that of a start there has been, of that job.
LEMMA SlotIsStart ==
  ASSUME IInv, NEW j \in Job, queue[j] # None
  PROVE  queue[j] \in DOMAIN start /\ start[queue[j]].job = j
BY Numbers DEF IInv, TypeOK, Starts

LEMMA KeptAsIs ==
  ASSUME IInv
  PROVE  Kept(start)
BY DEF IInv, TypeOK, Refs, Kept

LEMMA KeptUpdate ==
  ASSUME NEW s, Kept(s), NEW n, NEW r,
         n \in DOMAIN start =>
           /\ r \in Start
           /\ r.job = s[n].job /\ r.gpu = s[n].gpu
           /\ r.execution \in 0 .. Len(start)
  PROVE  Kept([s EXCEPT ![n] = r])
BY DEF Kept

\* Any field but job, gpu and execution, of any start, known or not.
LEMMA KeptField ==
  ASSUME NEW s, Kept(s), NEW n
  PROVE  /\ \A pc \in {"refused", "copying", "building", "looking", "checking", "creating",
                      "attaching", "starting", "waiting", "uploading", "told", "silent"} :
              Kept([s EXCEPT ![n].pc = pc])
         /\ \A phase \in {"CopyInputs", "Building", "Running", "UploadOutputs", "Ended"} :
              Kept([s EXCEPT ![n].phase = phase])
         /\ Kept([s EXCEPT ![n].isKilled = TRUE])
         /\ Kept([s EXCEPT ![n].isTimedOut = TRUE])
         /\ \A c \in Starts \cup {None} :
              /\ Kept([s EXCEPT ![n].found = c])
              /\ Kept([s EXCEPT ![n].container = c])
<1>1. ASSUME NEW m \in DOMAIN start
      PROVE  s[m] \in Start /\ s[m].execution \in 0 .. Len(start)
  BY DEF Kept
<1>2. ASSUME NEW pc \in {"refused", "copying", "building", "looking", "checking", "creating",
                        "attaching", "starting", "waiting", "uploading", "told", "silent"}
      PROVE  Kept([s EXCEPT ![n].pc = pc])
  <2>1. n \in DOMAIN start => [s[n] EXCEPT !.pc = pc] \in Start
    BY ZenonT(60), <1>1 DEF Start
  <2> QED
    BY <1>1, <2>1, KeptUpdate DEF Start
<1>3. ASSUME NEW phase \in {"CopyInputs", "Building", "Running", "UploadOutputs", "Ended"}
      PROVE  Kept([s EXCEPT ![n].phase = phase])
  <2>1. n \in DOMAIN start => [s[n] EXCEPT !.phase = phase] \in Start
    BY ZenonT(60), <1>1 DEF Start
  <2> QED
    BY <1>1, <2>1, KeptUpdate DEF Start
<1>4. Kept([s EXCEPT ![n].isKilled = TRUE])
  <2>1. n \in DOMAIN start => [s[n] EXCEPT !.isKilled = TRUE] \in Start
    BY ZenonT(60), <1>1 DEF Start
  <2> QED
    BY <1>1, <2>1, KeptUpdate DEF Start
<1>5. Kept([s EXCEPT ![n].isTimedOut = TRUE])
  <2>1. n \in DOMAIN start => [s[n] EXCEPT !.isTimedOut = TRUE] \in Start
    BY ZenonT(60), <1>1 DEF Start
  <2> QED
    BY <1>1, <2>1, KeptUpdate DEF Start
<1>6. ASSUME NEW c \in Starts \cup {None}
      PROVE  /\ Kept([s EXCEPT ![n].found = c])
             /\ Kept([s EXCEPT ![n].container = c])
  <2>1. n \in DOMAIN start =>
          /\ [s[n] EXCEPT !.found = c] \in Start
          /\ [s[n] EXCEPT !.container = c] \in Start
    BY ZenonT(60), <1>1 DEF Start
  <2>2. Kept([s EXCEPT ![n].found = c])
    BY <1>1, <2>1, KeptUpdate DEF Start
  <2>3. Kept([s EXCEPT ![n].container = c])
    BY <1>1, <2>1, KeptUpdate DEF Start
  <2> QED
    BY <2>2, <2>3
<1> QED
  BY <1>2, <1>3, <1>4, <1>5, <1>6

LEMMA GoesKept ==
  ASSUME IInv, NEW n,
         NEW pc \in {"refused", "copying", "building", "looking", "checking", "creating",
                    "attaching", "starting", "waiting", "uploading", "told", "silent"}
  PROVE  /\ Kept(Goes(n, pc))
         /\ \A phase \in {"CopyInputs", "Building", "Running", "UploadOutputs", "Ended"} :
              Kept(GoesInPhase(n, pc, phase))
<1>1. Kept(Goes(n, pc))
  BY KeptAsIs, KeptField DEF Goes
<1>2. ASSUME NEW phase \in {"CopyInputs", "Building", "Running", "UploadOutputs", "Ended"}
      PROVE  Kept(GoesInPhase(n, pc, phase))
  <2> DEFINE gone == [start EXCEPT ![n].pc = pc]
  <2>1. Kept(gone)
    BY <1>1 DEF Goes
  <2>2. Kept([gone EXCEPT ![start[n].item].phase = phase])
    <3> HIDE DEF gone
    <3> QED
      BY <2>1, KeptField
  <2> QED
    BY <2>2 DEF GoesInPhase
<1> QED
  BY <1>1, <1>2

\* Tell, Silent, Resolve and KillJobAndIgnore as far as slots see them.
KeepsOrFrees ==
  \/ UNCHANGED queue
  \/ \E j \in Job : queue' = [queue EXCEPT ![j] = None]

LEMMA ResolveKeeps ==
  ASSUME IInv, NEW n \in DOMAIN start
  PROVE  /\ Tell(n) => Kept(start') /\ KeepsOrFrees
         /\ Silent(n) => Kept(start') /\ KeepsOrFrees
         /\ Resolve(n) => Kept(start') /\ KeepsOrFrees
<1>1. JobOf(n) \in Job
  BY StartFields DEF JobOf
<1>2. Tell(n) => Kept(start') /\ KeepsOrFrees
  BY <1>1, GoesKept DEF Tell, KeepsOrFrees
<1>3. Silent(n) => Kept(start') /\ KeepsOrFrees
  BY GoesKept DEF Silent, KeepsOrFrees
<1> QED
  BY <1>2, <1>3 DEF Resolve

LEMMA ReapType ==
  ASSUME IInv, NEW c \in Starts \cup {None}
  PROVE  Reap(c) \subseteq [box : Starts, step : {"inspect", "kill", "remove"}]
BY DEF IInv, TypeOK, Reap

LEMMA KillKeeps ==
  ASSUME IInv, NEW j \in Job, KillJobAndIgnore(j)
  PROVE  /\ Kept(start')
         /\ KeepsOrFrees
         /\ reaping' \subseteq [box : Starts, step : {"inspect", "kill", "remove"}]
         /\ UNCHANGED box
<1> DEFINE i == queue[j]
           e == start[i].execution
           ended == [start EXCEPT ![i].phase = "Ended"]
<1>1. CASE i = None
  BY <1>1, KeptAsIs DEF KillJobAndIgnore, KeepsOrFrees, runs, IInv, TypeOK
<1>2. CASE i # None
  <2>1. i \in DOMAIN start
    BY <1>2, SlotIsStart
  <2>2. e \in 0 .. Len(start)
    BY <2>1 DEF IInv, Refs
  <2>3. /\ queue' = [queue EXCEPT ![j] = None]
        /\ start' = IF e = None THEN ended ELSE [ended EXCEPT ![e].isKilled = TRUE]
        /\ reaping' = IF e = None THEN reaping ELSE Reap(start[e].container)
        /\ UNCHANGED box
    BY <1>2 DEF KillJobAndIgnore
  <2>4. Kept(ended)
    BY KeptAsIs, KeptField
  <2>5. Kept([ended EXCEPT ![e].isKilled = TRUE])
    <3> HIDE DEF ended, e
    <3> QED
      BY <2>4, KeptField
  <2>6. e # None => start[e].container \in Starts \cup {None}
    <3>1. e # None => e \in DOMAIN start
      BY <2>2 DEF IInv, TypeOK, None
    <3> QED
      BY <3>1, StartFields
  <2>7. reaping' \subseteq [box : Starts, step : {"inspect", "kill", "remove"}]
    BY <2>3, <2>6, ReapType DEF IInv, TypeOK
  <2> QED
    BY <2>3, <2>4, <2>5, <2>7 DEF KeepsOrFrees
<1> QED
  BY <1>1, <1>2

\* What is left to show of the steps of a run.
LEMMA RunIsQuiet ==
  ASSUME IInv, Kept(start'), KeepsOrFrees,
         box' \in [Starts -> {"none", "created", "up", "exited", "removed"}],
         reaping' \subseteq [box : Starts, step : {"inspect", "kill", "remove"}],
         UNCHANGED <<server, claim, timers, looks>>
  PROVE  Quiet
BY DEF IInv, TypeOK, Refs, KeepsOrFrees, Quiet

-----------------------------------------------------------------------------
(* The steps of a run, of docker, of timers and of the health check.       *)

LEMMA Types ==
  ASSUME IInv
  PROVE  /\ box \in [Starts -> {"none", "created", "up", "exited", "removed"}]
         /\ reaping \subseteq [box : Starts, step : {"inspect", "kill", "remove"}]
BY DEF IInv, TypeOK

LEMMA RunQuiet ==
  ASSUME IInv, NEW n \in Starts, Run(n)
  PROVE  Quiet
<1>1. n \in DOMAIN start
  BY DEF Run, CopyInputs, CopyInputsFails, EnsureDockerImage, DockerBuildError,
     GetRunningContainerForJob, InspectFound, CreateContainer, Attach, StartContainer,
     ContainerFinished, GetOutputs, DockerFails, MaxDurationCheck, Resumes
<1>2. JobOf(n) \in Job
  BY <1>1, StartFields DEF JobOf
<1>3. start[n].container \in Starts \cup {None}
  BY <1>1, StartFields
<1>4. CASE CopyInputs(n)
  <2> DEFINE i == queue[JobOf(n)]
             building == [start EXCEPT ![i].phase = "Building"]
             given    == [building EXCEPT ![i].execution = n]
             going    == [given EXCEPT ![n].pc = "building"]
  <2>1. CASE i = None \/ start[n].isKilled
    <3>1. Kept(start')
      BY <1>4, <2>1, GoesKept DEF CopyInputs
    <3> QED
      BY <1>4, <3>1, RunIsQuiet, Types DEF CopyInputs, KeepsOrFrees
  <2>2. CASE ~(i = None \/ start[n].isKilled)
    <3>1. Kept(building)
      BY KeptAsIs, KeptField
    <3>2. Kept(given)
      <4>1. i \in DOMAIN start
        BY <1>2, <2>2, SlotIsStart
      <4>2. building[i] \in Start /\ n \in 0 .. Len(start)
        BY <1>1, <3>1, <4>1, StartFields DEF Kept
      <4>3. [building[i] EXCEPT !.execution = n] \in Start
        BY <4>2 DEF Start
      <4> HIDE DEF building, i
      <4>4. /\ [building[i] EXCEPT !.execution = n].job = building[i].job
            /\ [building[i] EXCEPT !.execution = n].gpu = building[i].gpu
            /\ [building[i] EXCEPT !.execution = n].execution \in 0 .. Len(start)
        BY <4>2 DEF Start
      <4> QED
        BY <3>1, <4>3, <4>4, KeptUpdate
    <3>3. Kept(going)
      <4> HIDE DEF given, i
      <4> QED
        BY <3>2, KeptField
    <3>4. i \in Starts
      BY <1>2, <2>2 DEF IInv, TypeOK
    <3>5. Kept([going EXCEPT ![n].item = i])
      <4> HIDE DEF going, i
      <4>1. going[n] \in Start
        BY <1>1, <3>3 DEF Kept
      <4>2. [going[n] EXCEPT !.item = i] \in Start
        BY <3>4, <4>1 DEF Start
      <4>3. /\ [going[n] EXCEPT !.item = i].job = going[n].job
            /\ [going[n] EXCEPT !.item = i].gpu = going[n].gpu
            /\ [going[n] EXCEPT !.item = i].execution \in 0 .. Len(start)
        BY <1>1, <3>3, <4>1 DEF Start, Kept
      <4> QED
        BY <3>3, <4>2, <4>3, KeptUpdate
    <3>6. Kept(start')
      BY <1>4, <2>2, <3>5 DEF CopyInputs
    <3> QED
      BY <1>4, <3>6, RunIsQuiet, Types DEF CopyInputs, KeepsOrFrees
  <2> QED
    BY <2>1, <2>2
<1>5. CASE CopyInputsFails(n)
  <2>1. Kept(start') /\ KeepsOrFrees
    BY <1>2, <1>5, GoesKept DEF CopyInputsFails, KeepsOrFrees
  <2> QED
    BY <1>5, <2>1, RunIsQuiet, Types DEF CopyInputsFails
<1>6. CASE EnsureDockerImage(n)
  <2>1. Kept(start') /\ KeepsOrFrees
    BY <1>6, GoesKept DEF EnsureDockerImage, KeepsOrFrees
  <2> QED
    BY <1>6, <2>1, RunIsQuiet, Types DEF EnsureDockerImage
<1>7. CASE DockerBuildError(n)
  <2>1. Kept(start') /\ KeepsOrFrees
    BY <1>1, <1>7, ResolveKeeps DEF DockerBuildError
  <2> QED
    BY <1>7, <2>1, RunIsQuiet, Types DEF DockerBuildError
<1>8. CASE GetRunningContainerForJob(n)
  <2>1. ASSUME NEW c \in RunningContainers(JobOf(n))
        PROVE  Kept([start EXCEPT ![n].pc = "checking", ![n].found = c])
    <3> DEFINE checking == [start EXCEPT ![n].pc = "checking"]
    <3>1. Kept(checking)
      BY KeptAsIs, KeptField
    <3>2. c \in Starts
      BY DEF RunningContainers, IInv, TypeOK, Starts
    <3>3. Kept([checking EXCEPT ![n].found = c])
      <4> HIDE DEF checking
      <4> QED
        BY <3>1, <3>2, KeptField
    <3> QED
      BY <3>3
  <2>2. Kept(start') /\ KeepsOrFrees
    BY <1>8, <2>1, GoesKept DEF GetRunningContainerForJob, KeepsOrFrees
  <2> QED
    BY <1>8, <2>2, RunIsQuiet, Types DEF GetRunningContainerForJob
<1>9. CASE InspectFound(n)
  <2> DEFINE c  == start[n].found
             on == IF box[c] = "up" THEN c ELSE start[n].container
             pc == IF start[n].isKilled THEN "silent"
                   ELSE IF on = None THEN "creating" ELSE "attaching"
             attached == [start EXCEPT ![n].container = on]
  <2>1. on \in Starts \cup {None}
    BY <1>1, <1>3, StartFields
  <2>2. Kept(attached)
    <3> HIDE DEF on
    <3> QED
      BY <2>1, KeptAsIs, KeptField
  <2>3. pc \in {"silent", "creating", "attaching"}
    OBVIOUS
  <2>4. Kept([attached EXCEPT ![n].pc = pc])
    <3> HIDE DEF attached, pc
    <3> QED
      BY <2>2, <2>3, KeptField
  <2>5. Kept(start') /\ KeepsOrFrees
    BY <1>9, <2>4 DEF InspectFound, KeepsOrFrees
  <2> QED
    BY <1>9, <2>5, RunIsQuiet, Types DEF InspectFound
<1>10. CASE CreateContainer(n)
  <2> DEFINE created == [start EXCEPT ![n].container = n]
  <2>1. Kept(created)
    BY KeptAsIs, KeptField
  <2>2. Kept([created EXCEPT ![n].pc = "attaching"])
    <3> HIDE DEF created
    <3> QED
      BY <2>1, KeptField
  <2>3. Kept(start') /\ KeepsOrFrees
    BY <1>10, <2>2 DEF CreateContainer, KeepsOrFrees
  <2>4. box' \in [Starts -> {"none", "created", "up", "exited", "removed"}]
    BY <1>10, Types DEF CreateContainer
  <2> QED
    BY <1>10, <2>3, <2>4, RunIsQuiet, Types DEF CreateContainer
<1>11. CASE Attach(n)
  <2>1. Kept(start') /\ KeepsOrFrees
    BY <1>11, GoesKept DEF Attach, KeepsOrFrees
  <2> QED
    BY <1>11, <2>1, RunIsQuiet, Types DEF Attach
<1>12. CASE StartContainer(n)
  <2>1. Kept(start') /\ KeepsOrFrees
    BY <1>12, GoesKept DEF StartContainer, KeepsOrFrees
  <2>2. box' \in [Starts -> {"none", "created", "up", "exited", "removed"}]
    BY <1>12, Types DEF StartContainer
  <2> QED
    BY <1>12, <2>1, <2>2, RunIsQuiet, Types DEF StartContainer
<1>13. CASE ContainerFinished(n)
  <2>1. Kept(start') /\ KeepsOrFrees
    BY <1>1, <1>13, GoesKept, ResolveKeeps DEF ContainerFinished, KeepsOrFrees
  <2>2. reaping' \subseteq [box : Starts, step : {"inspect", "kill", "remove"}]
    BY <1>3, <1>13, ReapType DEF ContainerFinished
  <2> QED
    BY <1>13, <2>1, <2>2, RunIsQuiet, Types DEF ContainerFinished
<1>14. CASE GetOutputs(n)
  <2>1. Kept(start') /\ KeepsOrFrees
    BY <1>1, <1>14, ResolveKeeps DEF GetOutputs
  <2> QED
    BY <1>14, <2>1, RunIsQuiet, Types DEF GetOutputs
<1>15. CASE DockerFails(n)
  <2>1. Kept(start') /\ KeepsOrFrees
    BY <1>1, <1>15, ResolveKeeps DEF DockerFails
  <2> QED
    BY <1>15, <2>1, RunIsQuiet, Types DEF DockerFails
<1>16. CASE MaxDurationCheck(n)
  <2> DEFINE killed   == [start EXCEPT ![n].isKilled = TRUE]
             timedOut == [killed EXCEPT ![n].isTimedOut = TRUE]
  <2>1. Kept(killed)
    BY KeptAsIs, KeptField
  <2>2. Kept(timedOut)
    <3> HIDE DEF killed
    <3> QED
      BY <2>1, KeptField
  <2>3. Kept([timedOut EXCEPT ![start[n].item].phase = "Ended"])
    <3> HIDE DEF timedOut
    <3> QED
      BY <2>2, KeptField
  <2>4. Kept(start') /\ KeepsOrFrees
    BY <1>16, <2>3 DEF MaxDurationCheck, KeepsOrFrees
  <2>5. reaping' \subseteq [box : Starts, step : {"inspect", "kill", "remove"}]
    BY <1>3, <1>16, ReapType DEF MaxDurationCheck
  <2> QED
    BY <1>16, <2>4, <2>5, RunIsQuiet, Types DEF MaxDurationCheck
<1> QED
  BY <1>4, <1>5, <1>6, <1>7, <1>8, <1>9, <1>10, <1>11, <1>12, <1>13, <1>14, <1>15, <1>16
     DEF Run

LEMMA DockerQuiet ==
  ASSUME IInv
  PROVE  /\ \A n \in Starts : ContainerExits(n) => Quiet
         /\ \A r \in reaping : KillAndRemove(r) => Quiet
<1>1. ASSUME NEW n \in Starts, ContainerExits(n)
      PROVE  Quiet
  <2>1. Kept(start') /\ KeepsOrFrees
    BY <1>1, KeptAsIs DEF ContainerExits, KeepsOrFrees
  <2>2. box' \in [Starts -> {"none", "created", "up", "exited", "removed"}]
    BY <1>1, Types DEF ContainerExits
  <2> QED
    BY <1>1, <2>1, <2>2, RunIsQuiet, Types DEF ContainerExits
<1>2. ASSUME NEW r \in reaping, KillAndRemove(r)
      PROVE  Quiet
  <2>1. Kept(start') /\ KeepsOrFrees
    BY <1>2, KeptAsIs DEF KillAndRemove, KeepsOrFrees
  <2>2. /\ r \in [box : Starts, step : {"inspect", "kill", "remove"}]
        /\ r.box \in Starts /\ r.step \in {"inspect", "kill", "remove"}
    BY Types
  <2>3. \A step \in {"kill", "remove"} :
          ReapOn(r, step) \subseteq [box : Starts, step : {"inspect", "kill", "remove"}]
    BY <2>2, Types DEF ReapOn
  <2>4. /\ box' \in [Starts -> {"none", "created", "up", "exited", "removed"}]
        /\ reaping' \subseteq [box : Starts, step : {"inspect", "kill", "remove"}]
    <3>1. CASE r.step = "inspect"
      <4>1. /\ UNCHANGED box
            /\ \/ reaping' = reaping \ {r}
               \/ reaping' = ReapOn(r, "kill")
               \/ reaping' = ReapOn(r, "remove")
        BY <1>2, <3>1 DEF KillAndRemove
      <4> QED
        BY <2>3, <4>1, Types
    <3>2. CASE r.step = "kill"
      BY <1>2, <2>3, <3>2, Types DEF KillAndRemove
    <3>3. CASE r.step = "remove"
      BY <1>2, <3>3, Types DEF KillAndRemove
    <3> QED
      BY <2>2, <3>1, <3>2, <3>3
  <2> QED
    BY <1>2, <2>1, <2>4, RunIsQuiet DEF KillAndRemove
<1> QED
  BY <1>1, <1>2

LEMMA TimerQuiet ==
  ASSUME IInv, NEW j \in Job, NEW why \in {"gone", "elsewhere"}, CheckRunningJobs(j, why)
  PROVE  Quiet
<1>1. /\ Kept(start') /\ KeepsOrFrees /\ UNCHANGED box
      /\ reaping' \subseteq [box : Starts, step : {"inspect", "kill", "remove"}]
  <2>1. CASE KillJobAndIgnore(j)
    BY <2>1, KillKeeps
  <2>2. CASE UNCHANGED runs
    BY <2>2, KeptAsIs, Types DEF runs, KeepsOrFrees
  <2> QED
    BY <2>1, <2>2 DEF CheckRunningJobs
<1>2. timers' \subseteq timers /\ UNCHANGED <<server, claim, looks>>
  BY DEF CheckRunningJobs
<1> QED
  BY <1>1, <1>2 DEF IInv, TypeOK, Refs, KeepsOrFrees, Quiet

\* The health check: the looks that are added are about starts there have been.
LEMMA HealthQuiet ==
  ASSUME IInv
  PROVE  /\ \A j \in Job : CheckContainer(j) => Quiet
         /\ HealthCheck => Quiet
<1> DEFINE Look == [job : Job, item : Starts, box : Starts \cup {None}]
<1>1. /\ looks \subseteq Look
      /\ \A k \in looks : k.item <= Len(start)
      /\ \A k \in looks : k.job \in Job /\ k.item \in DOMAIN start
  BY DEF IInv, TypeOK, Refs, Starts
<1>2. ASSUME Kept(start'), KeepsOrFrees, UNCHANGED box,
             reaping' \subseteq [box : Starts, step : {"inspect", "kill", "remove"}],
             looks' \subseteq Look,
             \A k \in looks' : k.item <= Len(start),
             UNCHANGED <<server, claim, timers>>
      PROVE  Quiet
  BY <1>2 DEF IInv, TypeOK, KeepsOrFrees, Quiet
<1>3. ASSUME UNCHANGED runs
      PROVE  /\ Kept(start') /\ KeepsOrFrees /\ UNCHANGED box
             /\ reaping' \subseteq [box : Starts, step : {"inspect", "kill", "remove"}]
  BY <1>3, KeptAsIs, Types DEF runs, KeepsOrFrees
<1>4. ASSUME NEW n \in DOMAIN start
      PROVE  LET e == start[n].execution
             IN e # None => e \in DOMAIN start /\ start[e].container \in Starts \cup {None}
  <2>1. start[n].execution # None => start[n].execution \in DOMAIN start
    BY StartFields DEF IInv, TypeOK, None
  <2> QED
    BY <2>1, StartFields
<1>5. ASSUME NEW j \in Job, CheckContainer(j)
      PROVE  Quiet
  <2> DEFINE i == queue[j]
             e == start[i].execution
             c == IF e = None THEN None ELSE start[e].container
  <2>1. /\ i # None /\ UNCHANGED <<server, runs, claim, timers>>
        /\ looks' = looks \cup {[job |-> j, item |-> i, box |-> c]}
    BY <1>5 DEF CheckContainer
  <2>2. i \in DOMAIN start /\ i \in Starts
    BY <2>1, SlotIsStart DEF IInv, TypeOK
  <2>3. c \in Starts \cup {None}
    BY <1>4, <2>2
  <2>4. i <= Len(start)
    BY <2>2 DEF IInv, TypeOK
  <2>5. [job |-> j, item |-> i, box |-> c] \in Look
    BY <2>2, <2>3
  <2>6. looks' \subseteq Look /\ \A k \in looks' : k.item <= Len(start)
    <3> HIDE DEF Look, c
    <3> QED
      BY <1>1, <2>1, <2>4, <2>5
  <2> QED
    BY <1>2, <1>3, <2>1, <2>6
<1>6. ASSUME NEW k \in looks, ContainerInspected(k)
      PROVE  Quiet
  <2>1. /\ Kept(start') /\ KeepsOrFrees /\ UNCHANGED box
        /\ reaping' \subseteq [box : Starts, step : {"inspect", "kill", "remove"}]
    BY <1>1, <1>3, <1>6, KillKeeps DEF ContainerInspected
  <2> QED
    BY <1>1, <1>2, <1>6, <2>1 DEF ContainerInspected
<1>7. ASSUME NEW k \in looks, ContainerListed(k)
      PROVE  Quiet
  <2> DEFINE e == start[k.item].execution
             known(c) == IF e = None THEN None
                         ELSE IF start[e].container = None THEN c ELSE start[e].container
             noted(c) == IF e = None THEN start ELSE [start EXCEPT ![e].container = known(c)]
  <2>1. PICK c \in RunningContainers(k.job)
                  \cup (IF RunningContainers(k.job) = {} THEN {None} ELSE {}) :
          IF queue[k.job] = None
          THEN /\ start' = noted(c)
               /\ looks' = looks \ {k}
               /\ UNCHANGED <<queue, box, reaping>>
          ELSE IF known(c) = None
          THEN /\ KillJobAndIgnore(k.job)
               /\ looks' = looks \ {k}
          ELSE /\ start' = noted(c)
               /\ looks' = (looks \ {k}) \cup {[k EXCEPT !.box = known(c)]}
               /\ UNCHANGED <<queue, box, reaping>>
    BY <1>7 DEF ContainerListed
  <2>2. c \in Starts \cup {None}
    BY DEF RunningContainers, IInv, TypeOK, Starts
  <2>3. known(c) \in Starts \cup {None}
    BY <1>1, <1>4, <2>2
  <2>4. Kept(noted(c))
    <3>1. Kept([start EXCEPT ![e].container = known(c)])
      <4> HIDE DEF known, e
      <4> QED
        BY <2>3, KeptAsIs, KeptField
    <3> QED
      BY <3>1, KeptAsIs
  <2>5. [k EXCEPT !.box = known(c)] \in Look /\ [k EXCEPT !.box = known(c)].item = k.item
    <3> HIDE DEF known
    <3> QED
      BY <1>1, <2>3
  <2> HIDE DEF known, noted, Look
  <2>6. looks' \subseteq Look /\ \A l \in looks' : l.item <= Len(start)
    BY <1>1, <2>1, <2>5
  <2>7. /\ Kept(start') /\ KeepsOrFrees /\ UNCHANGED box
        /\ reaping' \subseteq [box : Starts, step : {"inspect", "kill", "remove"}]
    <3>1. CASE start' = noted(c) /\ UNCHANGED <<queue, box, reaping>>
      BY <2>4, <3>1, Types DEF KeepsOrFrees
    <3>2. CASE KillJobAndIgnore(k.job)
      BY <1>1, <3>2, KillKeeps
    <3> QED
      BY <2>1, <3>1, <3>2
  <2>8. UNCHANGED <<server, claim, timers>>
    BY <1>7 DEF ContainerListed
  <2> QED
    BY <1>2, <2>6, <2>7, <2>8
<1> QED
  BY <1>5, <1>6, <1>7 DEF HealthCheck

-----------------------------------------------------------------------------
(* _claimJobs.                                                             *)

LEMMA WaitingIsOne ==
  ASSUME NEW stage \in {"ours", "queued"}, NEW left \in SUBSET Job, NEW q
  PROVE  OneAndFree(Waiting(stage, left, q), q)
<1> DEFINE newest == {m \in left : q[m] = None /\ \A k \in left : q[k] = None => k <= m}
           call(j) == [stage |-> stage, job |-> j, left |-> {k \in left : k < j}]
<1>1. ASSUME NEW m \in newest, NEW n \in newest
      PROVE  m = n
  <2>1. m \in Nat /\ n \in Nat
    OBVIOUS
  <2>2. m <= n /\ n <= m
    OBVIOUS
  <2> QED
    BY <2>1, <2>2
<1>2. \A j \in newest : j \in Job /\ q[j] = None
  OBVIOUS
<1>3. \A j \in newest : call(j) \in Claimant /\ call(j).job = j
  BY <1>2 DEF Claimant
<1>4. Waiting(stage, left, q) = {call(j) : j \in newest}
  BY DEF Waiting
<1> HIDE DEF newest, call
<1> QED
  BY <1>1, <1>2, <1>3, <1>4 DEF OneAndFree

LEMMA QueuedJobsIsOne ==
  ASSUME NEW a, NEW q
  PROVE  OneAndFree(QueuedJobs(a, q), q)
BY WaitingIsOne DEF QueuedJobs

LEMMA RoundIsOne ==
  ASSUME NEW a, NEW q
  PROVE  OneAndFree(Round(a, q), q)
BY WaitingIsOne, QueuedJobsIsOne DEF Round

LEMMA ContinueClaimIsOne ==
  ASSUME IInv, NEW c \in claims, NEW q, ContinueClaim(c, q)
  PROVE  /\ OneAndFree(claims', q)
         /\ claims' # {} => isClaiming'
         /\ isClaiming' \in BOOLEAN /\ needsAnother' \in BOOLEAN
<1>1. claims \ {c} = {} /\ c.stage \in {"ours", "queued"} /\ c.left \in SUBSET Job
  BY DEF IInv, OneClaim, OneAndFree, Claimant
<1>2. OneAndFree(RestOfRound(c, q), q)
  BY <1>1, WaitingIsOne, QueuedJobsIsOne DEF RestOfRound
<1>3. OneAndFree(Round(api, q), q)
  BY RoundIsOne
<1> DEFINE rest  == RestOfRound(c, q)
           again == rest = {} /\ needsAnother
           next  == IF again THEN Round(api, q) ELSE rest
<1>4. OneAndFree(next, q)
  BY <1>2, <1>3
<1>5. /\ claims' = (claims \ {c}) \cup next
      /\ isClaiming' = (next # {})
      /\ needsAnother' = (needsAnother /\ ~again)
  BY DEF ContinueClaim
<1>6. claims' = next
  BY <1>1, <1>5
<1>7. isClaiming' \in BOOLEAN /\ needsAnother' \in BOOLEAN
  BY <1>5
<1> HIDE DEF next
<1> QED
  BY <1>4, <1>5, <1>6, <1>7

\* An update: the starts and slots stay; a call of _claimJobs begins if none runs.
LEMMA UpdateStep ==
  ASSUME IInv, NEW word \in Words, Update(word)
  PROVE  IInv' /\ OnlyFreed
<1>1. UNCHANGED <<queue, start, box, reaping, looks>>
  BY DEF Update, runs
<1>2. OneClaim' /\ isClaiming' \in BOOLEAN /\ needsAnother' \in BOOLEAN
  <2>1. CASE isClaiming
    <3>1. needsAnother' = TRUE /\ UNCHANGED <<claims, isClaiming, queue>>
      BY <1>1, <2>1 DEF Update, ClaimJobs
    <3> QED
      BY <2>1, <3>1 DEF IInv, TypeOK, OneClaim, OneAndFree
  <2>2. CASE ~isClaiming
    <3>1. claims = {}
      BY <2>2 DEF IInv, OneClaim
    <3>2. /\ claims' = Round(word, queue) /\ needsAnother' = FALSE
          /\ isClaiming' = (Round(word, queue) # {})
      BY <2>2, <3>1 DEF Update, ClaimJobs
    <3>3. OneAndFree(claims', queue')
      BY <1>1, <3>2, RoundIsOne
    <3> QED
      BY <3>2, <3>3 DEF OneClaim
  <2> QED
    BY <2>1, <2>2
<1>3. api' \in [Job -> Said] /\ changes' \in 0 .. MaxChanges
  BY DEF IInv, TypeOK, Update
<1>4. timers' \subseteq Job \X {"gone", "elsewhere"}
  <2>1. timers' = timers
          \cup {<<j, "gone">> : j \in {k \in Held : IsGone(word[k])}}
          \cup {<<j, "elsewhere">> : j \in {k \in Held : IsPreferredElsewhere(word[k])}}
    BY DEF Update
  <2> QED
    BY <2>1 DEF IInv, TypeOK, Held
<1>5. claims' \subseteq Claimant
  BY <1>2 DEF OneClaim, OneAndFree
<1>6. TypeOK'
  BY <1>1, <1>2, <1>3, <1>4, <1>5 DEF IInv, TypeOK, Claimant
<1>7. Refs' /\ GpusNotShared' /\ OnlyFreed
  BY <1>1 DEF IInv, Refs, GpusNotShared, Held, OnlyFreed
<1> QED
  BY <1>2, <1>6, <1>7 DEF IInv

\* The rest of a round, with the slots as they are: nothing is given away.
LEMMA NoDefinitionStep ==
  ASSUME IInv, NEW c \in claims, NoDefinition(c)
  PROVE  IInv' /\ OnlyFreed
<1>1. UNCHANGED <<api, changes, queue, start, box, reaping, timers, looks>>
  BY DEF NoDefinition, runs, server
<1>2. OneClaim' /\ isClaiming' \in BOOLEAN /\ needsAnother' \in BOOLEAN
  <2>1. CASE c.stage = "ours"
    <3>1. ContinueClaim(c, queue)
      BY <2>1 DEF NoDefinition
    <3> QED
      BY <1>1, <3>1, ContinueClaimIsOne DEF OneClaim
  <2>2. CASE c.stage # "ours"
    <3>1. claims' = {} /\ isClaiming' = FALSE /\ UNCHANGED needsAnother
      BY <2>2 DEF NoDefinition, IInv, OneClaim, OneAndFree
    <3> QED
      BY <3>1 DEF IInv, TypeOK, OneClaim, OneAndFree
  <2> QED
    BY <2>1, <2>2
<1>3. claims' \subseteq Claimant
  BY <1>2 DEF OneClaim, OneAndFree
<1>4. TypeOK'
  BY <1>1, <1>2, <1>3 DEF IInv, TypeOK, Claimant
<1>5. Refs' /\ GpusNotShared' /\ OnlyFreed
  BY <1>1 DEF IInv, Refs, GpusNotShared, Held, OnlyFreed
<1> QED
  BY <1>2, <1>4, <1>5 DEF IInv

\* A slot for a job that has none, with a GPU that no slot has.
LEMMA StartJobStep ==
  ASSUME IInv, NEW j \in Job, queue[j] = None, StartJob(j),
         UNCHANGED <<api, changes, box, reaping, timers, looks>>,
         claims' \subseteq Claimant, {isClaiming', needsAnother'} \subseteq BOOLEAN
  PROVE  TypeOK' /\ Refs' /\ GpusNotShared' /\ OnlyFreed
<1> DEFINE n == Len(start) + 1
           refused == j \in NeedsGpu /\ FreeGpus = {}
           begun(gpu) ==
             [job |-> j, phase |-> "CopyInputs", execution |-> None, gpu |-> gpu,
              pc |-> IF refused THEN "refused" ELSE "copying", item |-> None,
              isKilled |-> FALSE, isTimedOut |-> FALSE, found |-> None, container |-> None]
<1>1. PICK gpu \in IF j \in NeedsGpu /\ ~refused THEN FreeGpus ELSE {NoGpu} :
        start' = Append(start, begun(gpu))
  BY DEF StartJob
<1>2. n <= MaxStarts /\ queue' = [queue EXCEPT ![j] = n]
  BY DEF StartJob
<1>3. gpu \in FreeGpus \/ gpu = NoGpu
  BY <1>1
<1>4. gpu \in 0 .. NoGpu
  BY <1>3 DEF FreeGpus, NoGpu
<1>5. begun(gpu) \in Start
  BY <1>4 DEF Start
<1> HIDE DEF begun
<1>6. /\ start \in Seq(Start) /\ Len(start) \in Nat
      /\ start' \in Seq(Start) /\ Len(start') = n
      /\ \A m \in 1 .. Len(start) : start'[m] = start[m]
      /\ start'[n] = begun(gpu)
      /\ DOMAIN start = 1 .. Len(start) /\ DOMAIN start' = 1 .. n
  BY <1>1, <1>5 DEF IInv, TypeOK
<1>7. begun(gpu).job = j /\ begun(gpu).gpu = gpu /\ begun(gpu).execution = None
  BY DEF begun
<1>8. n \in Starts
  BY <1>2, <1>6 DEF Starts
<1>9. queue \in [Job -> Starts \cup {None}] /\ queue' \in [Job -> Starts \cup {None}]
  BY <1>2, <1>8 DEF IInv, TypeOK
<1>10. ASSUME NEW k \in Job, k # j, queue'[k] # None
       PROVE  /\ queue'[k] = queue[k] /\ queue[k] \in 1 .. Len(start)
              /\ start'[queue[k]] = start[queue[k]] /\ start[queue[k]].job = k
  BY <1>2, <1>6, <1>9, <1>10, SlotIsStart
<1>11. queue'[j] = n
  BY <1>2, <1>9
<1>12. TypeOK'
  <2>1. \A k \in Job : queue'[k] # None => queue'[k] <= Len(start') /\ start'[queue'[k]].job = k
    BY <1>6, <1>7, <1>10, <1>11
  <2>2. /\ api' \in [Job -> Said] /\ changes' \in 0 .. MaxChanges
        /\ box' \in [Starts -> {"none", "created", "up", "exited", "removed"}]
        /\ reaping' \subseteq [box : Starts, step : {"inspect", "kill", "remove"}]
        /\ timers' \subseteq Job \X {"gone", "elsewhere"}
        /\ looks' \subseteq [job : Job, item : Starts, box : Starts \cup {None}]
    BY DEF IInv, TypeOK
  <2>3. start' \in Seq(Start) /\ Len(start') <= MaxStarts
    BY <1>2, <1>6
  <2>4. /\ claims' \subseteq [stage : {"ours", "queued"}, job : Job, left : SUBSET Job]
        /\ {isClaiming', needsAnother'} \subseteq BOOLEAN
    BY DEF Claimant
  <2> QED
    BY <1>9, <2>1, <2>2, <2>3, <2>4 DEF TypeOK
<1>13. Refs'
  <2>1. \A m \in DOMAIN start' : start'[m].execution \in 0 .. Len(start')
    <3> SUFFICES ASSUME NEW m \in DOMAIN start'
                 PROVE  start'[m].execution \in 0 .. n
      BY <1>6
    <3>1. CASE m = n
      BY <1>6, <1>7, <3>1 DEF None
    <3>2. CASE m \in DOMAIN start
      BY <1>6, <3>2 DEF IInv, Refs
    <3> QED
      BY <1>6, <3>1, <3>2
  <2>2. \A k \in looks' : k.item <= Len(start')
    <3>1. \A k \in looks : k.item \in Nat /\ k.item <= Len(start)
      BY Numbers DEF IInv, TypeOK, Refs
    <3> QED
      BY <1>6, <3>1
  <2> QED
    BY <2>1, <2>2 DEF Refs
<1>14. GpusNotShared'
  <2> SUFFICES ASSUME NEW k \in Job, NEW l \in Job, k # l,
                      queue'[k] # None, queue'[l] # None,
                      start'[queue'[k]].gpu # NoGpu
               PROVE  start'[queue'[k]].gpu # start'[queue'[l]].gpu
    BY DEF GpusNotShared, Held
  <2>1. ASSUME NEW m \in Job, m # j, queue'[m] # None
        PROVE  m \in Held /\ start'[queue'[m]].gpu = start[queue[m]].gpu
    BY <1>10, <2>1 DEF Held
  <2>2. start'[queue'[j]].gpu = gpu
    BY <1>6, <1>7, <1>11
  <2>3. ASSUME NEW m \in Job, m # j, queue'[m] # None, start'[queue'[m]].gpu # NoGpu
        PROVE  start'[queue'[m]].gpu # gpu
    <3>1. start[queue[m]].gpu \in UsedGpus
      BY <2>1, <2>3 DEF UsedGpus
    <3> QED
      BY <1>3, <2>1, <2>3, <3>1 DEF FreeGpus
  <2>4. CASE k = j
    BY <2>2, <2>3, <2>4
  <2>5. CASE l = j
    BY <2>2, <2>3, <2>5
  <2>6. CASE k # j /\ l # j
    BY <2>1, <2>6 DEF IInv, GpusNotShared
  <2> QED
    BY <2>4, <2>5, <2>6
<1>15. OnlyFreed
  BY <1>2, <1>9 DEF OnlyFreed
<1> QED
  BY <1>12, <1>13, <1>14, <1>15

LEMMA ClaimJobStep ==
  ASSUME IInv, NEW c \in claims, ClaimJob(c)
  PROVE  IInv' /\ OnlyFreed
<1>1. UNCHANGED <<api, changes, box, reaping, timers, looks>>
  BY DEF ClaimJob, server
<1>2. ContinueClaim(c, queue')
  BY DEF ClaimJob
<1>3. OneClaim' /\ isClaiming' \in BOOLEAN /\ needsAnother' \in BOOLEAN
  BY <1>2, ContinueClaimIsOne DEF OneClaim
<1>4. claims' \subseteq Claimant
  BY <1>3 DEF OneClaim, OneAndFree
<1>5. c.job \in Job /\ queue[c.job] = None
  BY DEF IInv, OneClaim, OneAndFree, Claimant
<1>6. CASE StartJob(c.job)
  BY <1>1, <1>3, <1>4, <1>5, <1>6, StartJobStep DEF IInv
<1>7. CASE UNCHANGED <<queue, start>>
  <2>1. TypeOK'
    BY <1>1, <1>3, <1>4, <1>7 DEF IInv, TypeOK, Claimant
  <2>2. Refs' /\ GpusNotShared' /\ OnlyFreed
    BY <1>1, <1>7 DEF IInv, Refs, GpusNotShared, Held, OnlyFreed
  <2> QED
    BY <1>3, <2>1, <2>2 DEF IInv
<1> QED
  BY <1>6, <1>7 DEF ClaimJob

-----------------------------------------------------------------------------
(* The theorems.                                                           *)

LEMMA StepInv ==
  ASSUME IInv, [Next]_vars
  PROVE  IInv' /\ OnlyFreed
<1>1. ASSUME NEW word \in Words, Update(word)
      PROVE  IInv' /\ OnlyFreed
  BY <1>1, UpdateStep
<1>2. CASE Claim
  BY <1>2, ClaimJobStep, NoDefinitionStep DEF Claim
<1>3. ASSUME NEW n \in Starts, Run(n) \/ ContainerExits(n)
      PROVE  IInv' /\ OnlyFreed
  BY <1>3, RunQuiet, DockerQuiet, QuietStep
<1>4. ASSUME NEW r \in reaping, KillAndRemove(r)
      PROVE  IInv' /\ OnlyFreed
  BY <1>4, DockerQuiet, QuietStep
<1>5. ASSUME NEW j \in Job, NEW why \in {"gone", "elsewhere"}, CheckRunningJobs(j, why)
      PROVE  IInv' /\ OnlyFreed
  BY <1>5, TimerQuiet, QuietStep
<1>6. ASSUME NEW j \in Job, CheckContainer(j)
      PROVE  IInv' /\ OnlyFreed
  BY <1>6, HealthQuiet, QuietStep
<1>7. CASE HealthCheck
  BY <1>7, HealthQuiet, QuietStep
<1>8. CASE UNCHANGED vars
  BY <1>8 DEF vars, IInv, TypeOK, Refs, GpusNotShared, Held, OneClaim, OneAndFree, OnlyFreed
<1> QED
  BY <1>1, <1>2, <1>3, <1>4, <1>5, <1>6, <1>7, <1>8 DEF Next

\* The invariant that the theorems below are read off.
THEOREM InvariantHolds == Spec => []IInv
<1>1. IInv /\ [Next]_vars => IInv'
  BY StepInv
<1> QED
  BY InitInv, <1>1, PTL DEF Spec

\* The worker's lists, its starts and the containers have their types, and a slot
\* is always that of a start of its own job.
THEOREM TypeCorrect == Spec => []TypeOK
<1>1. IInv => TypeOK
  BY DEF IInv
<1> QED
  BY <1>1, InvariantHolds, PTL

\* No GPU index is given to two jobs in the queue, whatever the server says and
\* however runs end, are killed, time out or are refused (_startJob).
THEOREM GpusAreNotShared == Spec => []GpusNotShared
<1>1. IInv => GpusNotShared
  BY DEF IInv
<1> QED
  BY <1>1, InvariantHolds, PTL

\* _startJob never replaces an item of the queue, although it does not look
\* whether there is one and the loop looked before its await.
THEOREM SlotsAreNeverReplaced == Spec => NeverReplaced
<1>1. IInv /\ [Next]_vars => [OnlyFreed]_vars
  BY StepInv
<1> QED
  BY <1>1, InvariantHolds, PTL DEF Spec, NeverReplaced, OnlyFreed

-----------------------------------------------------------------------------
(* CPUs.                                                                   *)

\* Only a claim, when its definition has come, takes a slot.
LEMMA OnlyClaimsTakeSlots ==
  ASSUME IInv, [Next]_vars
  PROVE  Held' \subseteq Held \/ \E c \in claims : ClaimJob(c)
<1>1. Quiet => Held' \subseteq Held
  BY DEF Quiet, Held
<1>2. UNCHANGED queue => Held' \subseteq Held
  BY DEF Held
<1>3. ASSUME NEW word \in Words, Update(word)
      PROVE  UNCHANGED queue
  BY <1>3 DEF Update, runs
<1>4. ASSUME NEW c \in claims, NoDefinition(c)
      PROVE  UNCHANGED queue
  BY <1>4 DEF NoDefinition, runs
<1>5. ASSUME NEW n \in Starts, Run(n) \/ ContainerExits(n)
      PROVE  Quiet
  BY <1>5, RunQuiet, DockerQuiet
<1>6. ASSUME NEW r \in reaping, KillAndRemove(r)
      PROVE  Quiet
  BY <1>6, DockerQuiet
<1>7. ASSUME NEW j \in Job, NEW why \in {"gone", "elsewhere"}, CheckRunningJobs(j, why)
      PROVE  Quiet
  BY <1>7, TimerQuiet
<1>8. ASSUME NEW j \in Job, CheckContainer(j)
      PROVE  Quiet
  BY <1>8, HealthQuiet
<1>9. HealthCheck => Quiet
  BY HealthQuiet
<1>10. UNCHANGED vars => UNCHANGED queue
  BY DEF vars
<1> QED
  BY <1>1, <1>2, <1>3, <1>4, <1>5, <1>6, <1>7, <1>8, <1>9, <1>10 DEF Next, Claim

\* A claim of a queued job finds a CPU free, and takes one slot.
LEMMA QueuedWithinCpus ==
  ASSUME IInv, NEW c \in claims, ClaimJob(c), c.stage # "ours", IsFiniteSet(Held)
  PROVE  Cardinality(Held') <= Cardinality(Held) \/ Cardinality(Held') <= Cpus
<1>1. CASE UNCHANGED queue
  <2>1. Held' = Held
    BY <1>1 DEF Held
  <2> QED
    BY <2>1, FS_CardinalityType
<1>2. CASE HasRoom(c.job) /\ StartJob(c.job)
  <2>1. Cardinality(Held) < Cpus
    BY <1>2 DEF HasRoom
  <2>2. Held' \in SUBSET (Held \cup {c.job})
    BY <1>2 DEF StartJob, Held, IInv, TypeOK
  <2> DEFINE held == Held
  <2>3. /\ IsFiniteSet(held \cup {c.job}) /\ Cardinality(held) \in Nat
        /\ Cardinality(held \cup {c.job}) <= Cardinality(held) + 1
    <3> HIDE DEF held
    <3>1. IsFiniteSet(held)
      BY DEF held
    <3>2. Cardinality(held) \in Nat
      BY <3>1, FS_CardinalityType
    <3>3. /\ IsFiniteSet(held \cup {c.job})
          /\ Cardinality(held \cup {c.job})
               = IF c.job \in held THEN Cardinality(held) ELSE Cardinality(held) + 1
      BY <3>1, FS_AddElement, Zenon
    <3> QED
      BY <3>2, <3>3
  <2>4. Cardinality(Held') <= Cardinality(Held \cup {c.job}) /\ IsFiniteSet(Held')
    BY <2>2, <2>3, FS_Subset
  <2>5. /\ Cardinality(Held) \in Nat /\ Cardinality(Held') \in Nat
        /\ Cardinality(Held \cup {c.job}) \in Nat
    BY <2>3, <2>4, FS_CardinalityType
  <2> QED
    BY <2>1, <2>3, <2>4, <2>5
<1> QED
  BY <1>1, <1>2 DEF ClaimJob

\* More slots than CPUs are only taken by jobs the server said run here: what
\* _claimJobs counted before a queued job's slot is taken still holds when it is.
THEOREM QueuedJobsFitTheCpus == Spec => ClaimsWithinCpus
<1> DEFINE Within ==
      Cardinality(Held') > Cardinality(Held) /\ Cardinality(Held') > Cpus
        => \E c \in claims : c.stage = "ours"
<1>1. IInv /\ [Next]_vars => Within
  <2> SUFFICES ASSUME IInv, [Next]_vars, \A c \in claims : c.stage # "ours"
               PROVE  ~(Cardinality(Held') > Cardinality(Held) /\ Cardinality(Held') > Cpus)
    OBVIOUS
  <2>1. Held \in SUBSET Job /\ Held' \in SUBSET Job
    BY DEF Held
  <2>2. /\ IsFiniteSet(Held) /\ Cardinality(Held) \in Nat
        /\ IsFiniteSet(Held') /\ Cardinality(Held') \in Nat
    BY <2>1, FS_Subset, FS_CardinalityType
  <2>3. CASE Held' \subseteq Held
    <3>1. Cardinality(Held') <= Cardinality(Held)
      BY <2>2, <2>3, FS_Subset
    <3> QED
      BY <2>2, <3>1
  <2>4. CASE \E c \in claims : ClaimJob(c)
    BY <2>2, <2>4, QueuedWithinCpus
  <2> QED
    BY <2>3, <2>4, OnlyClaimsTakeSlots
<1> QED
  BY <1>1, InvariantHolds, PTL DEF Spec, ClaimsWithinCpus

-----------------------------------------------------------------------------
(***************************************************************************)
(* Runs, for any jobs, words of the server and bounds: one that ends       *)
(* without a word leaves its slot behind only when the server's word is    *)
(* that the job is not ours.                                               *)
(*                                                                         *)
(* A kill makes a run end silently, at the next await, and frees the slot  *)
(* itself: so a killed start does not have its job's slot any more, and    *)
(* never gets it back, since slots get new numbers.  The exception is a    *)
(* run whose time is over: it is killed, keeps its slot and must report.   *)
(***************************************************************************)

\* An item's execution was started for the same job.
SameJob ==
  \A n \in DOMAIN start :
    start[n].execution # None => start[start[n].execution].job = start[n].job

\* A killed start that still has its job's slot.
KilledInPlace(n) == start[n].isKilled /\ queue[start[n].job] = n

TimeIsOver(n) == start[n].isTimedOut /\ start[n].pc \in {"waiting", "silent"}

KilledOrSlot == \A n \in DOMAIN start : KilledInPlace(n) => TimeIsOver(n)

RunInv == IInv /\ SameJob /\ KilledOrSlot

\* Start n does not end silently in its slot, unless the job is not ours.
NoDeadSlotOf(n) ==
  /\ start[n].pc # "silent" /\ start'[n].pc = "silent"
  /\ queue'[start[n].job] = n
  => IsDisowned(api[start[n].job])

NoDeadSlotNow == \A n \in DOMAIN start : NoDeadSlotOf(n)

\* What the invariant sees of start n is as it was.
Idle(n) ==
  /\ start'[n].pc = start[n].pc
  /\ start'[n].isKilled = start[n].isKilled
  /\ start'[n].isTimedOut = start[n].isTimedOut

\* A start that idles keeps its part of the invariant.
LEMMA IdleStep ==
  ASSUME RunInv, Quiet, NEW n \in DOMAIN start, Idle(n)
  PROVE  (KilledInPlace(n) => TimeIsOver(n))' /\ NoDeadSlotOf(n)
<1>1. start'[n].job = start[n].job /\ start[n].job \in Job
  BY StartFields DEF RunInv, Quiet, Kept
<1>2. queue'[start[n].job] = n => queue[start[n].job] = n
  <2>1. n # None
    BY StartFields DEF RunInv, None
  <2> QED
    BY <1>1, <2>1 DEF Quiet
<1> QED
  BY <1>1, <1>2 DEF RunInv, KilledOrSlot, KilledInPlace, TimeIsOver, NoDeadSlotOf, Idle

\* A step of start n alone that notes no execution.
LEMMA OneMoves ==
  ASSUME RunInv, Quiet, NEW n \in DOMAIN start,
         \A m \in DOMAIN start : start'[m].execution = start[m].execution,
         \A m \in DOMAIN start : m # n => Idle(m),
         (KilledInPlace(n) => TimeIsOver(n))', NoDeadSlotOf(n)
  PROVE  RunInv' /\ NoDeadSlotNow
<1>1. DOMAIN start' = DOMAIN start /\ \A m \in DOMAIN start : start'[m].job = start[m].job
  BY DEF Quiet, Kept
<1>2. IInv'
  BY QuietStep DEF RunInv
<1>3. SameJob'
  <2>1. \A m \in DOMAIN start : start[m].execution # None => start[m].execution \in DOMAIN start
    BY StartFields DEF RunInv, IInv, TypeOK, None
  <2> QED
    BY <1>1, <2>1 DEF RunInv, SameJob
<1>4. KilledOrSlot' /\ NoDeadSlotNow
  BY <1>1, IdleStep DEF KilledOrSlot, NoDeadSlotNow
<1> QED
  BY <1>2, <1>3, <1>4 DEF RunInv

\* A start whose await ends somewhere else than in docker's wait was not killed in its slot.
LEMMA KilledElsewhere ==
  ASSUME RunInv, Quiet, NEW n \in DOMAIN start
  PROVE  /\ queue'[start[n].job] = n => queue[start[n].job] = n
         /\ start[n].isKilled /\ start[n].pc \notin {"waiting", "silent"}
              => queue'[start[n].job] # n
         /\ start[n].isKilled /\ ~start[n].isTimedOut => queue'[start[n].job] # n
<1>1. start[n].job \in Job /\ n # None
  BY StartFields DEF RunInv, None
<1>2. queue'[start[n].job] = n => queue[start[n].job] = n
  BY <1>1 DEF Quiet
<1> QED
  BY <1>2 DEF RunInv, KilledOrSlot, KilledInPlace, TimeIsOver

\* What start n must see to when it goes to pc.
MayGo(n, pc) ==
  /\ start[n].isKilled /\ queue'[start[n].job] = n => pc \in {"waiting", "silent"}
  /\ pc = "silent" => NoDeadSlotOf(n)

\* Only start n moves, to pc, and no execution is noted.
OnlyMoves(n, pc) ==
  /\ \A m \in DOMAIN start : start'[m].execution = start[m].execution
  /\ \A m \in DOMAIN start : m # n => Idle(m)
  /\ start'[n].pc = pc
  /\ start'[n].isKilled = start[n].isKilled
  /\ start'[n].isTimedOut = start[n].isTimedOut

LEMMA PcMoves ==
  ASSUME RunInv, Quiet, NEW n \in DOMAIN start, NEW pc, OnlyMoves(n, pc), MayGo(n, pc)
  PROVE  RunInv' /\ NoDeadSlotNow
<1>1. start'[n].job = start[n].job
  BY DEF RunInv, Quiet, Kept
<1>2. (KilledInPlace(n) => TimeIsOver(n))'
  BY <1>1, KilledElsewhere DEF KilledInPlace, TimeIsOver, OnlyMoves, MayGo
<1>3. NoDeadSlotOf(n)
  BY DEF NoDeadSlotOf, OnlyMoves, MayGo
<1> QED
  BY <1>2, <1>3, OneMoves DEF OnlyMoves

LEMMA GoesMoves ==
  ASSUME RunInv, NEW n \in DOMAIN start, NEW pc
  PROVE  /\ start' = Goes(n, pc) => OnlyMoves(n, pc)
         /\ \A phase : start' = GoesInPhase(n, pc, phase) => OnlyMoves(n, pc)
<1>1. start \in [DOMAIN start -> Start]
  BY KeptAsIs DEF RunInv, Kept
<1>2. ASSUME start' = Goes(n, pc)
      PROVE  OnlyMoves(n, pc)
  BY <1>1, <1>2 DEF Goes, OnlyMoves, Idle, Start
<1>3. ASSUME NEW phase, start' = GoesInPhase(n, pc, phase)
      PROVE  OnlyMoves(n, pc)
  BY <1>1, <1>3 DEF GoesInPhase, OnlyMoves, Idle, Start
<1> QED
  BY <1>2, <1>3

\* Ends of a run: told, the slot is free; silent, when the job is not ours.
LEMMA EndMoves ==
  ASSUME RunInv, Quiet, NEW n \in DOMAIN start
  PROVE  /\ Tell(n) => RunInv' /\ NoDeadSlotNow
         /\ IsDisowned(api[start[n].job]) /\ Silent(n) => RunInv' /\ NoDeadSlotNow
         /\ Resolve(n) => RunInv' /\ NoDeadSlotNow
<1>1. n # None /\ start[n].job \in Job /\ queue \in [Job -> Starts \cup {None}]
  BY StartFields DEF RunInv, IInv, TypeOK, None
<1>2. ASSUME Tell(n)
      PROVE  RunInv' /\ NoDeadSlotNow
  <2>1. OnlyMoves(n, "told")
    BY <1>2, GoesMoves DEF Tell
  <2>2. MayGo(n, "told")
    BY <1>1, <1>2 DEF Tell, JobOf, MayGo
  <2> QED
    BY <2>1, <2>2, PcMoves
<1>3. ASSUME IsDisowned(api[start[n].job]), Silent(n)
      PROVE  RunInv' /\ NoDeadSlotNow
  <2>1. OnlyMoves(n, "silent")
    BY <1>3, GoesMoves DEF Silent
  <2>2. MayGo(n, "silent")
    BY <1>3 DEF NoDeadSlotOf, MayGo
  <2> QED
    BY <2>1, <2>2, PcMoves
<1> QED
  BY <1>2, <1>3 DEF Resolve, JobOf

-----------------------------------------------------------------------------
(* The steps.                                                              *)

LEMMA ContainerAndPc ==
  ASSUME NEW n \in DOMAIN start, start \in [DOMAIN start -> Start], NEW c, NEW pc,
         start' = [start EXCEPT ![n].container = c, ![n].pc = pc]
  PROVE  OnlyMoves(n, pc)
<1>1. start'[n] = [start[n] EXCEPT !.container = c, !.pc = pc]
  OBVIOUS
<1>2. \A m \in DOMAIN start : m # n => start'[m] = start[m]
  OBVIOUS
<1>3. start[n] \in Start
  OBVIOUS
<1>4. /\ [start[n] EXCEPT !.container = c, !.pc = pc].pc = pc
      /\ [start[n] EXCEPT !.container = c, !.pc = pc].isKilled = start[n].isKilled
      /\ [start[n] EXCEPT !.container = c, !.pc = pc].isTimedOut = start[n].isTimedOut
      /\ [start[n] EXCEPT !.container = c, !.pc = pc].execution = start[n].execution
  BY <1>3 DEF Start
<1> QED
  BY <1>1, <1>2, <1>4 DEF OnlyMoves, Idle

LEMMA CopyInputsMoves ==
  ASSUME RunInv, Quiet, NEW n \in DOMAIN start, n \in Starts, CopyInputs(n)
  PROVE  RunInv' /\ NoDeadSlotNow
<1> DEFINE i == queue[JobOf(n)]
<1>1. /\ start[n].pc = "copying" /\ UNCHANGED queue
      /\ start \in [DOMAIN start -> Start] /\ start[n].job \in Job /\ n # None
  BY KeptAsIs, StartFields DEF RunInv, CopyInputs, Resumes, Kept, None
<1>2. CASE i = None \/ start[n].isKilled
  <2>1. OnlyMoves(n, "silent")
    BY <1>2, GoesMoves DEF CopyInputs
  <2>2. queue'[start[n].job] # n
    BY <1>1, <1>2, KilledElsewhere DEF JobOf
  <2>3. MayGo(n, "silent")
    BY <2>2 DEF MayGo, NoDeadSlotOf
  <2> QED
    BY <2>1, <2>3, PcMoves
<1>3. CASE ~(i = None \/ start[n].isKilled)
  <2>1. i \in DOMAIN start /\ start[i].job = start[n].job
    BY <1>1, <1>3, SlotIsStart DEF RunInv, JobOf
  <2>2. start' = [start EXCEPT ![i].phase = "Building",
                               ![i].execution = n,
                               ![n].pc = "building",
                               ![n].item = i]
    BY <1>3 DEF CopyInputs
  <2>3. /\ \A m \in DOMAIN start : m # n => Idle(m)
        /\ \A m \in DOMAIN start : m # i => start'[m].execution = start[m].execution
        /\ start'[i].execution = n
        /\ start'[n].pc = "building" /\ start'[n].isKilled = start[n].isKilled
    <3> DEFINE given == [start EXCEPT ![i].phase = "Building", ![i].execution = n]
               going == [given EXCEPT ![n].pc = "building", ![n].item = i]
    <3> HIDE DEF i
    <3>1. given[i] = [start[i] EXCEPT !.phase = "Building", !.execution = n]
      BY <1>1, <2>1
    <3>2. /\ given[i].execution = n /\ given[i].pc = start[i].pc
          /\ given[i].isKilled = start[i].isKilled /\ given[i].isTimedOut = start[i].isTimedOut
          /\ given[i] \in Start
      <4> DEFINE built == [start[i] EXCEPT !.phase = "Building"]
      <4>1. start[i] \in Start
        BY <1>1, <2>1
      <4>2. /\ built \in Start /\ built.pc = start[i].pc
            /\ built.isKilled = start[i].isKilled /\ built.isTimedOut = start[i].isTimedOut
        BY <4>1 DEF Start
      <4>3. given[i] = [built EXCEPT !.execution = n]
        BY <3>1
      <4> HIDE DEF built, given
      <4> QED
        BY <4>2, <4>3 DEF Start
    <3>3. given \in [DOMAIN start -> Start] /\ \A m \in DOMAIN start : m # i => given[m] = start[m]
      BY <1>1, <2>1, <3>1, <3>2
    <3>4. start' = going
      BY <2>2
    <3> HIDE DEF given
    <3>5. going[n] = [given[n] EXCEPT !.pc = "building", !.item = i]
      BY <3>3
    <3>6. \A m \in DOMAIN start : m # n => going[m] = given[m]
      BY <3>3
    <3>7. /\ going[n].pc = "building" /\ going[n].isKilled = given[n].isKilled
          /\ going[n].execution = given[n].execution
      BY <3>3, <3>5 DEF Start
    <3> HIDE DEF going
    <3>8. \A m \in DOMAIN start : m # n => Idle(m)
      BY <3>2, <3>3, <3>4, <3>6 DEF Idle
    <3> QED
      BY <2>1, <3>2, <3>3, <3>4, <3>6, <3>7, <3>8
  <2>4. DOMAIN start' = DOMAIN start /\ \A m \in DOMAIN start : start'[m].job = start[m].job
    BY DEF Quiet, Kept
  <2>5. IInv'
    BY QuietStep DEF RunInv
  <2>6. SameJob'
    <3>1. \A m \in DOMAIN start : start[m].execution # None => start[m].execution \in DOMAIN start
      BY StartFields DEF RunInv, IInv, TypeOK, None
    <3> HIDE DEF i
    <3> QED
      BY <2>1, <2>3, <2>4, <3>1 DEF RunInv, SameJob
  <2>7. (KilledInPlace(n) => TimeIsOver(n))' /\ NoDeadSlotOf(n)
    BY <1>3, <2>3 DEF KilledInPlace, NoDeadSlotOf
  <2>8. KilledOrSlot' /\ NoDeadSlotNow
    BY <2>3, <2>4, <2>7, IdleStep DEF KilledOrSlot, NoDeadSlotNow
  <2> QED
    BY <2>5, <2>6, <2>8 DEF RunInv
<1> QED
  BY <1>2, <1>3

LEMMA RunMoves ==
  ASSUME RunInv, NEW n \in Starts, Run(n)
  PROVE  RunInv' /\ NoDeadSlotNow
<1>1. Quiet /\ IInv
  BY RunQuiet DEF RunInv
<1>2. n \in DOMAIN start
  BY DEF Run, CopyInputs, CopyInputsFails, EnsureDockerImage, DockerBuildError,
     GetRunningContainerForJob, InspectFound, CreateContainer, Attach, StartContainer,
     ContainerFinished, GetOutputs, DockerFails, MaxDurationCheck, Resumes
<1>3. /\ start \in [DOMAIN start -> Start] /\ start[n].job \in Job
      /\ n # None /\ queue \in [Job -> Starts \cup {None}]
  BY <1>1, <1>2, KeptAsIs, StartFields DEF Kept, None, IInv, TypeOK
<1>4. CASE CopyInputs(n)
  BY <1>1, <1>2, <1>4, CopyInputsMoves
<1>5. CASE CopyInputsFails(n)
  <2> DEFINE pc == IF start[n].isKilled THEN "silent" ELSE "told"
  <2>1. OnlyMoves(n, pc)
    BY <1>2, <1>5, GoesMoves DEF CopyInputsFails
  <2>2. queue'[start[n].job] # n
    BY <1>3, <1>5 DEF CopyInputsFails, JobOf
  <2>3. MayGo(n, pc)
    BY <2>2 DEF MayGo, NoDeadSlotOf
  <2> HIDE DEF pc
  <2> QED
    BY <1>1, <1>2, <2>1, <2>3, PcMoves
<1>6. CASE EnsureDockerImage(n)
  <2> DEFINE pc == IF start[n].isKilled THEN "silent" ELSE "looking"
  <2>1. OnlyMoves(n, pc)
    BY <1>2, <1>6, GoesMoves DEF EnsureDockerImage
  <2>2. start[n].pc = "building"
    BY <1>6 DEF EnsureDockerImage, Resumes
  <2>3. start[n].isKilled => queue'[start[n].job] # n
    BY <1>1, <1>2, <2>2, KilledElsewhere
  <2>4. MayGo(n, pc)
    BY <2>3 DEF MayGo, NoDeadSlotOf
  <2> HIDE DEF pc
  <2> QED
    BY <1>1, <1>2, <2>1, <2>4, PcMoves
<1>7. CASE DockerBuildError(n)
  BY <1>1, <1>2, <1>7, EndMoves DEF DockerBuildError
<1>8. CASE GetRunningContainerForJob(n)
  <2>1. start[n].pc = "looking"
    BY <1>8 DEF GetRunningContainerForJob, Resumes
  <2>2. start[n].isKilled => queue'[start[n].job] # n
    BY <1>1, <1>2, <2>1, KilledElsewhere
  <2>3. CASE start[n].isKilled
    <3>1. OnlyMoves(n, "silent")
      BY <1>2, <1>8, <2>3, GoesMoves DEF GetRunningContainerForJob
    <3>2. MayGo(n, "silent")
      BY <2>2, <2>3 DEF MayGo, NoDeadSlotOf
    <3> QED
      BY <1>1, <1>2, <3>1, <3>2, PcMoves
  <2>4. ASSUME ~start[n].isKilled, start' = Goes(n, "creating")
        PROVE  RunInv' /\ NoDeadSlotNow
    <3>1. OnlyMoves(n, "creating")
      BY <1>2, <2>4, GoesMoves
    <3>2. MayGo(n, "creating")
      BY <2>4 DEF MayGo
    <3> QED
      BY <1>1, <1>2, <3>1, <3>2, PcMoves
  <2>5. ASSUME ~start[n].isKilled, NEW c,
               start' = [start EXCEPT ![n].pc = "checking", ![n].found = c]
        PROVE  RunInv' /\ NoDeadSlotNow
    <3>1. OnlyMoves(n, "checking")
      BY <1>2, <1>3, <2>5 DEF OnlyMoves, Idle, Start
    <3>2. MayGo(n, "checking")
      BY <2>5 DEF MayGo
    <3> QED
      BY <1>1, <1>2, <3>1, <3>2, PcMoves
  <2> QED
    BY <1>8, <2>3, <2>4, <2>5 DEF GetRunningContainerForJob
<1>9. CASE InspectFound(n)
  <2> DEFINE on == IF box[start[n].found] = "up" THEN start[n].found ELSE start[n].container
             pc == IF start[n].isKilled THEN "silent"
                   ELSE IF on = None THEN "creating" ELSE "attaching"
  <2>1. start' = [start EXCEPT ![n].container = on, ![n].pc = pc] /\ start[n].pc = "checking"
    BY <1>9 DEF InspectFound, Resumes
  <2>2. start[n].isKilled => queue'[start[n].job] # n
    BY <1>1, <1>2, <2>1, KilledElsewhere
  <2>3. MayGo(n, pc)
    BY <2>2 DEF MayGo, NoDeadSlotOf
  <2> HIDE DEF on, pc
  <2>4. OnlyMoves(n, pc)
    BY <1>2, <1>3, <2>1, ContainerAndPc
  <2> QED
    BY <1>1, <1>2, <2>3, <2>4, PcMoves
<1>10. CASE CreateContainer(n)
  <2>1. start[n].pc = "creating"
    BY <1>10 DEF CreateContainer, Resumes
  <2>2. start[n].isKilled => queue'[start[n].job] # n
    BY <1>1, <1>2, <2>1, KilledElsewhere
  <2>3. OnlyMoves(n, "attaching")
    BY <1>2, <1>3, <1>10, ContainerAndPc DEF CreateContainer
  <2>4. MayGo(n, "attaching")
    BY <2>2 DEF MayGo
  <2> QED
    BY <1>1, <1>2, <2>3, <2>4, PcMoves
<1>11. CASE Attach(n)
  <2>1. start[n].pc = "attaching"
    BY <1>11 DEF Attach, Resumes
  <2>2. start[n].isKilled => queue'[start[n].job] # n
    BY <1>1, <1>2, <2>1, KilledElsewhere
  <2> DEFINE pc == IF start[n].isKilled THEN "silent"
                   ELSE IF start[n].found = None THEN "starting" ELSE "waiting"
  <2>3. OnlyMoves(n, pc)
    BY <1>2, <1>11, GoesMoves DEF Attach
  <2>4. MayGo(n, pc)
    BY <2>2 DEF MayGo, NoDeadSlotOf
  <2> HIDE DEF pc
  <2> QED
    BY <1>1, <1>2, <2>3, <2>4, PcMoves
<1>12. CASE StartContainer(n)
  <2>1. OnlyMoves(n, "waiting")
    BY <1>2, <1>12, GoesMoves DEF StartContainer
  <2>2. MayGo(n, "waiting")
    BY DEF MayGo
  <2> QED
    BY <1>1, <1>2, <2>1, <2>2, PcMoves
<1>13. CASE ContainerFinished(n)
  <2>1. CASE IsDisowned(api[JobOf(n)])
    <3>1. OnlyMoves(n, "silent")
      BY <1>2, <1>13, <2>1, GoesMoves DEF ContainerFinished
    <3>2. MayGo(n, "silent")
      BY <2>1 DEF MayGo, NoDeadSlotOf, JobOf
    <3> QED
      BY <1>1, <1>2, <3>1, <3>2, PcMoves
  <2>2. CASE ~IsDisowned(api[JobOf(n)]) /\ start[n].isTimedOut
    BY <1>1, <1>2, <1>13, <2>2, EndMoves DEF ContainerFinished
  <2>3. CASE ~IsDisowned(api[JobOf(n)]) /\ ~start[n].isTimedOut
    <3>1. OnlyMoves(n, "uploading")
      BY <1>2, <1>13, <2>3, GoesMoves DEF ContainerFinished
    <3>2. start[n].isKilled => queue'[start[n].job] # n
      BY <1>1, <1>2, <2>3, KilledElsewhere
    <3>3. MayGo(n, "uploading")
      BY <3>2 DEF MayGo
    <3> QED
      BY <1>1, <1>2, <3>1, <3>3, PcMoves
  <2> QED
    BY <2>1, <2>2, <2>3
<1>14. CASE GetOutputs(n)
  BY <1>1, <1>2, <1>14, EndMoves DEF GetOutputs
<1>15. CASE DockerFails(n)
  BY <1>1, <1>2, <1>15, EndMoves DEF DockerFails
<1>16. CASE MaxDurationCheck(n)
  <2>1. /\ start[n].pc = "waiting"
        /\ start' = [start EXCEPT ![n].isKilled = TRUE,
                                  ![n].isTimedOut = TRUE,
                                  ![start[n].item].phase = "Ended"]
    BY <1>16 DEF MaxDurationCheck, Resumes
  <2>2. /\ \A m \in DOMAIN start : start'[m].execution = start[m].execution
        /\ \A m \in DOMAIN start : m # n => Idle(m)
        /\ start'[n].pc = "waiting" /\ start'[n].isTimedOut
    <3> DEFINE over == [start EXCEPT ![n].isKilled = TRUE, ![n].isTimedOut = TRUE]
    <3>1. over[n] = [start[n] EXCEPT !.isKilled = TRUE, !.isTimedOut = TRUE]
      BY <1>2, <1>3
    <3>2. /\ over[n] \in Start /\ over[n].pc = "waiting" /\ over[n].isTimedOut
          /\ over[n].execution = start[n].execution
      <4> DEFINE killed == [start[n] EXCEPT !.isKilled = TRUE]
      <4>1. start[n] \in Start
        BY <1>2, <1>3
      <4>2. killed \in Start /\ killed.pc = "waiting" /\ killed.execution = start[n].execution
        BY <2>1, <4>1 DEF Start
      <4>3. over[n] = [killed EXCEPT !.isTimedOut = TRUE]
        BY <3>1
      <4> HIDE DEF killed, over
      <4> QED
        BY <4>2, <4>3 DEF Start
    <3>3. over \in [DOMAIN start -> Start] /\ \A m \in DOMAIN start : m # n => over[m] = start[m]
      BY <1>2, <1>3, <3>1, <3>2
    <3>4. start' = [over EXCEPT ![start[n].item].phase = "Ended"]
      BY <2>1
    <3> HIDE DEF over
    <3>5. \A m \in DOMAIN start :
            /\ start'[m].execution = over[m].execution /\ start'[m].pc = over[m].pc
            /\ start'[m].isKilled = over[m].isKilled /\ start'[m].isTimedOut = over[m].isTimedOut
      BY <3>3, <3>4 DEF Start
    <3> QED
      BY <1>2, <3>2, <3>3, <3>5 DEF Idle
  <2>3. (KilledInPlace(n) => TimeIsOver(n))' /\ NoDeadSlotOf(n)
    BY <2>2 DEF TimeIsOver, NoDeadSlotOf
  <2> QED
    BY <1>1, <1>2, <2>2, <2>3, OneMoves
<1> QED
  BY <1>4, <1>5, <1>6, <1>7, <1>8, <1>9, <1>10, <1>11, <1>12, <1>13, <1>14, <1>15, <1>16
     DEF Run

\* No start moves.
LEMMA NoneMoves ==
  ASSUME RunInv, Quiet,
         \A m \in DOMAIN start : start'[m].execution = start[m].execution,
         \A m \in DOMAIN start : Idle(m)
  PROVE  RunInv' /\ NoDeadSlotNow
<1>1. CASE DOMAIN start = {}
  <2>1. DOMAIN start' = {} /\ IInv'
    BY <1>1, QuietStep DEF RunInv, Quiet, Kept
  <2> QED
    BY <1>1, <2>1 DEF RunInv, SameJob, KilledOrSlot, NoDeadSlotNow
<1>2. CASE DOMAIN start # {}
  <2>1. PICK n \in DOMAIN start : TRUE
    BY <1>2
  <2>2. (KilledInPlace(n) => TimeIsOver(n))' /\ NoDeadSlotOf(n)
    BY <2>1, IdleStep
  <2> QED
    BY <2>1, <2>2, OneMoves
<1> QED
  BY <1>1, <1>2

LEMMA SameStarts ==
  ASSUME RunInv, IInv', UNCHANGED <<queue, start>>
  PROVE  RunInv' /\ NoDeadSlotNow
BY DEF RunInv, SameJob, KilledOrSlot, KilledInPlace, TimeIsOver, NoDeadSlotNow, NoDeadSlotOf

\* The start that is killed is one of the job whose slot is freed.
LEMMA KillMoves ==
  ASSUME RunInv, Quiet, NEW j \in Job, KillJobAndIgnore(j)
  PROVE  RunInv' /\ NoDeadSlotNow
<1> DEFINE i == queue[j]
           e == start[i].execution
           ended == [start EXCEPT ![i].phase = "Ended"]
<1>1. start \in [DOMAIN start -> Start] /\ queue \in [Job -> Starts \cup {None}] /\ IInv
  BY KeptAsIs DEF RunInv, Kept, IInv, TypeOK
<1>2. CASE i = None
  <2>1. UNCHANGED <<queue, start>> /\ IInv'
    BY <1>1, <1>2, QuietStep DEF KillJobAndIgnore, runs
  <2> QED
    BY <2>1, SameStarts
<1>3. CASE i # None
  <2>1. /\ queue' = [queue EXCEPT ![j] = None]
        /\ start' = IF e = None THEN ended ELSE [ended EXCEPT ![e].isKilled = TRUE]
    BY <1>3 DEF KillJobAndIgnore
  <2>2. i \in DOMAIN start /\ start[i].job = j
    BY <1>1, <1>3, SlotIsStart
  <2> HIDE DEF i
  <2>3. /\ ended \in [DOMAIN start -> Start]
        /\ \A m \in DOMAIN start :
             /\ ended[m].execution = start[m].execution /\ ended[m].pc = start[m].pc
             /\ ended[m].isKilled = start[m].isKilled /\ ended[m].isTimedOut = start[m].isTimedOut
    <3>1. /\ ended[i] = [start[i] EXCEPT !.phase = "Ended"] /\ start[i] \in Start
          /\ \A m \in DOMAIN start : m # i => ended[m] = start[m]
      BY <1>1, <2>2
    <3>2. /\ ended[i] \in Start
          /\ ended[i].execution = start[i].execution /\ ended[i].pc = start[i].pc
          /\ ended[i].isKilled = start[i].isKilled /\ ended[i].isTimedOut = start[i].isTimedOut
      <4> HIDE DEF ended
      <4> QED
        BY <3>1 DEF Start
    <3> QED
      BY <1>1, <2>2, <3>1, <3>2
  <2> HIDE DEF ended
  <2>4. CASE e = None
    <3>1. start' = ended
      BY <2>1, <2>4
    <3> QED
      BY <2>3, <3>1, NoneMoves DEF Idle
  <2>5. CASE e # None
    <3>1. PICK d \in DOMAIN start : d = e
      BY <1>1, <2>2, <2>5, StartFields DEF IInv, TypeOK, None
    <3>2. start[d].job = j
      BY <2>2, <2>5, <3>1 DEF RunInv, SameJob
    <3>3. d # None /\ start' = [ended EXCEPT ![d].isKilled = TRUE]
      BY <2>1, <2>5, <3>1
    <3>4. start'[d] = [ended[d] EXCEPT !.isKilled = TRUE] /\ ended[d] \in Start
      BY <2>3, <3>3
    <3>5. \A m \in DOMAIN start : m # d => start'[m] = ended[m]
      BY <2>3, <3>3
    <3>6. start'[d].execution = start[d].execution /\ start'[d].pc = start[d].pc
      BY <2>3, <3>4 DEF Start
    <3>7. queue'[j] # d
      BY <1>1, <2>1, <3>3
    <3>8. start'[d].job = j
      BY <3>2 DEF Quiet, Kept
    <3>9. (KilledInPlace(d) => TimeIsOver(d))' /\ NoDeadSlotOf(d)
      BY <3>2, <3>6, <3>7, <3>8 DEF KilledInPlace, NoDeadSlotOf
    <3>10. /\ \A m \in DOMAIN start : start'[m].execution = start[m].execution
           /\ \A m \in DOMAIN start : m # d => Idle(m)
      BY <2>3, <3>5, <3>6 DEF Idle
    <3> QED
      BY <3>9, <3>10, OneMoves
  <2> QED
    BY <2>4, <2>5
<1> QED
  BY <1>2, <1>3

LEMMA HealthMoves ==
  ASSUME RunInv, HealthCheck
  PROVE  RunInv' /\ NoDeadSlotNow
<1>1. Quiet /\ IInv /\ IInv' /\ start \in [DOMAIN start -> Start]
  BY HealthQuiet, QuietStep, KeptAsIs DEF RunInv, Kept
<1>2. \A k \in looks : k.job \in Job
  BY DEF RunInv, IInv, TypeOK
<1>3. ASSUME NEW k \in looks, ContainerInspected(k)
      PROVE  RunInv' /\ NoDeadSlotNow
  <2>1. KillJobAndIgnore(k.job) \/ UNCHANGED <<queue, start>>
    BY <1>3 DEF ContainerInspected, runs
  <2> QED
    BY <1>1, <1>2, <2>1, KillMoves, SameStarts
<1>4. ASSUME NEW k \in looks, ContainerListed(k)
      PROVE  RunInv' /\ NoDeadSlotNow
  <2> DEFINE e == start[k.item].execution
  <2>1. \/ KillJobAndIgnore(k.job)
        \/ start' = start
        \/ \E c : start' = [start EXCEPT ![e].container = c]
    BY <1>4 DEF ContainerListed
  <2>2. ASSUME NEW c, start' = [start EXCEPT ![e].container = c]
        PROVE  RunInv' /\ NoDeadSlotNow
    <3> HIDE DEF e
    <3>1. /\ \A m \in DOMAIN start : start'[m].execution = start[m].execution
          /\ \A m \in DOMAIN start : Idle(m)
      BY <1>1, <2>2 DEF Idle, Start
    <3> QED
      BY <1>1, <3>1, NoneMoves
  <2>3. CASE start' = start
    BY <1>1, <2>3, NoneMoves DEF Idle
  <2> QED
    BY <1>1, <1>2, <2>1, <2>2, <2>3, KillMoves
<1> QED
  BY <1>3, <1>4 DEF HealthCheck

\* A new start is not killed, and takes a slot under a number of its own.
LEMMA StartMoves ==
  ASSUME RunInv, IInv', NEW j \in Job, StartJob(j)
  PROVE  RunInv' /\ NoDeadSlotNow
<1> DEFINE n == Len(start) + 1
<1>1. PICK r : /\ start' = Append(start, r)
               /\ r.execution = None /\ r.isKilled = FALSE
  BY DEF StartJob
<1>2. queue' = [queue EXCEPT ![j] = n]
  BY DEF StartJob
<1>3. /\ start \in Seq(Start) /\ start' \in Seq(Start) /\ Len(start) \in Nat
      /\ queue \in [Job -> Starts \cup {None}]
  BY DEF RunInv, IInv, TypeOK
<1>4. /\ DOMAIN start = 1 .. Len(start) /\ DOMAIN start' = 1 .. n
      /\ \A m \in 1 .. Len(start) : start'[m] = start[m]
      /\ start'[n] = r
  BY <1>1, <1>3
<1>5. SameJob'
  <2> SUFFICES ASSUME NEW m \in 1 .. n, start'[m].execution # None
               PROVE  start'[start'[m].execution].job = start'[m].job
    BY <1>4 DEF SameJob
  <2>1. m \in 1 .. Len(start)
    BY <1>1, <1>3, <1>4
  <2>2. start[m].execution \in 1 .. Len(start)
    BY <1>3, <1>4, <2>1, StartFields DEF RunInv, None
  <2> QED
    BY <1>4, <2>1, <2>2 DEF RunInv, SameJob
<1>6. ASSUME NEW m \in 1 .. Len(start), queue'[start[m].job] = m
      PROVE  queue[start[m].job] = m
  <2>1. start[m].job \in Job
    BY <1>4, StartFields DEF RunInv
  <2> QED
    BY <1>2, <1>3, <1>6, <2>1
<1>7. KilledOrSlot'
  <2> SUFFICES ASSUME NEW m \in 1 .. n, KilledInPlace(m)'
               PROVE  TimeIsOver(m)'
    BY <1>4 DEF KilledOrSlot
  <2>1. m \in 1 .. Len(start)
    BY <1>1, <1>3, <1>4 DEF KilledInPlace
  <2> QED
    BY <1>4, <1>6, <2>1 DEF RunInv, KilledOrSlot, KilledInPlace, TimeIsOver
<1>8. NoDeadSlotNow
  BY <1>4 DEF NoDeadSlotNow, NoDeadSlotOf
<1> QED
  BY <1>5, <1>7, <1>8 DEF RunInv

-----------------------------------------------------------------------------
(* The theorem.                                                            *)

LEMMA StepRunInv ==
  ASSUME RunInv, [Next]_vars
  PROVE  RunInv' /\ NoDeadSlotNow
<1>1. IInv /\ IInv' /\ start \in [DOMAIN start -> Start]
  BY StepInv, KeptAsIs DEF RunInv, Kept
<1>2. ASSUME NEW word \in Words, Update(word)
      PROVE  RunInv' /\ NoDeadSlotNow
  BY <1>1, <1>2, SameStarts DEF Update, runs
<1>3. ASSUME NEW c \in claims, ClaimJob(c) \/ NoDefinition(c)
      PROVE  RunInv' /\ NoDeadSlotNow
  <2>1. c.job \in Job
    BY DEF RunInv, IInv, TypeOK
  <2>2. StartJob(c.job) \/ UNCHANGED <<queue, start>>
    BY <1>3 DEF ClaimJob, NoDefinition, runs
  <2> QED
    BY <1>1, <2>1, <2>2, StartMoves, SameStarts
<1>4. ASSUME NEW n \in Starts, Run(n)
      PROVE  RunInv' /\ NoDeadSlotNow
  BY <1>4, RunMoves
<1>5. ASSUME NEW n \in Starts, ContainerExits(n)
      PROVE  RunInv' /\ NoDeadSlotNow
  BY <1>1, <1>5, SameStarts DEF ContainerExits
<1>6. ASSUME NEW r \in reaping, KillAndRemove(r)
      PROVE  RunInv' /\ NoDeadSlotNow
  BY <1>1, <1>6, SameStarts DEF KillAndRemove
<1>7. ASSUME NEW j \in Job, NEW why \in {"gone", "elsewhere"}, CheckRunningJobs(j, why)
      PROVE  RunInv' /\ NoDeadSlotNow
  <2>1. KillJobAndIgnore(j) \/ UNCHANGED <<queue, start>>
    BY <1>7 DEF CheckRunningJobs, runs
  <2>2. Quiet
    BY <1>1, <1>7, TimerQuiet
  <2> QED
    BY <1>1, <2>1, <2>2, KillMoves, SameStarts
<1>8. ASSUME NEW j \in Job, CheckContainer(j)
      PROVE  RunInv' /\ NoDeadSlotNow
  BY <1>1, <1>8, SameStarts DEF CheckContainer, runs
<1>9. CASE HealthCheck
  BY <1>9, HealthMoves
<1>10. CASE UNCHANGED vars
  BY <1>1, <1>10, SameStarts DEF vars
<1> QED
  BY <1>2, <1>3, <1>4, <1>5, <1>6, <1>7, <1>8, <1>9, <1>10 DEF Next, Claim

\* A run that ends without a word to the server leaves its slot behind only when the
\* server's word is that the job is not ours (DockerJobQueue.ts, finish.then): a
\* run that was killed, timed out or failed never keeps the slot of its job.
THEOREM NoSlotIsDead == Spec => NoDeadSlot
<1>1. Init => RunInv
  <2>1. Init => IInv /\ DOMAIN start = {}
    BY InitInv DEF Init
  <2> QED
    BY <2>1 DEF RunInv, SameJob, KilledOrSlot
<1>2. RunInv /\ [Next]_vars => RunInv'
  BY StepRunInv
<1>3. RunInv /\ [Next]_vars => [NoDeadSlotNow]_vars
  BY StepRunInv
<1>4. [NoDeadSlotNow]_vars =>
        [\A n \in DOMAIN start :
           /\ start[n].pc # "silent" /\ start'[n].pc = "silent"
           /\ queue'[JobOf(n)] = n
           => IsDisowned(api[JobOf(n)])]_vars
  BY DEF NoDeadSlotNow, NoDeadSlotOf, JobOf
<1> QED
  BY <1>1, <1>2, <1>3, <1>4, PTL DEF Spec, NoDeadSlot

===============================================================================
