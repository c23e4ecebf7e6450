------------------------------ MODULE WorkerDisk ------------------------------
(***************************************************************************)
(* What a run does between its claim and its report, put together: its     *)
(* inputs are copied (JobFiles), its image is made sure of (ImageBuild),   *)
(* its container runs, its outputs are collected (JobFiles).  When the     *)
(* image cannot be had the run fails, and the job may be submitted again.  *)
(*                                                                         *)
(* DockerJobQueue.ts _startJob and DockerJob.ts finish() order the steps;  *)
(* Worker models who may take them, this module what they find and leave   *)
(* on the disk and in docker.                                              *)
(***************************************************************************)
EXTENDS JobFiles

CONSTANT Setting  \* pairs of a world and a plan that go together

VARIABLES plan, step, pulled, record, checks, removed,
          built, pushed, fetching, archive, dir, spoiled, moved, context

Images == INSTANCE ImageBuild WITH Plan <- {s[2] : s \in Setting}

images == <<plan, step, pulled, record, checks, removed,
            built, pushed, fetching, archive, dir, spoiled, moved, context>>

DiskInit == Init /\ Images!Init /\ <<world, plan>> \in Setting

\* The image is looked for when the inputs are there.
EnsureImage(r) ==
  /\ at[r] = "mounted"
  /\ Images!EnsureDockerImage(r)
  /\ UNCHANGED vars

ContainerStarts(r) == StartContainer(r) /\ Images!CreateContainer(r)

NoImage(r) == ImageFails(r) /\ step[r] = "failed" /\ UNCHANGED images

SubmitAgain(r) == Again(r) /\ Images!Again(r)

Files(r) == (CopyInputs(r) \/ ContainerEnds(r) \/ GetOutputs(r)) /\ UNCHANGED images

Proceed(r) == EnsureImage(r) \/ ContainerStarts(r) \/ NoImage(r) \/ Files(r) \/ SubmitAgain(r)

Program(r) == (\E b \in Blob : WriteInput(r, b) \/ WriteOutput(r, b)) /\ UNCHANGED images

Clients == (Upload \/ \E j \in Job : ClearJobCache(j)) /\ UNCHANGED images

Docker == Images!Others /\ UNCHANGED vars

DiskNext ==
  \/ \E r \in Run : Proceed(r) \/ Program(r)
  \/ Clients
  \/ Docker

allVars == <<vars, images>>

\* What a run awaits ends, and its container does (maxDuration kills it).  For the
\* retries: the job is submitted again and again, and the registry, the archive's
\* server and docker build do not fail for ever.
DiskSpec ==
  /\ DiskInit /\ [][DiskNext]_allVars
  /\ \A r \in Run :
       /\ WF_allVars(Proceed(r))
       /\ SF_allVars(at[r] = "mounted" /\ Images!Succeeds(r) /\ UNCHANGED vars)
  /\ WF_allVars(Images!Check /\ UNCHANGED vars)

-----------------------------------------------------------------------------
(* Properties.                                                             *)

ImageIsOfItsContext == Images!ImageIsOfItsContext

\* An image that has gone missing comes back by trying again: the record that says
\* it is there does not outlive the next attempt, and a failed build is no obstacle
\* to the next one while downloads are not cut.
RetriesWork ==
  (world.again /\ Images!Undisturbed)
    => \A r \in Run : step[r] = "failed" ~> step[r] = "created"

===============================================================================
