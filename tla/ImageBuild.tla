------------------------------ MODULE ImageBuild ------------------------------
(***************************************************************************)
(* How a run gets its image (dockerImage.ts): pulled, with a record of     *)
(* what was pulled before that is checked out of band, or built from a     *)
(* context: an archive that is downloaded once, unpacked into a directory  *)
(* that all runs of the same build share, and handed to docker build.      *)
(*                                                                         *)
(* One pulled image and one build, which any number of runs may want at    *)
(* once.  The build's directory holds nothing, a part of the archive, the  *)
(* archive in its single top folder ("wrapped"), the context ("ready"),    *)
(* or something else that a run moved there ("other").                     *)
(*                                                                         *)
(* Pulling and building are docker's: they succeed or fail.  Images may    *)
(* be removed at any time (by ClearJobCache or by hand).                   *)
(***************************************************************************)
EXTENDS Naturals, FiniteSets

CONSTANTS Run,
          Plan  \* what stays the same all along, a set of Plans

\* Which image each run wants; whether the pulled image is there, and recorded, at
\* the start, and whether the runs know already; whether a download may be cut; how
\* often images are removed.
Plans == [want : [Run -> {"pull", "build"}], there : BOOLEAN, known : BOOLEAN,
          cuts : BOOLEAN, removals : Nat]

VARIABLES
  plan,      \* chosen at the start
  step,      \* step[r]: where ensureDockerImage of run r is
  pulled,    \* docker has the pulled image
  record,    \* CACHED_DOCKER_IMAGES has it
  checks,    \* out-of-band checks: waiting for docker, or about to forget
  removed,   \* number of images removed so far
  built,     \* what the built image holds, or "none"
  pushed,    \* what the registry has of it
  fetching,  \* a pull of the built image that nobody waits for is under way
  archive,   \* the downloaded archive
  dir,       \* the build directory
  spoiled,   \* runs whose directory was removed while they unpacked
  moved,     \* moved[r]: what run r has moved away to its temporary directory
  context    \* context[r]: what docker build was given

pulls  == <<pulled, record, checks>>
builds == <<built, pushed, fetching, archive, dir, spoiled, moved, context>>
vars   == <<plan, step, removed, pulls, builds>>

Contents == {"none", "part", "ready", "other"}

Steps == {"ask", "pulling", "prepare", "exists", "download", "pipe", "clean", "remake",
          "unpack", "unpacking", "unwrap", "rename", "drop", "restore", "build", "building",
          "have", "created", "failed"}

TypeOK ==
  /\ plan \in Plan
  /\ step \in [Run -> Steps]
  /\ pulled \in BOOLEAN /\ record \in BOOLEAN
  /\ checks \in [{"ask", "forget"} -> 0 .. Cardinality(Run)]
  /\ removed \in 0 .. plan.removals
  /\ built \in Contents /\ pushed \in Contents /\ fetching \in BOOLEAN
  /\ archive \in {"none", "torn", "whole"}
  /\ dir \in {"none", "empty", "part", "wrapped", "ready", "other"}
  /\ spoiled \subseteq Run
  /\ moved \in [Run -> Contents]
  /\ context \in [Run -> Contents]

Init ==
  /\ plan \in Plan
  /\ step = [r \in Run |-> IF plan.known THEN "have" ELSE "ask"]
  /\ pulled = plan.there /\ record = plan.there
  /\ checks = [c \in {"ask", "forget"} |-> 0]
  /\ removed = 0
  /\ built = "none" /\ pushed = "none" /\ fetching = FALSE
  /\ archive = "none" /\ dir = "none" /\ spoiled = {}
  /\ moved = [r \in Run |-> "none"]
  /\ context = [r \in Run |-> "none"]

Go(r, next) == step' = [step EXCEPT ![r] = next]

-----------------------------------------------------------------------------
(* A pulled image.                                                         *)

\* The record is believed; whether it is right is asked without waiting.
BelieveRecord(r) ==
  /\ step[r] = "ask" /\ plan.want[r] = "pull"
  /\ record /\ checks["ask"] < Cardinality(Run)
  /\ checks' = [checks EXCEPT !["ask"] = @ + 1]
  /\ Go(r, "have")
  /\ UNCHANGED <<plan, removed, pulled, record, builds>>

CheckFindsImage ==
  /\ checks["ask"] > 0 /\ pulled
  /\ checks' = [checks EXCEPT !["ask"] = @ - 1]
  /\ UNCHANGED <<plan, step, removed, pulled, record, builds>>

CheckMissesImage ==
  /\ checks["ask"] > 0 /\ ~pulled /\ checks["forget"] < Cardinality(Run)
  /\ checks' = [checks EXCEPT !["ask"] = @ - 1, !["forget"] = @ + 1]
  /\ UNCHANGED <<plan, step, removed, pulled, record, builds>>

\* Mutant: the check does not delete the record.
ForgetNothing ==
  /\ checks["forget"] > 0
  /\ checks' = [checks EXCEPT !["forget"] = @ - 1]
  /\ UNCHANGED <<plan, step, removed, pulled, record, builds>>

\* A pull may have ended in between: the record is lost all the same.
Forget ==
  /\ checks["forget"] > 0
  /\ checks' = [checks EXCEPT !["forget"] = @ - 1]
  /\ record' = FALSE
  /\ UNCHANGED <<plan, step, removed, pulled, builds>>

Pull(r) ==
  /\ step[r] = "ask" /\ plan.want[r] = "pull"
  /\ ~record
  /\ Go(r, "pulling")
  /\ UNCHANGED <<plan, removed, pulls, builds>>

PullEnds(r) ==
  /\ step[r] = "pulling"
  /\ pulled' = TRUE /\ record' = TRUE
  /\ Go(r, "have")
  /\ UNCHANGED <<plan, removed, checks, builds>>

PullFails(r) ==
  /\ step[r] = "pulling"
  /\ Go(r, "failed")
  /\ UNCHANGED <<plan, removed, pulls, builds>>

-----------------------------------------------------------------------------
(* A built image.                                                          *)

\* checkForDockerImage.  When docker does not have the image a pull is started,
\* but its callback takes the error for the stream and resolves at once; and the
\* answer is no, whatever the pull brings.
CheckForDockerImage(r) ==
  /\ step[r] = "ask" /\ plan.want[r] = "build"
  /\ Go(r, IF built # "none" THEN "have" ELSE "prepare")
  /\ fetching' = (fetching \/ built = "none")
  /\ UNCHANGED <<plan, removed, pulls, built, pushed, archive, dir, spoiled, moved, context>>

BackgroundPullEnds ==
  /\ fetching /\ fetching' = FALSE
  /\ built' \in {built} \cup ({pushed} \ {"none"})
  /\ UNCHANGED <<plan, step, removed, pulls, pushed, archive, dir, spoiled, moved, context>>

EnsureBuildDir(r) ==
  /\ step[r] = "prepare"
  /\ dir' = IF dir = "none" THEN "empty" ELSE dir
  /\ Go(r, "exists")
  /\ UNCHANGED <<plan, removed, pulls, built, pushed, fetching, archive, spoiled, moved, context>>

\* A file that is there is taken for the archive, all of it.
ArchiveExists(r) ==
  /\ step[r] = "exists"
  /\ Go(r, IF archive = "none" THEN "download" ELSE "clean")
  /\ UNCHANGED <<plan, removed, pulls, builds>>

\* The file is opened under its final name, without truncation.
DownloadBegins(r) ==
  /\ step[r] = "download"
  /\ archive' = IF archive = "none" THEN "torn" ELSE archive
  /\ Go(r, "pipe")
  /\ UNCHANGED <<plan, removed, pulls, built, pushed, fetching, dir, spoiled, moved, context>>

DownloadEnds(r) ==
  /\ step[r] = "pipe"
  /\ archive' = "whole"
  /\ Go(r, "clean")
  /\ UNCHANGED <<plan, removed, pulls, built, pushed, fetching, dir, spoiled, moved, context>>

\* The answer was not ok, or the connection broke: there is no second attempt.
DownloadFails(r) ==
  /\ step[r] = "download" \/ (step[r] = "pipe" /\ plan.cuts)
  /\ Go(r, "failed")
  /\ UNCHANGED <<plan, removed, pulls, builds>>

\* Mutant: the build directory is used as it was left.
KeepDestination(r) ==
  /\ step[r] = "clean"
  /\ Go(r, "remake")
  /\ UNCHANGED <<plan, removed, pulls, builds>>

\* removeSync throws when another run has just removed it.
RemoveDestination(r) ==
  /\ step[r] = "clean"
  /\ dir' = "none"
  /\ spoiled' = spoiled \cup {s \in Run : step[s] = "unpacking"}
  /\ Go(r, IF dir = "none" THEN "failed" ELSE "remake")
  /\ UNCHANGED <<plan, removed, pulls, built, pushed, fetching, archive, moved, context>>

RecreateDestination(r) ==
  /\ step[r] = "remake"
  /\ dir' = IF dir = "none" THEN "empty" ELSE dir
  /\ Go(r, "unpack")
  /\ UNCHANGED <<plan, removed, pulls, built, pushed, fetching, archive, spoiled, moved, context>>

\* Into what another run has put there meanwhile, if it has.
UnpackBegins(r) ==
  /\ step[r] = "unpack"
  /\ dir' = IF dir \in {"ready", "other"} THEN "other" ELSE "part"
  /\ Go(r, "unpacking")
  /\ UNCHANGED <<plan, removed, pulls, built, pushed, fetching, archive, spoiled, moved, context>>

\* A torn archive, a directory that was removed meanwhile or another run that
\* unpacks into it leave a part, and may or may not be an error.
UnpackEnds(r) ==
  LET alone == archive = "whole" /\ r \notin spoiled /\ \A s \in Run \ {r} : step[s] # "unpacking" IN
  /\ step[r] = "unpacking"
  /\ \/ alone /\ dir' = (IF dir = "part" THEN "wrapped" ELSE dir) /\ Go(r, "unwrap")
     \/ ~alone /\ dir' = (IF dir = "none" THEN "part" ELSE dir) /\ Go(r, "unwrap")
     \/ ~alone /\ dir' = dir /\ Go(r, "failed")
  /\ spoiled' = spoiled \ {r}
  /\ UNCHANGED <<plan, removed, pulls, built, pushed, fetching, archive, moved, context>>

\* The first directory in it is taken for the archive's top folder, and there must
\* be one.  In a context that another run has unwrapped already it is some folder of
\* the context.
Unwrap(r) ==
  /\ step[r] = "unwrap"
  /\ \/ /\ dir # "wrapped"
        /\ Go(r, "failed") /\ UNCHANGED <<dir, moved>>
     \/ /\ dir \notin {"none", "empty"}
        /\ Go(r, "drop")
        /\ moved' = [moved EXCEPT ![r] = IF dir = "wrapped" THEN "ready"
                                         ELSE IF dir = "part" THEN "part" ELSE "other"]
        /\ dir' = IF dir \in {"wrapped", "part"} THEN "empty" ELSE "other"
  /\ UNCHANGED <<plan, removed, pulls, built, pushed, fetching, archive, spoiled, context>>

DropDestination(r) ==
  /\ step[r] = "drop"
  /\ dir' = "none"
  /\ spoiled' = spoiled \cup {s \in Run : step[s] = "unpacking"}
  /\ Go(r, IF dir = "none" THEN "failed" ELSE "restore")
  /\ UNCHANGED <<plan, removed, pulls, built, pushed, fetching, archive, moved, context>>

\* rename() fails on a directory with something in it.
RestoreDestination(r) ==
  /\ step[r] = "restore"
  /\ IF dir \in {"none", "empty"}
       THEN Go(r, "build") /\ dir' = moved[r]
       ELSE Go(r, "failed") /\ UNCHANGED dir
  /\ moved' = [moved EXCEPT ![r] = "none"]
  /\ UNCHANGED <<plan, removed, pulls, built, pushed, fetching, archive, spoiled, context>>

\* docker build reads the directory as it is by then.
BuildBegins(r) ==
  /\ step[r] = "build"
  /\ IF dir = "none"
       THEN Go(r, "failed") /\ UNCHANGED context
       ELSE /\ Go(r, "building")
            /\ context' = [context EXCEPT ![r] = IF dir = "ready" THEN "ready"
                                                 ELSE IF dir = "other" THEN "other" ELSE "part"]
  /\ UNCHANGED <<plan, removed, pulls, built, pushed, fetching, archive, dir, spoiled, moved>>

\* The image is pushed, if it is small enough, for other workers and later days.
BuildEnds(r) ==
  /\ step[r] = "building"
  /\ built' = context[r]
  /\ pushed' \in {pushed, context[r]}
  /\ context' = [context EXCEPT ![r] = "none"]
  /\ Go(r, "have")
  /\ UNCHANGED <<plan, removed, pulls, fetching, archive, dir, spoiled, moved>>

BuildFails(r) ==
  /\ step[r] = "building"
  /\ context' = [context EXCEPT ![r] = "none"]
  /\ Go(r, "failed")
  /\ UNCHANGED <<plan, removed, pulls, built, pushed, fetching, archive, dir, spoiled, moved>>

-----------------------------------------------------------------------------
HasImage(r) == IF plan.want[r] = "pull" THEN pulled ELSE built # "none"

CreateContainer(r) ==
  /\ step[r] = "have" /\ HasImage(r)
  /\ Go(r, "created")
  /\ UNCHANGED <<plan, removed, pulls, builds>>

\* docker does not create a container from an image it does not have.
NoSuchImage(r) ==
  /\ step[r] = "have" /\ ~HasImage(r)
  /\ Go(r, "failed")
  /\ UNCHANGED <<plan, removed, pulls, builds>>

\* The job is submitted again.
Again(r) ==
  /\ step[r] \in {"ask", "created", "failed"}
  /\ Go(r, "ask")
  /\ moved' = [moved EXCEPT ![r] = "none"]
  /\ UNCHANGED <<plan, removed, pulls, built, pushed, fetching, archive, dir, spoiled, context>>

\* clearCache, docker image prune: docker's images and our record differ.
RemovePulled ==
  /\ removed < plan.removals /\ pulled
  /\ pulled' = FALSE /\ removed' = removed + 1
  /\ UNCHANGED <<plan, step, record, checks, builds>>

ClearCache ==
  /\ removed < plan.removals /\ built # "none"
  /\ built' = "none" /\ removed' = removed + 1
  /\ UNCHANGED <<plan, step, pulls, pushed, fetching, archive, dir, spoiled, moved, context>>

-----------------------------------------------------------------------------
PullStep(r) == BelieveRecord(r) \/ Pull(r) \/ PullEnds(r) \/ PullFails(r)

ContextStep(r) ==
  \/ EnsureBuildDir(r) \/ ArchiveExists(r)
  \/ DownloadBegins(r) \/ DownloadEnds(r) \/ DownloadFails(r)
  \/ RemoveDestination(r) \/ RecreateDestination(r) \/ UnpackBegins(r) \/ UnpackEnds(r)
  \/ Unwrap(r) \/ DropDestination(r) \/ RestoreDestination(r)

BuildStep(r) ==
  CheckForDockerImage(r) \/ ContextStep(r) \/ BuildBegins(r) \/ BuildEnds(r) \/ BuildFails(r)

EnsureDockerImage(r) == PullStep(r) \/ BuildStep(r) \/ NoSuchImage(r)

\* What may fail again and again.
Succeeds(r) == PullEnds(r) \/ DownloadBegins(r) \/ BuildEnds(r)

Check == CheckFindsImage \/ CheckMissesImage \/ Forget

Others == Check \/ BackgroundPullEnds \/ RemovePulled \/ ClearCache

-----------------------------------------------------------------------------
(* Properties.                                                             *)

\* Only one run at a time works on the build, and no download is cut.
Undisturbed ==
  /\ ~plan.cuts
  /\ \A r, s \in Run : plan.want[r] = "build" /\ plan.want[s] = "build" => r = s

\* The image that goes by the name of a build was made from its whole context,
\* however often it is removed, pulled back, built again or fails to.
ImageIsOfItsContext == Undisturbed => {built, pushed} \subseteq {"none", "ready"}

==============================================================================
