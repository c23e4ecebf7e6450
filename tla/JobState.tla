------------------------------- MODULE JobState -------------------------------
(***************************************************************************)
(* The job record every part of the system passes around, the functions   *)
(* that move it from state to state, and resolveMostCorrectJob, the rule   *)
(* servers, the database layer and workers all use to choose between two   *)
(* versions of one job (app/shared/src/shared/util.ts).                    *)
(*                                                                         *)
(* Worker ids are strings of which the code only uses equality and the     *)
(* order of localeCompare: they are positive integers here, and 0 is the   *)
(* blank id of a job that is on no worker.  Times are milliseconds in the  *)
(* code and ticks here.  The stored result (`finished.result`), the debug  *)
(* flag, tags and requirements play no part in any decision below.         *)
(***************************************************************************)
EXTENDS Naturals

Worth   == {"Success", "TimedOut", "Error"}
Reasons == Worth \cup {"WorkerLost", "JobReplacedByClient", "Cancelled", "Deleted"}

NoReason == "none"
NoWorker == 0

\* A job: `reason` is finishedReason, present exactly when the job is finished.
Job(Times, Workers, Spaces) ==
  {j \in [state      : {"Queued", "Running", "Finished", "Removed"},
          reason     : Reasons \cup {NoReason},
          time       : Times,
          worker     : Workers \cup {NoWorker},
          namespaces : SUBSET Spaces] :
     (j.state = "Finished") <=> (j.reason # NoReason)}

\* The undefined or null job of the code: in no map, not in the database.
NoJob == [state |-> "NoJob"]

Exists(j)     == j # NoJob
IsUnfinished(j) == j.state \in {"Queued", "Running"}
IsFinishedFor(j, reasons) == j.state = "Finished" /\ j.reason \in reasons

-----------------------------------------------------------------------------
(* Moving a job from state to state.                                       *)

QueuedJob(t, spaces) ==
  [state |-> "Queued", reason |-> NoReason, time |-> t, worker |-> NoWorker,
   namespaces |-> spaces]

SetQueued(j, t) == QueuedJob(t, j.namespaces)

SetRunning(j, w, t) ==
  [j EXCEPT !.state = "Running", !.reason = NoReason, !.worker = w, !.time = t]

\* Mutant: finishedReason is not set.
SetFinishedNoReason(j, why, t) == [j EXCEPT !.state = "Finished", !.time = t]

\* Spreading an undefined job leaves a record with only the fields set here.
SetFinished(j, why, t) ==
  IF Exists(j) THEN [j EXCEPT !.state = "Finished", !.reason = why, !.time = t]
  ELSE [state |-> "Finished", reason |-> why, time |-> t, worker |-> NoWorker,
        namespaces |-> {}]

SetRemoved(j) == [j EXCEPT !.state = "Removed", !.reason = NoReason]

-----------------------------------------------------------------------------
(* What may be shown to others.                                            *)

IsJobDeletedOrRemoved(j) ==
  Exists(j) /\ (j.state = "Removed" \/ IsFinishedFor(j, {"Deleted"}))

IsJobOkForSending(j) ==
  Exists(j) /\ (IsUnfinished(j) \/ IsFinishedFor(j, Worth))

-----------------------------------------------------------------------------
(* resolveMostCorrectJob.  The code answers with one of its arguments, and *)
(* callers test which (by identity): KeepsFirst says it is the first.      *)

\* Finished against Finished: the reasons of b over which each reason of a
\* stands whatever the times are.
StandsOver ==
  [Success             |-> {"TimedOut", "Error", "WorkerLost", "JobReplacedByClient"},
   TimedOut            |-> {"JobReplacedByClient", "Cancelled"},
   Error               |-> {"TimedOut", "WorkerLost", "JobReplacedByClient", "Cancelled"},
   WorkerLost          |-> {},
   JobReplacedByClient |-> {"WorkerLost", "JobReplacedByClient", "Cancelled"},
   Cancelled           |-> {"Success", "WorkerLost", "JobReplacedByClient", "Cancelled"},
   Deleted             |-> Reasons]

QueuedKeeps(a, b) ==
  \/ b.state = "Queued" /\ a.time < b.time
  \/ IsFinishedFor(b, {"WorkerLost", "Deleted"})
  \/ IsFinishedFor(b, {"Cancelled"}) /\ a.time > b.time
  \/ b.state = "Removed"

\* Mutants: a queued copy replaces a running one; whichever running copy was
\* there first stays.
RunningKeepsNotQueued(a, b) ==
  b.state = "Removed" \/ (b.state = "Running" /\ a.worker <= b.worker)
RunningKeepsAny(a, b) == b.state \in {"Queued", "Running", "Removed"}

RunningKeeps(a, b) ==
  \/ b.state \in {"Queued", "Removed"}
  \/ b.state = "Running" /\ a.worker <= b.worker

\* Mutant: a job that has its result may be queued again.
FinishedKeepsNotQueued(a, b) ==
  \/ b.state = "Running"
  \/ b.state = "Queued" /\ a.reason = "Cancelled" /\ b.time <= a.time
  \/ b.state = "Finished" /\ b.reason \in StandsOver[a.reason]
  \/ b.state = "Finished" /\ a.reason \in Worth /\ b.reason = a.reason /\ a.time < b.time

FinishedKeeps(a, b) ==
  \/ b.state = "Running"
  \/ b.state = "Queued" /\ a.reason \in Worth \cup {"JobReplacedByClient"}
  \/ b.state = "Queued" /\ a.reason = "Cancelled" /\ b.time <= a.time
  \/ b.state = "Finished" /\ b.reason \in StandsOver[a.reason]
  \/ b.state = "Finished" /\ a.reason \in Worth /\ b.reason = a.reason /\ a.time < b.time

RemovedKeeps(a, b) ==
  b.state = "Finished" \/ (b.state = "Removed" /\ a.time < b.time)

KeepsFirst(a, b) ==
  \/ ~Exists(b)
  \/ /\ Exists(a) /\ Exists(b)
     /\ \/ a.state = "Queued"   /\ QueuedKeeps(a, b)
        \/ a.state = "Running"  /\ RunningKeeps(a, b)
        \/ a.state = "Finished" /\ FinishedKeeps(a, b)
        \/ a.state = "Removed"  /\ RemovedKeeps(a, b)

ResolveMostCorrectJob(a, b) == IF KeepsFirst(a, b) THEN a ELSE b

-----------------------------------------------------------------------------
(* The order resolveMostCorrectJob chooses by, among the jobs that are     *)
(* shown to others: a result over a running job over a queued one; among   *)
(* results success, error, time-out; then the earlier one or, of two that  *)
(* run, the one on the worker whose id sorts first.                        *)

ResultRank == [TimedOut |-> 2, Error |-> 3, Success |-> 4]

Rank(j) ==
  IF j.state = "Finished" THEN ResultRank[j.reason]
  ELSE IF j.state = "Running" THEN 1 ELSE 0

TieBreak(j) == IF j.state = "Running" THEN j.worker ELSE j.time

AtLeast(a, b) ==
  \/ Rank(a) > Rank(b)
  \/ Rank(a) = Rank(b) /\ TieBreak(a) <= TieBreak(b)
=============================================================================
