-------------------------- MODULE JobQueueAloneProofs --------------------------
(***************************************************************************)
(* JobQueue on one server, as a queue in local mode has it, for any        *)
(* workers, namespaces, changes asked for and bounds: what the database    *)
(* keeps of a result, that a job with a result is not run again, and that  *)
(* memory says what the database says.                                     *)
(*                                                                         *)
(* One server hears nobody, so the line, the changes past it and the sweep *)
(* are all there is.  The invariants say, for each place where the change  *)
(* at the head of the line may wait, what it holds in its locals.          *)
(***************************************************************************)
EXTENDS JobQueueProofs

\* There is one server.
Alone == \A r, s \in Server : r = s

Hears(s) == inbox[s] # {} \/ ~At(s, "merge", "idle")

NothingHeard == \A s \in Server : ~Hears(s)
-----------------------------------------------------------------------------
(* Tasks, one at a time.                                                   *)

LEMMA GoOnChanges ==
  ASSUME TypeOK, NEW s \in Server, NEW k \in Kinds, NEW t, GoOn(s, k, t)
  PROVE  /\ task'[s][k] = t
         /\ \A q \in Kinds \ {k} : task'[s][q] = task[s][q]
BY DEF TypeOK, GoOn

LEMMA EndChanges ==
  ASSUME TypeOK, NEW s \in Server, NEW k \in Kinds, End(s, k)
  PROVE  /\ task'[s][k] = Idle
         /\ \A q \in Kinds \ {k} : task'[s][q] = task[s][q]
BY GoOnChanges DEF End

LEMMA SetMemChanges ==
  ASSUME TypeOK, NEW s \in Server, NEW j, SetMem(s, j)
  PROVE  mem'[s] = j
BY DEF TypeOK, SetMem

\* A task that is not under way makes no step.
LEMMA IdleRests ==
  ASSUME NEW s \in Server, NEW k \in Kinds, At(s, k, "idle")
  PROVE  ~TaskStep(s, k)
BY DEF At, TaskStep, LoadMissingJob, LookForResult, Deciding, Applying, DecideResult, StoreResult,
       RequeueJob, ListQueues, SpreadResult, ListNamespaces, ReleaseNamespace, CountNamespaces,
       DeleteFinishedJob, DropOrKeep, Settle, DecideRunning, FetchRunning, StoreRunning,
       ReadForEnqueue, LookupResult, InsertQueued, JoinNamespace

\* A step of one task leaves the others where they are.
LEMMA OthersRest ==
  ASSUME TypeOK, NEW s \in Server, NEW k \in Kinds, TaskStep(s, k)
  PROVE  \A q \in Kinds \ {k} : task'[s][q] = task[s][q]
<1>1. CASE \/ LoadMissingJob(s, k) \/ LookForResult(s, k) \/ DecideResult(s, k)
           \/ StoreResult(s, k) \/ RequeueJob(s, k) \/ ListQueues(s, k) \/ SpreadResult(s, k)
  BY <1>1, GoOnChanges, EndChanges
  DEF LoadMissingJob, LookForResult, DecideResult, StoreResult, RequeueJob, ListQueues, SpreadResult
<1>2. CASE \/ ListNamespaces(s, k) \/ ReleaseNamespace(s, k) \/ CountNamespaces(s, k)
           \/ DeleteFinishedJob(s, k) \/ DropOrKeep(s, k) \/ Settle(s, k)
  BY <1>2, GoOnChanges, EndChanges
  DEF ListNamespaces, ReleaseNamespace, CountNamespaces, DeleteFinishedJob, DropOrKeep, Settle
<1>3. CASE \/ DecideRunning(s, k) \/ FetchRunning(s, k) \/ StoreRunning(s, k)
           \/ ReadForEnqueue(s, k) \/ LookupResult(s, k) \/ InsertQueued(s, k)
           \/ JoinNamespace(s, k)
  BY <1>3, GoOnChanges, EndChanges
  DEF DecideRunning, FetchRunning, StoreRunning, ReadForEnqueue, LookupResult, InsertQueued,
      JoinNamespace
<1> QED
  BY <1>1, <1>2, <1>3 DEF TaskStep

-----------------------------------------------------------------------------
(* One server hears nobody.                                                *)

LEMMA PostUnheard ==
  ASSUME Alone, TypeOK, NEW s \in Server, NEW m, Post(s, m)
  PROVE  inbox' = inbox
BY DEF Alone, TypeOK, Post

LEMMA TellUnheard ==
  ASSUME Alone, TypeOK, NEW s \in Server, NEW j, Tell(s, j)
  PROVE  inbox' = inbox
BY PostUnheard DEF Tell

LEMMA TaskStepUnheard ==
  ASSUME Alone, TypeOK, NEW s \in Server, NEW k \in Kinds, TaskStep(s, k)
  PROVE  inbox' = inbox
BY PostUnheard, TellUnheard
DEF TaskStep, LoadMissingJob, LookForResult, DecideResult, StoreResult, RequeueJob, ListQueues,
    SpreadResult, ListNamespaces, ReleaseNamespace, CountNamespaces, DeleteFinishedJob, DropOrKeep,
    Settle, DecideRunning, FetchRunning, StoreRunning, ReadForEnqueue, LookupResult, InsertQueued,
    JoinNamespace

LEMMA HearingNothing ==
  ASSUME NothingHeard, NEW s \in Server
  PROVE  /\ ~\E j \in inbox[s] : ReceiveKnown(s, j) \/ ReceiveUnknown(s, j)
         /\ ~MergeLoaded(s) /\ ~ReceiveDelete(s)
BY DEF NothingHeard, Hears, MergeLoaded, ReceiveDelete, At

\* Nothing happens to the job: somebody asks, the channel is spoken to, time passes.
Apart(s) ==
  \/ \E c \in Asked : ClientAsks(s, c) \/ WorkerAsks(s, c)
  \/ RequeueJobsFromMissingWorkers(s)
  \/ Broadcast(s)
  \/ Tick
  \/ UNCHANGED vars

\* The steps of a server that hears nothing.
PastTheLine(s) ==
  \E c \in Posted : (c.kind = "Queued" \/ c.why = "JobReplacedByClient") /\ Direct(s, c)

ServerStep(s) ==
  \/ Apart(s)
  \/ PastTheLine(s)
  \/ CheckNoNamespace(s)
  \/ ProcessJobStateChangeQueue(s)
  \/ TaskStep(s, "line")
  \/ TaskStep(s, "direct")
  \/ BeginSweep(s) \/ SweepStep(s)
  \/ Restart(s)

LEMMA StepsAlone ==
  ASSUME Alone, NothingHeard, NEW s \in Server, [Next]_vars
  PROVE  ServerStep(s)
<1>1. CASE UNCHANGED vars \/ Tick
  BY <1>1 DEF Apart, ServerStep
<1>2. CASE \E r \in Server : ServerStep(r)
  BY <1>2 DEF Alone
<1>3. \A r \in Server : /\ ~\E j \in inbox[r] : ReceiveKnown(r, j) \/ ReceiveUnknown(r, j)
                        /\ ~MergeLoaded(r) /\ ~ReceiveDelete(r)
  BY HearingNothing
<1>4. \A r \in Server, ns \in Namespace : Supersede(r, ns) => PastTheLine(r)
  BY DEF Supersede, PastTheLine, Finish
<1>5. Next => Tick \/ \E r \in Server : ServerStep(r)
  BY <1>3, <1>4 DEF Next, ServerStep, Apart, PastTheLine
<1> QED
  BY <1>1, <1>2, <1>5

LEMMA NothingHeardStep ==
  ASSUME Alone, TypeOK, NothingHeard, [Next]_vars
  PROVE  NothingHeard'
<1> SUFFICES ASSUME NEW s \in Server
             PROVE  inbox'[s] = {} /\ task'[s]["merge"].pc = "idle"
  BY DEF NothingHeard, Hears, At
<1>1. /\ inbox[s] = {} /\ task[s]["merge"].pc = "idle"
      /\ \A k \in {"line", "direct", "sweep"} : k \in Kinds /\ "merge" \in Kinds \ {k}
  BY DEF NothingHeard, Hears, At, Kinds
<1>2. ASSUME NEW k \in {"line", "direct"}, TaskStep(s, k)
      PROVE  inbox' = inbox /\ task'[s]["merge"] = task[s]["merge"]
  BY <1>1, <1>2, TaskStepUnheard, OthersRest
<1>3. CASE Apart(s)
  <2>1. inbox' = inbox /\ task' = task
    BY <1>3, PostUnheard
    DEF Apart, ClientAsks, WorkerAsks, RequeueJobsFromMissingWorkers, StateChange, Broadcast, Tick,
        vars
  <2> QED
    BY <1>1, <2>1
<1>4. CASE PastTheLine(s) \/ CheckNoNamespace(s) \/ ProcessJobStateChangeQueue(s)
  <2>1. inbox' = inbox /\ (task' = task \/ \E k \in {"line", "direct"} : \E t : GoOn(s, k, t))
    BY <1>4 DEF PastTheLine, Direct, BeginDirect, CheckNoNamespace, ProcessJobStateChangeQueue
  <2> QED
    BY <1>1, <2>1, GoOnChanges
<1>5. CASE BeginSweep(s) \/ SweepStep(s)
  <2>1. inbox' = inbox /\ (task' = task \/ \E t : GoOn(s, "sweep", t))
    BY <1>5 DEF BeginSweep, SweepStep, RemoveNamespace, CountSwept, EraseEntry, EndSweep, End
  <2> QED
    BY <1>1, <2>1, GoOnChanges
<1>6. CASE Restart(s)
  BY <1>1, <1>6 DEF Restart, TypeOK, Idle
<1> QED
  BY <1>1, <1>2, <1>3, <1>4, <1>5, <1>6, StepsAlone DEF ServerStep

-----------------------------------------------------------------------------
(* What the database says of a result stands while all changes wait in     *)
(* line, whatever is cancelled, deleted or swept and whenever the server   *)
(* restarts.                                                               *)

Lasts(j)  == IsFinishedFor(j, Lasting)
Agrees(j) == Exists(j) => Lasts(j)

\* Task t, with m in memory, is not about to write over a result e of the
\* database: what it works on is the result too, or nothing.
StandsIn(t, m, e) ==
  Lasts(e) =>
    /\ t.pc # "settle" => Agrees(m)
    /\ t.pc = "decide" => Lasts(t.got)
    /\ t.pc \in {"persist", "spread", "write", "join", "settle"} => Lasts(t.most)
    /\ t.pc \in {"release", "recheck", "drop"} => Agrees(t.job) /\ ~IsUnfinished(t.most)
    /\ t.pc \notin {"apply", "lookup", "insert", "fetch", "store"}

EntryStands == \A s \in Server : StandsIn(task[s]["line"], mem[s], entry)

LEMMA LastsKeeps ==
  ASSUME NEW a, Lasts(a)
  PROVE  /\ Exists(a) /\ ~IsUnfinished(a)
         /\ \A t : KeepsFirst(a, SetQueued(a, t))
         /\ \A j \in AnyJob : \A w, t : KeepsFirst(a, SetRunning(j, w, t))
         /\ \A j \in AnyJob, why \in {"WorkerLost", "TimedOut"} : \A t :
              KeepsFirst(a, SetFinished(j, why, t))
<1>1. a.state = "Finished" /\ a.reason \in {"Success", "Error"} /\ Exists(a) /\ ~IsUnfinished(a)
  BY DEF Lasts, Lasting, IsFinishedFor, Exists, NoJob, IsUnfinished
<1>2. \A t : KeepsFirst(a, SetQueued(a, t))
  BY <1>1 DEF KeepsFirst, FinishedKeeps, SetQueued, QueuedJob, Worth, Exists, NoJob
<1>3. ASSUME NEW j \in AnyJob, NEW w, NEW t
      PROVE  KeepsFirst(a, SetRunning(j, w, t))
  <2>1. SetRunning(j, w, t).state = "Running"
    BY DEF SetRunning, AnyJob, Job
  <2> QED
    BY <1>1, <2>1 DEF KeepsFirst, FinishedKeeps, Exists, NoJob
<1>4. ASSUME NEW j \in AnyJob, NEW why \in {"WorkerLost", "TimedOut"}, NEW t
      PROVE  KeepsFirst(a, SetFinished(j, why, t))
  <2> DEFINE b == SetFinished(j, why, t)
  <2>1. b.state = "Finished" /\ b.reason = why
    BY JobsExist DEF SetFinished, AnyJob, Job
  <2>2. why \in StandsOver[a.reason]
    BY <1>1 DEF StandsOver
  <2> HIDE DEF b
  <2>3. KeepsFirst(a, b)
    BY <1>1, <2>1, <2>2 DEF KeepsFirst, FinishedKeeps, Exists, NoJob
  <2> QED
    BY <2>3 DEF b
<1> QED
  BY <1>1, <1>2, <1>3, <1>4

\* Only the namespaces of a job are changed.
LEMMA NamespacesKeep ==
  ASSUME NEW j \in MaybeJob, NEW left
  PROVE  LET k == [j EXCEPT !.namespaces = left] IN
           /\ k.state = j.state /\ Exists(k) = Exists(j)
           /\ Exists(j) => k.reason = j.reason /\ k.worker = j.worker
           /\ IsUnfinished(k) = IsUnfinished(j)
           /\ \A reasons : IsFinishedFor(k, reasons) = IsFinishedFor(j, reasons)
<1>1. CASE j \in AnyJob
  <2> DEFINE k == [j EXCEPT !.namespaces = left]
  <2>1. k.state = j.state /\ k.reason = j.reason /\ k.worker = j.worker
    BY <1>1 DEF AnyJob, Job
  <2>2. j.state # "NoJob"
    BY <1>1 DEF AnyJob, Job
  <2> HIDE DEF k
  <2>3. Exists(k) /\ Exists(j)
    BY <2>1, <2>2 DEF Exists, NoJob
  <2> QED
    BY <2>1, <2>3 DEF IsUnfinished, IsFinishedFor, k
<1>2. CASE j = NoJob
  <2>1. [NoJob EXCEPT !.namespaces = left] = NoJob
    BY DEF NoJob
  <2> QED
    BY <1>2, <2>1 DEF Exists
<1> QED
  BY <1>1, <1>2 DEF MaybeJob

LEMMA GetKeeps ==
  ASSUME TypeOK
  PROVE  /\ Exists(QueueJobGet) = Exists(entry)
         /\ QueueJobGet.state = entry.state
         /\ Exists(entry) => QueueJobGet.reason = entry.reason /\ QueueJobGet.worker = entry.worker
         /\ IsUnfinished(QueueJobGet) = IsUnfinished(entry)
         /\ \A reasons : IsFinishedFor(QueueJobGet, reasons) = IsFinishedFor(entry, reasons)
BY NamespacesKeep DEF QueueJobGet, TypeOK, Exists

LEMMA FinishedMade ==
  ASSUME NEW j \in MaybeJob, NEW why \in Reasons, NEW t \in 0..MaxTime
  PROVE  LET f == SetFinished(j, why, t) IN
           /\ Exists(f) /\ ~IsUnfinished(f) /\ f.state = "Finished" /\ f.reason = why
           /\ \A reasons : why \in reasons => IsFinishedFor(f, reasons)
<1> DEFINE f == SetFinished(j, why, t)
<1>1. f \in AnyJob
  BY FinishedType
<1>2. f.state = "Finished" /\ f.reason = why
  BY DEF SetFinished, MaybeJob, AnyJob, Job, Exists
<1>3. Exists(f)
  BY <1>1, JobsExist
<1> HIDE DEF f
<1>4. ~IsUnfinished(f) /\ \A reasons : why \in reasons => IsFinishedFor(f, reasons)
  BY <1>2 DEF IsUnfinished, IsFinishedFor
<1> QED
  BY <1>2, <1>3, <1>4 DEF f

\* The job the change is about is the result, if the database has one.
LEMMA KnownAgrees ==
  ASSUME TypeOK, NEW s \in Server, StandsIn(task[s]["line"], mem[s], entry), Lasts(entry)
  PROVE  /\ task[s]["line"].pc \in {"start", "decide"} => Agrees(Known(s, "line"))
         /\ Applying(s, "line") => Lasts(GivenJob(s, "line"))
         /\ Applying(s, "line") => GivenJob(s, "line") = Known(s, "line")
<1> DEFINE t == task[s]["line"]
<1>1. /\ t.pc # "settle" => Agrees(mem[s])
      /\ t.pc = "decide" => Lasts(t.got)
      /\ t.pc # "apply"
  BY DEF StandsIn
<1>2. t.pc \in {"start", "decide"} => Agrees(Known(s, "line"))
  BY <1>1 DEF Known, At, Agrees
<1>3. Applying(s, "line") => /\ t.pc \in {"start", "decide"} /\ Exists(Known(s, "line"))
                             /\ GivenJob(s, "line") = Known(s, "line")
  BY <1>1 DEF Applying, Deciding, At, GivenJob
<1> QED
  BY <1>2, <1>3 DEF Agrees

\* What the head of the line becomes and what it leaves in memory and database.
Onward(s, t, m, e) ==
  /\ task'[s]["line"] = t
  /\ mem'[s] = m
  /\ entry' = e

LEMMA LineKeepsEntry ==
  ASSUME TypeOK, NEW s \in Server, StandsIn(task[s]["line"], mem[s], entry), TaskStep(s, "line"),
         Lasts(entry), entry' = entry, ~SpreadResult(s, "line"), ~DropOrKeep(s, "line")
  PROVE  StandsIn(task'[s]["line"], mem'[s], entry')
<1> DEFINE t == task[s]["line"]
           g == GivenJob(s, "line")
<1>1. /\ "line" \in Kinds /\ t \in Task /\ mem[s] \in MaybeJob /\ entry \in MaybeJob
      /\ t.job \in MaybeJob /\ t.most \in MaybeJob /\ t.got \in MaybeJob /\ spaces \in SUBSET Namespace
      /\ g \in MaybeJob /\ t.time \in 0..MaxTime
  BY TaskParts DEF Kinds, TypeOK
<1>2. /\ \A j : Lasts(j) => ~IsUnfinished(j) /\ Agrees(j) /\ Exists(j)
      /\ \A j : Agrees(j) /\ Exists(j) => Lasts(j)
  BY LastsKeeps DEF Agrees
<1>3. Idle.pc = "idle"
  BY DEF Idle
<1>4. StandsIn(t, mem[s], entry)
  OBVIOUS
<1>5. Applying(s, "line") =>
        /\ Lasts(g)
        /\ StaysAsItIs(s, "line") = KeepsFirst(g, FinishedJob(s, "line"))
        /\ FinishedJob(s, "line") = SetFinished(g, t.ch.why, t.time)
  BY KnownAgrees DEF StaysAsItIs, FinishedJob
<1>6. CASE LoadMissingJob(s, "line")
  <2>1. Onward(s, [t EXCEPT !.pc = "decide", !.got = QueueJobGet], mem[s], entry) /\ t.pc = "start"
    BY <1>1, <1>6, GoOnChanges DEF LoadMissingJob, Onward, At
  <2>2. Lasts(QueueJobGet)
    BY GetKeeps DEF Lasts
  <2> QED
    BY <1>1, <1>4, <2>1, <2>2 DEF Onward, StandsIn, Task
<1>7. ~LookForResult(s, "line")
  BY <1>2, <1>4, KnownAgrees DEF LookForResult, Deciding, Known, At, StandsIn
<1>8. CASE DecideResult(s, "line")
  <2>1. \/ Onward(s, Idle, g, entry)
        \/ /\ Onward(s, [t EXCEPT !.pc = "persist", !.most = FinishedJob(s, "line")], g, entry)
           /\ ~StaysAsItIs(s, "line")
    BY <1>1, <1>8, GoOnChanges, EndChanges, SetMemChanges DEF DecideResult, Onward
  <2>2. ~StaysAsItIs(s, "line") => t.ch.why \in {"Success", "Error"}
    BY <1>1, <1>2, <1>5, <1>8, LastsKeeps DEF DecideResult, Worth, MaybeJob, Exists
  <2>3. ~StaysAsItIs(s, "line") => Lasts(FinishedJob(s, "line"))
    BY <1>1, <1>5, <1>8, <2>2, FinishedMade, SpecialReasons DEF DecideResult, Lasts, Lasting
  <2> QED
    BY <1>1, <1>2, <1>3, <1>5, <1>8, <2>1, <2>3 DEF DecideResult, Onward, StandsIn, Task
<1>9. CASE StoreResult(s, "line")
  <2>1. Onward(s, [t EXCEPT !.pc = "spread"], mem[s], entry) /\ t.pc = "persist"
    BY <1>1, <1>9, GoOnChanges DEF StoreResult, Onward, At
  <2> QED
    BY <1>1, <1>4, <2>1 DEF Onward, StandsIn, Task
<1>10. CASE RequeueJob(s, "line")
  <2>1. StaysAsItIs(s, "line")
    BY <1>1, <1>2, <1>5, <1>10, LastsKeeps DEF RequeueJob, MaybeJob, Exists
  <2>2. Onward(s, Idle, g, entry)
    BY <1>1, <1>10, <2>1, EndChanges, SetMemChanges DEF RequeueJob, Onward
  <2> QED
    BY <1>2, <1>3, <1>5, <1>10, <2>2 DEF RequeueJob, Onward, StandsIn
<1>11. CASE ListNamespaces(s, "line")
  <2> DEFINE ns    == t.ch.ns
             going == IF ns = AllNamespaces THEN spaces ELSE spaces \cap {ns}
             pc    == IF going = {} THEN "recheck" ELSE "release"
             most  == IF StaysAsItIs(s, "line") THEN g ELSE FinishedJob(s, "line")
  <2>1. Onward(s, [t EXCEPT !.pc = pc, !.left = going, !.job = g, !.most = most], g, entry)
    BY <1>1, <1>11, GoOnChanges, SetMemChanges DEF ListNamespaces, Onward
  <2>2. ~IsUnfinished(most) /\ Lasts(g)
    BY <1>1, <1>2, <1>5, <1>11, FinishedMade, SpecialReasons DEF ListNamespaces
  <2>3. pc \in {"recheck", "release"}
    OBVIOUS
  <2> HIDE DEF most, going, pc
  <2> QED
    BY <1>1, <1>2, <2>1, <2>2, <2>3 DEF Onward, StandsIn, Task
<1>20. CASE ReleaseNamespace(s, "line")
  <2> DEFINE pc(ns) == IF t.left = {ns} THEN "recheck" ELSE "release"
  <2>1. PICK ns : GoOn(s, "line", [t EXCEPT !.left = @ \ {ns}, !.pc = pc(ns)])
    BY <1>20 DEF ReleaseNamespace
  <2>2. Onward(s, [t EXCEPT !.left = @ \ {ns}, !.pc = pc(ns)], mem[s], entry) /\ t.pc = "release"
    BY <1>1, <1>20, <2>1, GoOnChanges DEF ReleaseNamespace, Onward, At
  <2>3. pc(ns) \in {"recheck", "release"}
    OBVIOUS
  <2> HIDE DEF pc
  <2> QED
    BY <1>1, <1>4, <2>2, <2>3 DEF Onward, StandsIn, Task
<1>21. CASE ListQueues(s, "line")
  <2> DEFINE pc == IF spaces = {} THEN "settle" ELSE "write"
  <2>1. Onward(s, [t EXCEPT !.pc = pc], mem[s], entry) /\ t.pc = "spread"
    BY <1>1, <1>21, GoOnChanges DEF ListQueues, Onward, At
  <2>2. pc \in {"settle", "write"}
    OBVIOUS
  <2> HIDE DEF pc
  <2> QED
    BY <1>1, <1>4, <2>1, <2>2 DEF Onward, StandsIn, Task
<1>12. CASE CountNamespaces(s, "line")
  <2> DEFINE counted == [t.job EXCEPT !.namespaces = spaces]
  <2>1. \/ Onward(s, Idle, mem[s], entry)
        \/ Onward(s, [t EXCEPT !.pc = "drop", !.left = spaces], mem[s], entry)
        \/ Onward(s, Idle, counted, entry)
        \/ Onward(s, [t EXCEPT !.pc = "drop", !.left = spaces], counted, entry)
    BY <1>1, <1>12, GoOnChanges, EndChanges, SetMemChanges DEF CountNamespaces, Onward
  <2>2. t.pc = "recheck"
    BY <1>12 DEF CountNamespaces, At
  <2>3. Agrees(t.job) /\ Agrees(mem[s]) /\ ~IsUnfinished(t.most)
    BY <1>4, <2>2 DEF StandsIn
  <2>4. Agrees(counted)
    BY <1>1, <2>3, NamespacesKeep DEF Agrees, Lasts
  <2> HIDE DEF counted
  <2> QED
    BY <1>1, <1>3, <2>1, <2>3, <2>4 DEF Onward, StandsIn, Task
<1>13. CASE DeleteFinishedJob(s, "line")
  <2>1. Onward(s, [t EXCEPT !.pc = "dropped"], mem[s], entry) /\ t.pc = "drop"
    BY <1>1, <1>13, GoOnChanges DEF DeleteFinishedJob, Onward, At
  <2> QED
    BY <1>1, <1>4, <2>1 DEF Onward, StandsIn, Task
<1>14. CASE Settle(s, "line")
  <2>1. Onward(s, Idle, t.most, entry) /\ t.pc = "settle"
    BY <1>1, <1>14, EndChanges, SetMemChanges DEF Settle, Onward, At
  <2> QED
    BY <1>2, <1>3, <1>4, <2>1 DEF Onward, StandsIn
<1>15. CASE DecideRunning(s, "line")
  <2>1. t.pc \in {"start", "decide"}
    BY <1>15 DEF DecideRunning, Deciding, At
  <2>2. Agrees(Known(s, "line"))
    BY <2>1, KnownAgrees
  <2>3. ~Exists(Known(s, "line"))
          \/ KeepsFirst(Known(s, "line"), SetRunning(Known(s, "line"), t.ch.worker, t.time))
    BY <1>1, <1>2, <2>2, LastsKeeps, TaskParts DEF MaybeJob, Exists
  <2>4. Onward(s, Idle, Known(s, "line"), entry)
    BY <1>1, <1>15, <2>3, EndChanges, SetMemChanges DEF DecideRunning, Onward
  <2> QED
    BY <1>3, <2>2, <2>4 DEF Onward, StandsIn
<1>16. CASE ReadForEnqueue(s, "line")
  <2> DEFINE job == IF Exists(mem[s]) THEN mem[s] ELSE QueueJobGet
             u   == [t EXCEPT !.time = now, !.left = spaces]
  <2>1. t.pc = "start"
    BY <1>16 DEF ReadForEnqueue, At
  <2>2. Lasts(job)
    BY <1>2, <1>4, <2>1, GetKeeps DEF StandsIn, Lasts
  <2>3. Onward(s, [u EXCEPT !.pc = "join", !.most = job], mem[s], entry)
    BY <1>1, <1>2, <1>16, <2>2, GoOnChanges, LastsKeeps DEF ReadForEnqueue, Onward
  <2>4. u.pc = t.pc /\ [u EXCEPT !.pc = "join", !.most = job].pc = "join"
                    /\ [u EXCEPT !.pc = "join", !.most = job].most = job
    BY <1>1 DEF Task
  <2> HIDE DEF u, job
  <2> QED
    BY <1>4, <2>1, <2>2, <2>3, <2>4 DEF Onward, StandsIn
<1>17. ~LookupResult(s, "line")
  BY <1>4 DEF LookupResult, At, StandsIn
<1>18. CASE JoinNamespace(s, "line")
  <2>1. PICK seen \in {spaces, spaces'} :
          GoOn(s, "line", [t EXCEPT !.pc = "settle", !.most.namespaces = seen])
    BY <1>18 DEF JoinNamespace
  <2> DEFINE u == [t EXCEPT !.pc = "settle", !.most.namespaces = seen]
  <2>2. Onward(s, u, mem[s], entry)
    BY <1>1, <1>18, <2>1, GoOnChanges DEF JoinNamespace, Onward
  <2>3. u.pc = "settle" /\ u.most = [t.most EXCEPT !.namespaces = seen] /\ t.pc = "join"
    BY <1>1, <1>18 DEF Task, JoinNamespace, At
  <2>4. Lasts(u.most)
    BY <1>1, <1>4, <2>3, NamespacesKeep DEF StandsIn, Lasts
  <2> HIDE DEF u
  <2> QED
    BY <2>2, <2>3, <2>4 DEF Onward, StandsIn
<1>19. ~FetchRunning(s, "line") /\ ~StoreRunning(s, "line") /\ ~InsertQueued(s, "line")
  BY <1>4 DEF FetchRunning, StoreRunning, InsertQueued, At, StandsIn
<1> QED
  BY <1>6, <1>7, <1>8, <1>9, <1>10, <1>11, <1>12, <1>13, <1>14, <1>15, <1>16, <1>17, <1>18, <1>19,
     <1>20, <1>21
  DEF TaskStep

LEMMA LineWritesEntry ==
  ASSUME TypeOK, NEW s \in Server, StandsIn(task[s]["line"], mem[s], entry),
         \/ SpreadResult(s, "line") \/ DropOrKeep(s, "line")
         \/ StoreRunning(s, "line") \/ InsertQueued(s, "line")
  PROVE  /\ Lasts(entry) => ~IsUnfinished(entry')
         /\ StandsIn(task'[s]["line"], mem'[s], entry')
<1> DEFINE t == task[s]["line"]
<1>1. /\ "line" \in Kinds /\ t \in Task /\ mem[s] \in MaybeJob /\ entry \in MaybeJob
      /\ t.job \in MaybeJob /\ t.most \in MaybeJob /\ t.got \in MaybeJob
  BY TaskParts DEF Kinds, TypeOK
<1>2. /\ \A j : Lasts(j) => ~IsUnfinished(j) /\ Agrees(j) /\ Exists(j)
      /\ \A j : Agrees(j) /\ Exists(j) => Lasts(j)
      /\ \A j : IsUnfinished(j) => ~Lasts(j)
      /\ ~IsUnfinished(NoJob) /\ ~Lasts(NoJob)
  BY LastsKeeps DEF Agrees, Lasts, IsFinishedFor, IsUnfinished, NoJob
<1>3. CASE SpreadResult(s, "line")
  <2>1. Onward(s, [t EXCEPT !.pc = "settle"], mem[s], t.most) /\ t.pc = "write"
    BY <1>1, <1>3, GoOnChanges DEF SpreadResult, Onward, At
  <2> QED
    BY <1>1, <1>2, <2>1 DEF Onward, StandsIn, Task
<1>4. CASE DropOrKeep(s, "line")
  <2> DEFINE base    == IF t.left = {} THEN t.most ELSE t.job
             updated == [base EXCEPT !.namespaces = t.left]
  <2>1. /\ Onward(s, [t EXCEPT !.pc = "settle", !.most = updated], mem[s],
                  IF t.pc = "dropped" THEN NoJob ELSE updated)
        /\ t.pc \in {"drop", "dropped"}
    BY <1>1, <1>4, GoOnChanges DEF DropOrKeep, Onward, At
  <2>2. IsUnfinished(updated) = IsUnfinished(base)
    BY <1>1, NamespacesKeep
  <2>3. t.pc = "drop" /\ Lasts(entry) => ~IsUnfinished(base)
    BY <1>2 DEF StandsIn, Agrees, Exists
  <2> HIDE DEF base
  <2> HIDE DEF updated
  <2> QED
    BY <1>1, <1>2, <2>1, <2>2, <2>3 DEF Onward, StandsIn, Task
<1>5. CASE StoreRunning(s, "line")
  <2>1. ~Lasts(entry)
    BY <1>5 DEF StoreRunning, At, StandsIn
  <2>2. \/ entry' = entry
        \/ Exists(t.got) /\ entry' = SetRunning(t.got, t.ch.worker, t.time)
    BY <1>5 DEF StoreRunning
  <2>3. ~Lasts(entry')
    BY <1>1, <2>1, <2>2 DEF Lasts, IsFinishedFor, SetRunning, MaybeJob, AnyJob, Job, Exists
  <2> QED
    BY <2>1, <2>3 DEF StandsIn
<1>6. CASE InsertQueued(s, "line")
  <2>1. ~Lasts(entry)
    BY <1>6 DEF InsertQueued, At, StandsIn
  <2>2. ~Lasts(entry')
    BY <1>6 DEF InsertQueued, QueuedJob, Lasts, IsFinishedFor
  <2> QED
    BY <2>1, <2>2 DEF StandsIn
<1> QED
  BY <1>3, <1>4, <1>5, <1>6


\* What the other steps of the server do to the line, memory and entry.
LEMMA BesideTheLine ==
  ASSUME TypeOK, NEW s \in Server, OnlyTheLine, OnlyTheLine',
         \/ Apart(s) \/ PastTheLine(s) \/ CheckNoNamespace(s)
         \/ TaskStep(s, "direct") \/ BeginSweep(s) \/ SweepStep(s)
  PROVE  /\ task'[s]["line"] = task[s]["line"]
         /\ entry' = entry \/ (entry' = NoJob /\ EraseEntry(s))
         /\ \/ mem'[s] = mem[s]
            \/ mem'[s] = [mem[s] EXCEPT !.namespaces = spaces] /\ Exists(mem[s])
            \/ mem'[s] = NoJob /\ (BeginSweep(s) \/ EndSweep(s))
         /\ result' = result
         /\ restarts' = restarts
<1>1. /\ "direct" \in Kinds /\ "sweep" \in Kinds
      /\ "line" \in Kinds \ {"direct"} /\ "line" \in Kinds \ {"sweep"}
  BY DEF Kinds
<1>2. task[s]["direct"].pc = "idle" /\ task'[s]["direct"].pc = "idle"
  BY DEF OnlyTheLine, At
<1>3. CASE Apart(s)
  BY <1>3
  DEF Apart, ClientAsks, WorkerAsks, RequeueJobsFromMissingWorkers, StateChange, Broadcast, Tick,
      vars, db, env
<1>4. ASSUME NEW c, BeginDirect(s, c)
      PROVE  FALSE
  <2>1. task'[s]["direct"] = [Idle EXCEPT !.pc = "start", !.ch = c, !.time = now]
    BY <1>1, <1>4, GoOnChanges DEF BeginDirect
  <2>2. task'[s]["direct"].pc = "start"
    BY <2>1 DEF Idle
  <2> QED
    BY <1>2, <2>2
<1>5. ~PastTheLine(s)
  BY <1>4 DEF PastTheLine, Direct
<1>6. CASE CheckNoNamespace(s)
  BY <1>4, <1>6, SetMemChanges DEF CheckNoNamespace, db, env
<1>7. ~TaskStep(s, "direct")
  BY <1>1, IdleRests DEF OnlyTheLine
<1>8. CASE BeginSweep(s) \/ SweepStep(s)
  <2>1. task' = task \/ \E t : GoOn(s, "sweep", t)
    BY <1>8 DEF BeginSweep, SweepStep, RemoveNamespace, CountSwept, EraseEntry, EndSweep, End
  <2>2. task'[s]["line"] = task[s]["line"]
    BY <1>1, <2>1, GoOnChanges
  <2>3. /\ entry' = entry \/ (entry' = NoJob /\ EraseEntry(s))
        /\ result' = result /\ restarts' = restarts
    BY <1>8 DEF BeginSweep, SweepStep, RemoveNamespace, CountSwept, EraseEntry, EndSweep, db, env
  <2>4. mem'[s] = mem[s] \/ (mem'[s] = NoJob /\ (BeginSweep(s) \/ EndSweep(s)))
    <3>1. CASE EndSweep(s)
      BY <3>1, SetMemChanges DEF EndSweep
    <3>2. CASE BeginSweep(s)
      BY <3>2, SetMemChanges DEF BeginSweep
    <3>3. CASE ~BeginSweep(s) /\ ~EndSweep(s)
      BY <1>8, <3>3 DEF SweepStep, RemoveNamespace, CountSwept, EraseEntry, db
    <3> QED
      BY <3>1, <3>2, <3>3
  <2> QED
    BY <2>2, <2>3, <2>4
<1> QED
  BY <1>3, <1>5, <1>6, <1>7, <1>8

LEMMA StandsStep ==
  ASSUME Alone, TypeOK, NothingHeard, EntryStands, OnlyTheLine, OnlyTheLine', [Next]_vars
  PROVE  /\ Lasts(entry) => ~IsUnfinished(entry')
         /\ EntryStands'
<1>1. /\ ~Lasts(NoJob) /\ ~IsUnfinished(NoJob) /\ Agrees(NoJob)
      /\ \A j : Lasts(j) => Agrees(j) /\ ~IsUnfinished(j)
  BY LastsKeeps DEF Lasts, Agrees, IsFinishedFor, IsUnfinished, NoJob, Exists
<1>2. SUFFICES ASSUME NEW s \in Server
               PROVE  /\ Lasts(entry) => ~IsUnfinished(entry')
                      /\ StandsIn(task'[s]["line"], mem'[s], entry')
  <2>1. CASE Server = {}
    <3>1. entry' = entry
      BY <2>1 DEF Next, Tick, vars, db
    <3> QED
      BY <1>1, <2>1, <3>1 DEF EntryStands
  <2> QED
    BY <2>1 DEF EntryStands
<1> DEFINE t == task[s]["line"]
<1>3. StandsIn(t, mem[s], entry) /\ mem[s] \in MaybeJob /\ "line" \in Kinds
  BY DEF EntryStands, TypeOK, Kinds
<1>4. CASE TaskStep(s, "line")
  <2>1. CASE \/ SpreadResult(s, "line") \/ DropOrKeep(s, "line")
             \/ StoreRunning(s, "line") \/ InsertQueued(s, "line")
    BY <1>3, <2>1, LineWritesEntry
  <2>2. CASE ~(\/ SpreadResult(s, "line") \/ DropOrKeep(s, "line")
               \/ StoreRunning(s, "line") \/ InsertQueued(s, "line"))
    <3>1. entry' = entry
      BY <1>4, <2>2
      DEF TaskStep, LoadMissingJob, LookForResult, DecideResult, StoreResult, RequeueJob,
          ListQueues, ListNamespaces, ReleaseNamespace, CountNamespaces, DeleteFinishedJob, Settle,
          DecideRunning, FetchRunning, ReadForEnqueue, LookupResult, JoinNamespace, db
    <3>2. Lasts(entry) => StandsIn(task'[s]["line"], mem'[s], entry')
      BY <1>3, <1>4, <2>2, <3>1, LineKeepsEntry
    <3> QED
      BY <1>1, <3>1, <3>2 DEF StandsIn
  <2> QED
    BY <2>1, <2>2
<1>5. CASE \/ Apart(s) \/ PastTheLine(s) \/ CheckNoNamespace(s)
           \/ TaskStep(s, "direct") \/ BeginSweep(s) \/ SweepStep(s)
  <2>1. /\ task'[s]["line"] = t
        /\ entry' = entry \/ entry' = NoJob
        /\ \/ mem'[s] \in {mem[s], NoJob}
           \/ mem'[s] = [mem[s] EXCEPT !.namespaces = spaces]
    BY <1>5, BesideTheLine
  <2>2. Agrees(mem[s]) => Agrees(mem'[s])
    BY <1>1, <1>3, <2>1, NamespacesKeep DEF Agrees, Lasts
  <2> QED
    BY <1>1, <1>3, <2>1, <2>2 DEF StandsIn
<1>6. CASE ProcessJobStateChangeQueue(s)
  <2> DEFINE c == Head(line[s])
  <2>1. /\ Onward(s, [Idle EXCEPT !.pc = "start", !.ch = c.ch, !.time = c.time], mem[s], entry)
        /\ t.pc = "idle"
    BY <1>3, <1>6, GoOnChanges DEF ProcessJobStateChangeQueue, Onward, At, db
  <2>2. task'[s]["line"].pc = "start"
    BY <2>1 DEF Onward, Idle
  <2> QED
    BY <1>1, <1>3, <2>1, <2>2 DEF Onward, StandsIn
<1>7. CASE Restart(s)
  <2>1. Onward(s, Idle, Loaded, entry)
    BY <1>3, <1>7, SetMemChanges DEF Restart, Onward, TypeOK, db
  <2>2. Loaded \in {NoJob, entry}
    BY DEF Loaded
  <2> QED
    BY <1>1, <2>1, <2>2 DEF Onward, StandsIn, Idle
<1> QED
  BY <1>4, <1>5, <1>6, <1>7, StepsAlone DEF ServerStep

\* "If a job is Finished, it trumps most things" (util.ts, 304): on one server
\* whose changes all wait in line, the database never replaces a job that
\* succeeded or failed by one still to be run, whatever clients cancel and
\* delete, workers report or lose, the sweep removes, and whenever it restarts.
THEOREM ResultsStand ==
  ASSUME Alone
  PROVE  Spec /\ []OnlyTheLine => ResultStands
<1> DEFINE Inv == TypeOK /\ NothingHeard /\ EntryStands
<1>1. Init => Inv
  <2> SUFFICES ASSUME Init
               PROVE  Inv
    OBVIOUS
  <2>1. NothingHeard
    BY DEF Init, NothingHeard, Hears, At, Kinds, Idle
  <2>2. EntryStands
    BY DEF Init, EntryStands, StandsIn, Lasts, IsFinishedFor, NoJob
  <2> QED
    BY <2>1, <2>2, TypeInit
<1>2. Inv /\ OnlyTheLine /\ OnlyTheLine' /\ [Next]_vars => Inv'
  BY TypeStep, NothingHeardStep, StandsStep
<1>3. Inv /\ OnlyTheLine /\ OnlyTheLine' /\ [Next]_vars
        => [IsFinishedFor(entry, Lasting) => ~IsUnfinished(entry')]_vars
  BY StandsStep DEF Lasts
<1> QED
  BY <1>1, <1>2, <1>3, PTL DEF Spec, ResultStands

-----------------------------------------------------------------------------
(* A job that has its result is not run again, before the first sweep.     *)

\* A job that succeeded or failed, or was taken out of the queue: neither a
\* worker nor the loss of one queues or runs it.
Firm(j) == IsFinishedFor(j, Lasting \cup {"Cancelled", "JobReplacedByClient", "Deleted"})

\* Task t, with m in memory, e in the queue and r stored as the result, is not
\* about to leave a job in memory that is still to be run while r is a result.
RanIn(t, m, e, r) ==
  /\ ~Exists(m) /\ t.pc # "settle" => ~Exists(e) /\ ~Exists(r)
  /\ t.pc \in {"persist", "spread", "write", "release", "recheck", "drop", "dropped", "fetch",
               "store"} => Exists(m)
  /\ t.pc \in {"persist", "spread", "write", "release", "recheck", "drop", "dropped", "settle",
               "join"} => Exists(t.most)
  /\ t.pc \in {"release", "recheck", "drop", "dropped"} => Exists(t.job)
  /\ t.pc = "decide" => ~Exists(m) /\ ~Exists(t.got)
  /\ t.pc # "apply"
  /\ Lasts(r) =>
       /\ t.pc \notin {"spread", "write", "settle"} => Firm(m)
       /\ t.pc \in {"spread", "write", "settle", "join", "release", "recheck", "drop", "dropped"} =>
            Firm(t.most)
       /\ t.pc \in {"release", "recheck", "drop", "dropped"} => Firm(t.job)
       /\ t.pc # "insert"

RanOnce ==
  restarts = 0 =>
    \A s \in Server : RanIn(task[s]["line"], mem[s], entry, result) /\ At(s, "sweep", "idle")

LEMMA FirmKeeps ==
  ASSUME NEW a, Firm(a)
  PROVE  /\ Exists(a) /\ ~IsUnfinished(a)
         /\ \A j \in AnyJob : \A w, t : KeepsFirst(a, SetRunning(j, w, t))
         /\ \A j \in AnyJob : \A t : KeepsFirst(a, SetFinished(j, "WorkerLost", t))
<1>1. /\ a.state = "Finished" /\ Exists(a) /\ ~IsUnfinished(a)
      /\ a.reason \in {"Success", "Error", "Cancelled", "JobReplacedByClient", "Deleted"}
  BY DEF Firm, Lasting, IsFinishedFor, Exists, NoJob, IsUnfinished
<1>2. ASSUME NEW j \in AnyJob, NEW w, NEW t
      PROVE  KeepsFirst(a, SetRunning(j, w, t))
  <2>1. SetRunning(j, w, t).state = "Running"
    BY DEF SetRunning, AnyJob, Job
  <2> QED
    BY <1>1, <2>1 DEF KeepsFirst, FinishedKeeps, Exists, NoJob
<1>3. ASSUME NEW j \in AnyJob, NEW t
      PROVE  KeepsFirst(a, SetFinished(j, "WorkerLost", t))
  <2> DEFINE b == SetFinished(j, "WorkerLost", t)
  <2>1. b.state = "Finished" /\ b.reason = "WorkerLost"
    BY JobsExist DEF SetFinished, AnyJob, Job
  <2>2. "WorkerLost" \in StandsOver[a.reason]
    BY <1>1 DEF StandsOver, Reasons, Worth
  <2> HIDE DEF b
  <2>3. KeepsFirst(a, b)
    BY <1>1, <2>1, <2>2 DEF KeepsFirst, FinishedKeeps, Exists, NoJob
  <2> QED
    BY <2>3 DEF b
<1> QED
  BY <1>1, <1>2, <1>3

\* While RanIn holds a change finds its job in memory or nowhere.
LEMMA KnownIsMem ==
  ASSUME TypeOK, NEW s \in Server, RanIn(task[s]["line"], mem[s], entry, result)
  PROVE  /\ Known(s, "line") = mem[s]
         /\ Applying(s, "line") => /\ GivenJob(s, "line") = mem[s] /\ Exists(mem[s])
                                   /\ task[s]["line"].pc = "start"
         /\ ~LookForResult(s, "line") \/ End(s, "line")
<1> DEFINE t == task[s]["line"]
<1>1. /\ t.pc = "decide" => ~Exists(mem[s]) /\ ~Exists(t.got)
      /\ t.pc # "apply"
      /\ ~Exists(mem[s]) /\ t.pc # "settle" => ~Exists(result)
  BY DEF RanIn
<1>2. Known(s, "line") = mem[s]
  BY <1>1 DEF Known, At
<1>3. Applying(s, "line") => /\ GivenJob(s, "line") = mem[s] /\ Exists(mem[s])
                             /\ t.pc = "start"
  BY <1>1, <1>2 DEF Applying, Deciding, At, GivenJob
<1>4. ~LookForResult(s, "line") \/ End(s, "line")
  BY <1>1, <1>2 DEF LookForResult, Deciding, At
<1> QED
  BY <1>2, <1>3, <1>4

LEMMA RanLine ==
  ASSUME TypeOK, NEW s \in Server, RanIn(task[s]["line"], mem[s], entry, result),
         TaskStep(s, "line")
  PROVE  RanIn(task'[s]["line"], mem'[s], entry', result')
<1> DEFINE t == task[s]["line"]
           f == FinishedJob(s, "line")
<1>1. /\ "line" \in Kinds /\ t \in Task /\ mem[s] \in MaybeJob
      /\ entry \in MaybeJob /\ result \in MaybeJob
      /\ t.job \in MaybeJob /\ t.most \in MaybeJob /\ t.got \in MaybeJob
      /\ t.time \in 0..MaxTime
  BY TaskParts DEF Kinds, TypeOK
<1>2. /\ \A j : Firm(j) => Exists(j) /\ ~IsUnfinished(j)
      /\ \A j : Lasts(j) => Firm(j) /\ Exists(j)
      /\ ~Lasts(NoJob) /\ ~Exists(NoJob)
  BY FirmKeeps DEF Lasts, Lasting, Firm, IsFinishedFor, NoJob, Exists
<1>3. Idle.pc = "idle"
  BY DEF Idle
<1>4. RanIn(t, mem[s], entry, result)
  OBVIOUS
<1>5. Applying(s, "line") =>
        /\ GivenJob(s, "line") = mem[s] /\ Exists(mem[s]) /\ t.pc = "start"
        /\ StaysAsItIs(s, "line") = KeepsFirst(mem[s], f)
        /\ f = SetFinished(mem[s], t.ch.why, t.time)
        /\ Lasts(result) => Firm(mem[s])
  BY <1>4, KnownIsMem DEF StaysAsItIs, FinishedJob, RanIn
<1>6. CASE LoadMissingJob(s, "line")
  <2>1. /\ Onward(s, [t EXCEPT !.pc = "decide", !.got = QueueJobGet], mem[s], entry)
        /\ t.pc = "start" /\ ~Exists(mem[s]) /\ result' = result
    BY <1>1, <1>6, GoOnChanges DEF LoadMissingJob, Onward, At, db
  <2>2. QueueJobGet = NoJob
    BY <1>4, <2>1 DEF RanIn, QueueJobGet
  <2> QED
    BY <1>1, <1>2, <1>4, <2>1, <2>2 DEF Onward, RanIn, Task
<1>7. CASE LookForResult(s, "line")
  <2>1. Onward(s, Idle, mem[s], entry) /\ result' = result
    BY <1>1, <1>4, <1>7, KnownIsMem, EndChanges DEF LookForResult, Onward, db
  <2>2. t.pc \in {"start", "decide"}
    BY <1>7 DEF LookForResult, Deciding, At
  <2> QED
    BY <1>3, <1>4, <2>1, <2>2 DEF Onward, RanIn
<1>8. CASE DecideResult(s, "line")
  <2>1. /\ \/ Onward(s, Idle, mem[s], entry)
           \/ Onward(s, [t EXCEPT !.pc = "persist", !.most = f], mem[s], entry)
        /\ result' = result
    BY <1>1, <1>5, <1>8, GoOnChanges, EndChanges, SetMemChanges DEF DecideResult, Onward, db
  <2>2. Exists(f)
    BY <1>1, <1>8, FinishedJobType, JobsExist, SpecialReasons DEF DecideResult
  <2> HIDE DEF f
  <2> QED
    BY <1>1, <1>3, <1>4, <1>5, <1>8, <2>1, <2>2 DEF DecideResult, Onward, RanIn, Task
<1>9. CASE StoreResult(s, "line")
  <2>1. /\ Onward(s, [t EXCEPT !.pc = "spread"], mem[s], entry) /\ t.pc = "persist"
        /\ result' = t.most
    BY <1>1, <1>9, GoOnChanges DEF StoreResult, Onward, At
  <2> QED
    BY <1>1, <1>2, <1>4, <2>1 DEF Onward, RanIn, Task
<1>10. CASE RequeueJob(s, "line")
  <2> DEFINE q == SetQueued(f, t.time)
  <2>1. /\ \/ Onward(s, Idle, mem[s], entry)
           \/ Onward(s, [t EXCEPT !.pc = "spread", !.most = q], mem[s], entry)
              /\ ~StaysAsItIs(s, "line")
        /\ result' = result
    BY <1>1, <1>5, <1>10, GoOnChanges, EndChanges, SetMemChanges DEF RequeueJob, Onward, db
  <2>2. ~StaysAsItIs(s, "line") => ~Lasts(result)
    BY <1>1, <1>5, <1>10, FirmKeeps DEF RequeueJob, MaybeJob, Exists
  <2>3. Exists(q)
    BY DEF SetQueued, QueuedJob, Exists, NoJob
  <2> HIDE DEF q
  <2> QED
    BY <1>1, <1>3, <1>4, <1>5, <1>10, <2>1, <2>2, <2>3 DEF RequeueJob, Onward, RanIn, Task
<1>11. CASE SpreadResult(s, "line")
  <2>1. /\ Onward(s, [t EXCEPT !.pc = "settle"], mem[s], entry') /\ t.pc = "write"
        /\ result' = result
    BY <1>1, <1>11, GoOnChanges DEF SpreadResult, Onward, At
  <2> QED
    BY <1>1, <1>4, <2>1 DEF Onward, RanIn, Task
<1>23. CASE ListQueues(s, "line")
  <2> DEFINE pc == IF spaces = {} THEN "settle" ELSE "write"
  <2>1. /\ Onward(s, [t EXCEPT !.pc = pc], mem[s], entry) /\ t.pc = "spread"
        /\ result' = result
    BY <1>1, <1>23, GoOnChanges DEF ListQueues, Onward, At, db
  <2>2. pc \in {"settle", "write"}
    OBVIOUS
  <2> HIDE DEF pc
  <2> QED
    BY <1>1, <1>4, <2>1, <2>2 DEF Onward, RanIn, Task
<1>12. CASE ListNamespaces(s, "line")
  <2> DEFINE ns    == t.ch.ns
             going == IF ns = AllNamespaces THEN spaces ELSE spaces \cap {ns}
             pc    == IF going = {} THEN "recheck" ELSE "release"
             most  == IF StaysAsItIs(s, "line") THEN mem[s] ELSE f
             u     == [t EXCEPT !.pc = pc, !.left = going, !.job = mem[s], !.most = most]
  <2>1. Onward(s, u, mem[s], entry) /\ result' = result
    <3>1. GivenJob(s, "line") = mem[s]
      BY <1>5, <1>12 DEF ListNamespaces
    <3>2. GoOn(s, "line", u) /\ SetMem(s, mem[s]) /\ entry' = entry /\ result' = result
      BY <1>12, <3>1 DEF ListNamespaces, db
    <3> HIDE DEF u
    <3> QED
      BY <1>1, <3>2, GoOnChanges, SetMemChanges DEF Onward
  <2>2. Exists(f) /\ Firm(f)
    BY <1>1, <1>5, <1>12, FinishedMade, SpecialReasons DEF ListNamespaces, Firm
  <2>3. Exists(most) /\ (Lasts(result) => Firm(most) /\ Firm(mem[s])) /\ Exists(mem[s])
    BY <1>5, <1>12, <2>2 DEF ListNamespaces
  <2>4. u.pc \in {"recheck", "release"} /\ u.job = mem[s] /\ u.most = most
    BY <1>1 DEF Task
  <2> HIDE DEF u, most, f
  <2> QED
    BY <2>1, <2>3, <2>4 DEF Onward, RanIn
<1>24. CASE ReleaseNamespace(s, "line")
  <2> DEFINE pc(ns) == IF t.left = {ns} THEN "recheck" ELSE "release"
  <2>1. PICK ns : GoOn(s, "line", [t EXCEPT !.left = @ \ {ns}, !.pc = pc(ns)])
    BY <1>24 DEF ReleaseNamespace
  <2> DEFINE u == [t EXCEPT !.left = @ \ {ns}, !.pc = pc(ns)]
  <2>2. Onward(s, u, mem[s], entry) /\ t.pc = "release" /\ result' = result
    BY <1>1, <1>24, <2>1, GoOnChanges DEF ReleaseNamespace, Onward, At
  <2>3. u.pc \in {"recheck", "release"} /\ u.job = t.job /\ u.most = t.most
    BY <1>1 DEF Task
  <2> HIDE DEF u
  <2> QED
    BY <1>4, <2>2, <2>3 DEF Onward, RanIn
<1>13. CASE CountNamespaces(s, "line")
  <2> DEFINE counted == [t.job EXCEPT !.namespaces = spaces]
             u       == [t EXCEPT !.pc = "drop", !.left = spaces]
  <2>1. /\ t.pc = "recheck" /\ result' = result
        /\ \/ Onward(s, Idle, mem[s], entry)
           \/ Onward(s, u, mem[s], entry)
           \/ Onward(s, Idle, counted, entry)
           \/ Onward(s, u, counted, entry)
    BY <1>1, <1>13, GoOnChanges, EndChanges, SetMemChanges DEF CountNamespaces, Onward, At, db
  <2>2. /\ Exists(t.job) /\ Exists(t.most) /\ Exists(mem[s])
        /\ Lasts(result) => Firm(mem[s]) /\ Firm(t.job) /\ Firm(t.most)
    BY <1>4, <2>1 DEF RanIn
  <2>3. Exists(counted) /\ (Firm(t.job) => Firm(counted))
    BY <1>1, <2>2, NamespacesKeep DEF Firm
  <2>4. u.pc = "drop" /\ u.job = t.job /\ u.most = t.most
    BY <1>1 DEF Task
  <2> HIDE DEF counted, u
  <2> QED
    BY <1>3, <2>1, <2>2, <2>3, <2>4 DEF Onward, RanIn
<1>14. CASE DeleteFinishedJob(s, "line")
  <2>1. /\ Onward(s, [t EXCEPT !.pc = "dropped"], mem[s], entry) /\ t.pc = "drop"
        /\ result' = NoJob
    BY <1>1, <1>14, GoOnChanges DEF DeleteFinishedJob, Onward, At
  <2> QED
    BY <1>1, <1>2, <1>4, <2>1 DEF Onward, RanIn, Task
<1>15. CASE DropOrKeep(s, "line")
  <2> DEFINE base    == IF t.left = {} THEN t.most ELSE t.job
             updated == [base EXCEPT !.namespaces = t.left]
  <2>1. /\ Onward(s, [t EXCEPT !.pc = "settle", !.most = updated], mem[s], entry')
        /\ t.pc \in {"drop", "dropped"} /\ result' = result
    BY <1>1, <1>15, GoOnChanges DEF DropOrKeep, Onward, At
  <2>2. Exists(base) /\ (Lasts(result) => Firm(base))
    BY <1>4, <2>1 DEF RanIn
  <2>3. base \in MaybeJob
    BY <1>1
  <2> HIDE DEF base
  <2>4. Exists(updated) /\ (Lasts(result) => Firm(updated))
    BY <2>2, <2>3, NamespacesKeep DEF Firm
  <2> HIDE DEF updated
  <2> QED
    BY <1>1, <1>4, <2>1, <2>4 DEF Onward, RanIn, Task
<1>16. CASE Settle(s, "line")
  <2>1. Onward(s, Idle, t.most, entry) /\ t.pc = "settle" /\ result' = result
    BY <1>1, <1>16, EndChanges, SetMemChanges DEF Settle, Onward, At, db
  <2> QED
    BY <1>3, <1>4, <2>1 DEF Onward, RanIn
<1>17. CASE DecideRunning(s, "line")
  <2> DEFINE new == SetRunning(mem[s], t.ch.worker, t.time)
             u   == [t EXCEPT !.got = NoJob, !.pc = IF spaces = {} THEN "store" ELSE "fetch"]
  <2>1. t.pc \in {"start", "decide"}
    BY <1>17 DEF DecideRunning, Deciding, At
  <2>2. /\ \/ Onward(s, Idle, mem[s], entry)
           \/ /\ Onward(s, u, new, entry)
              /\ Exists(mem[s]) /\ ~KeepsFirst(mem[s], new)
        /\ result' = result
    BY <1>1, <1>4, <1>17, KnownIsMem, GoOnChanges, EndChanges, SetMemChanges
    DEF DecideRunning, Onward, db
  <2>3. Exists(mem[s]) /\ ~KeepsFirst(mem[s], new) => Exists(new) /\ ~Lasts(result)
    BY <1>1, <1>4, <2>1, FirmKeeps DEF RanIn, MaybeJob, Exists, SetRunning, AnyJob, Job, NoJob
  <2>4. u.pc \in {"store", "fetch"}
    BY <1>1 DEF Task
  <2> HIDE DEF new, u
  <2> QED
    BY <1>3, <1>4, <2>1, <2>2, <2>3, <2>4 DEF Onward, RanIn
<1>25. CASE FetchRunning(s, "line")
  <2>1. /\ Onward(s, [t EXCEPT !.pc = "store", !.got = QueueJobGet], mem[s], entry)
        /\ t.pc = "fetch" /\ result' = result
    BY <1>1, <1>25, GoOnChanges DEF FetchRunning, Onward, At, db
  <2> QED
    BY <1>1, <1>4, <2>1 DEF Onward, RanIn, Task
<1>18. CASE StoreRunning(s, "line")
  <2>1. Onward(s, Idle, mem[s], entry') /\ t.pc = "store" /\ result' = result
    BY <1>1, <1>18, EndChanges DEF StoreRunning, Onward, At
  <2> QED
    BY <1>3, <1>4, <2>1 DEF Onward, RanIn
<1>19. CASE ReadForEnqueue(s, "line")
  <2> DEFINE job == IF Exists(mem[s]) THEN mem[s] ELSE QueueJobGet
             u   == [t EXCEPT !.time = now, !.left = spaces]
  <2>1. t.pc = "start"
    BY <1>19 DEF ReadForEnqueue, At
  <2>2. Exists(job) => job = mem[s]
    BY <1>2, <1>4, <2>1 DEF RanIn, QueueJobGet
  <2>3. /\ \/ Exists(job) /\ Onward(s, [u EXCEPT !.pc = "join", !.most = job], mem[s], entry)
           \/ Onward(s, [u EXCEPT !.pc = "lookup"], mem[s], entry)
        /\ result' = result
    BY <1>1, <1>19, GoOnChanges DEF ReadForEnqueue, Onward, db
  <2>4. /\ [u EXCEPT !.pc = "join", !.most = job].pc = "join"
        /\ [u EXCEPT !.pc = "join", !.most = job].most = job
        /\ [u EXCEPT !.pc = "lookup"].pc = "lookup"
    BY <1>1 DEF Task
  <2> HIDE DEF u, job
  <2> QED
    BY <1>4, <2>1, <2>2, <2>3, <2>4 DEF Onward, RanIn
<1>20. CASE LookupResult(s, "line")
  <2>1. /\ \/ /\ Onward(s, [t EXCEPT !.pc = "join", !.most = result], mem[s], entry)
              /\ Exists(result)
           \/ Onward(s, [t EXCEPT !.pc = "insert"], mem[s], entry) /\ ~Lasts(result)
        /\ result' = result /\ t.pc = "lookup"
    BY <1>1, <1>2, <1>20, GoOnChanges, LastsKeeps DEF LookupResult, Onward, At, db
  <2> QED
    BY <1>1, <1>2, <1>4, <2>1 DEF Onward, RanIn, Task
<1>21. CASE InsertQueued(s, "line")
  <2> DEFINE q == QueuedJob(t.time, t.left \cup {t.ch.ns})
  <2>1. /\ Onward(s, [t EXCEPT !.pc = "settle", !.most = q], mem[s], entry')
        /\ t.pc = "insert" /\ result' = result
    BY <1>1, <1>21, GoOnChanges DEF InsertQueued, Onward, At
  <2>2. Exists(q)
    BY DEF QueuedJob, Exists, NoJob
  <2> HIDE DEF q
  <2> QED
    BY <1>1, <1>4, <2>1, <2>2 DEF Onward, RanIn, Task
<1>22. CASE JoinNamespace(s, "line")
  <2>1. PICK seen \in {spaces, spaces'} :
          GoOn(s, "line", [t EXCEPT !.pc = "settle", !.most.namespaces = seen])
    BY <1>22 DEF JoinNamespace
  <2> DEFINE u == [t EXCEPT !.pc = "settle", !.most.namespaces = seen]
  <2>2. Onward(s, u, mem[s], entry) /\ result' = result
    BY <1>1, <1>22, <2>1, GoOnChanges DEF JoinNamespace, Onward
  <2>3. u.pc = "settle" /\ u.most = [t.most EXCEPT !.namespaces = seen] /\ t.pc = "join"
    BY <1>1, <1>22 DEF Task, JoinNamespace, At
  <2>4. Exists(u.most) = Exists(t.most) /\ (Firm(t.most) => Firm(u.most))
    BY <1>1, <2>3, NamespacesKeep DEF Firm
  <2> HIDE DEF u
  <2> QED
    BY <1>4, <2>2, <2>3, <2>4 DEF Onward, RanIn
<1> QED
  BY <1>6, <1>7, <1>8, <1>9, <1>10, <1>11, <1>12, <1>13, <1>14, <1>15, <1>16, <1>17, <1>18, <1>19,
     <1>20, <1>21, <1>22, <1>23, <1>24, <1>25
  DEF TaskStep

\* No job gets old enough to be swept.
LEMMA NothingRemovable ==
  ASSUME now \in 0..MaxTime, KeepFor >= MaxTime, NEW j \in MaybeJob
  PROVE  ~IsJobRemovableFromQueue(j)
<1>1. Exists(j) => j.time \in 0..MaxTime
  BY DEF MaybeJob, AnyJob, Job, Exists
<1>2. MaxTime \in Nat /\ KeepFor \in Nat
  BY JobQueueAssumption
<1>3. Exists(j) => ~(now - j.time > KeepFor)
  BY <1>1, <1>2
<1> QED
  BY <1>3 DEF IsJobRemovableFromQueue

LEMMA NothingSwept ==
  ASSUME TypeOK, KeepFor >= MaxTime, NEW s \in Server, At(s, "sweep", "idle")
  PROVE  ~BeginSweep(s) /\ ~SweepStep(s)
BY NothingRemovable
DEF BeginSweep, SweepStep, RemoveNamespace, CountSwept, EraseEntry, EndSweep, At, TypeOK

\* What the other kinds of steps do to the sweep.
LEMMA SweepRests ==
  ASSUME Alone, TypeOK, KeepFor >= MaxTime, NothingHeard, NEW s \in Server,
         At(s, "sweep", "idle"), [Next]_vars
  PROVE  At(s, "sweep", "idle")'
<1>1. "sweep" \in Kinds /\ \A k \in {"line", "direct"} : k \in Kinds /\ "sweep" \in Kinds \ {k}
  BY DEF Kinds
<1>2. ASSUME NEW k \in {"line", "direct"}, TaskStep(s, k)
      PROVE  task'[s]["sweep"] = task[s]["sweep"]
  BY <1>1, <1>2, OthersRest
<1>3. CASE Apart(s)
  <2>1. task' = task
    BY <1>3
    DEF Apart, ClientAsks, WorkerAsks, RequeueJobsFromMissingWorkers, StateChange, Broadcast, Tick,
        vars
  <2> QED
    BY <2>1 DEF At
<1>4. CASE PastTheLine(s) \/ CheckNoNamespace(s) \/ ProcessJobStateChangeQueue(s)
  <2>1. task' = task \/ \E k \in {"line", "direct"} : \E t : GoOn(s, k, t)
    BY <1>4 DEF PastTheLine, Direct, BeginDirect, CheckNoNamespace, ProcessJobStateChangeQueue
  <2> QED
    BY <1>1, <2>1, GoOnChanges DEF At
<1>5. CASE Restart(s)
  BY <1>1, <1>5 DEF Restart, TypeOK, Idle, At
<1> QED
  BY <1>2, <1>3, <1>4, <1>5, NothingSwept, StepsAlone DEF ServerStep, At

LEMMA RanStep ==
  ASSUME Alone, KeepFor >= MaxTime, TypeOK, NothingHeard, RanOnce,
         OnlyTheLine, OnlyTheLine', [Next]_vars
  PROVE  RanOnce'
<1>1. SUFFICES ASSUME restarts' = 0, NEW s \in Server
               PROVE  RanIn(task'[s]["line"], mem'[s], entry', result') /\ At(s, "sweep", "idle")'
  BY DEF RanOnce
<1>2. restarts \in Nat /\ ~Restart(s)
  BY <1>1 DEF TypeOK, Restart
<1>3. restarts = 0
  BY <1>1, <1>2, StepsAlone
  DEF ServerStep, Apart, PastTheLine, Direct, ClientAsks, WorkerAsks, RequeueJobsFromMissingWorkers,
      StateChange, Broadcast, Tick, vars, env, CheckNoNamespace, ProcessJobStateChangeQueue,
      TaskStep, BeginSweep, SweepStep, LoadMissingJob, LookForResult, DecideResult, StoreResult,
      RequeueJob, ListQueues, SpreadResult, ListNamespaces, ReleaseNamespace, CountNamespaces,
      DeleteFinishedJob, DropOrKeep, Settle, DecideRunning, FetchRunning, StoreRunning,
      ReadForEnqueue, LookupResult, InsertQueued, JoinNamespace, RemoveNamespace, CountSwept,
      EraseEntry, EndSweep
<1> DEFINE t == task[s]["line"]
<1>4. RanIn(t, mem[s], entry, result) /\ At(s, "sweep", "idle") /\ mem[s] \in MaybeJob
  BY <1>3 DEF RanOnce, TypeOK
<1>5. At(s, "sweep", "idle")'
  BY <1>4, SweepRests
<1>6. CASE TaskStep(s, "line")
  BY <1>4, <1>5, <1>6, RanLine
<1>7. CASE \/ Apart(s) \/ PastTheLine(s) \/ CheckNoNamespace(s) \/ TaskStep(s, "direct")
  <2>1. /\ task'[s]["line"] = t /\ entry' = entry /\ result' = result
        /\ \/ mem'[s] = mem[s]
           \/ mem'[s] = [mem[s] EXCEPT !.namespaces = spaces] /\ Exists(mem[s])
    BY <1>4, <1>7, BesideTheLine, NothingSwept DEF SweepStep
  <2>2. Exists(mem'[s]) = Exists(mem[s]) /\ (Firm(mem[s]) => Firm(mem'[s]))
    BY <1>4, <2>1, NamespacesKeep DEF Firm
  <2> QED
    BY <1>4, <1>5, <2>1, <2>2 DEF RanIn
<1>8. CASE ProcessJobStateChangeQueue(s)
  <2> DEFINE c == Head(line[s])
             u == [Idle EXCEPT !.pc = "start", !.ch = c.ch, !.time = c.time]
  <2>1. "line" \in Kinds
    BY DEF Kinds
  <2>2. Onward(s, u, mem[s], entry) /\ t.pc = "idle" /\ result' = result
    BY <1>8, <2>1, GoOnChanges DEF ProcessJobStateChangeQueue, Onward, At, db
  <2>3. u.pc = "start"
    BY DEF Idle
  <2> HIDE DEF u
  <2> QED
    BY <1>4, <1>5, <2>2, <2>3 DEF Onward, RanIn
<1> QED
  BY <1>2, <1>4, <1>6, <1>7, <1>8, NothingSwept, StepsAlone DEF ServerStep

\* "We need to check if the job is finished" (db.ts, 180): on one server whose
\* changes all wait in line, a job whose stored result is a success or an error
\* is never again held as queued or running by the idle server, whatever was
\* submitted, cancelled, replaced or deleted in between.  It is about a server
\* that has not restarted, and until the first sweep: a worker's loss that waits
\* in line until the job has been swept queues the job again.
THEOREM FinishedNotRunAgain ==
  ASSUME Alone, KeepFor >= MaxTime
  PROVE  Spec /\ []OnlyTheLine => []NotRunAgain
<1> DEFINE Inv == TypeOK /\ NothingHeard /\ RanOnce
<1>1. Init => Inv
  <2> SUFFICES ASSUME Init
               PROVE  Inv
    OBVIOUS
  <2>1. NothingHeard
    BY DEF Init, NothingHeard, Hears, At, Kinds, Idle
  <2>2. RanOnce
    <3>1. ~Lasts(NoJob)
      BY DEF Lasts, IsFinishedFor, NoJob
    <3> QED
      BY <3>1 DEF Init, RanOnce, RanIn, Exists, At, Kinds, Idle
  <2> QED
    BY <2>1, <2>2, TypeInit
<1>2. Inv /\ OnlyTheLine /\ OnlyTheLine' /\ [Next]_vars => Inv'
  BY TypeStep, NothingHeardStep, RanStep
<1>3. Inv => NotRunAgain
  <2> SUFFICES ASSUME RanOnce, restarts = 0, NEW s \in Server, AtRest(s), Wanted(mem[s]),
                      IsFinishedFor(result, Lasting)
               PROVE  FALSE
    BY DEF NotRunAgain
  <2>1. task[s]["line"].pc = "idle"
    BY DEF AtRest, At, Kinds
  <2>2. Firm(mem[s])
    BY <2>1 DEF RanOnce, RanIn, Lasts
  <2> QED
    BY <2>2, FirmKeeps DEF Wanted
<1> QED
  BY <1>1, <1>2, <1>3, PTL DEF Spec


-----------------------------------------------------------------------------
(* Memory says what the database says, before the first sweep and while    *)
(* nobody takes the job out of the queue.                                  *)

TakesOut == {"Cancelled", "JobReplacedByClient", "Deleted"}

\* Nobody cancels, replaces or deletes the job, and nobody submits it past the line.
NobodyTakesOut == Posted = {} /\ \A c \in Asked : c.why \notin TakesOut

\* No change of the line takes the job out.
StaysIn(s) ==
  /\ task[s]["line"].ch.why \notin TakesOut
  /\ \A i \in 1..Len(line[s]) : line[s][i].ch.why \notin TakesOut

\* Between two changes memory and the queue hold the same job if it is still to
\* be run; a change that has written the queue holds what it will leave in
\* memory, and one that has only set the memory is about to write the queue.
MirrorsIn(t, m, e, r, held) ==
  /\ Exists(e) => held # {}
  /\ Exists(r) => Exists(e) /\ ~IsUnfinished(r)
  /\ m.state # "Removed" /\ e.state # "Removed" /\ r.state # "Removed"
  /\ t.pc # "settle" => (Exists(m) <=> Exists(e))
  /\ t.pc \in {"settle", "spread", "write", "persist", "join", "fetch", "store"} => Exists(e)
  /\ t.pc \in {"settle", "spread", "write", "persist", "join"} =>
       Exists(t.most) /\ t.most.state # "Removed"
  /\ t.pc = "persist" => ~IsUnfinished(t.most)
  /\ t.pc = "decide" => ~Exists(m) /\ ~Exists(t.got)
  /\ t.pc \notin {"apply", "release", "recheck", "drop", "dropped"}
  /\ t.pc \notin {"settle", "fetch", "store"} /\ IsUnfinished(m) => SameJob(m, e)
  /\ t.pc \in {"settle", "join"} /\ IsUnfinished(t.most) => SameJob(t.most, e)
  /\ t.pc = "fetch" => IsUnfinished(e)
  /\ t.pc = "store" => IsUnfinished(t.got)
  /\ t.pc \in {"fetch", "store"} =>
       m.state = "Running" /\ m.reason = NoReason /\ m.worker = t.ch.worker

Mirrors ==
  \A s \in Server :
    /\ StaysIn(s)
    /\ MirrorsIn(task[s]["line"], mem[s], entry, result, spaces)
    /\ At(s, "sweep", "idle") /\ At(s, "direct", "idle")

LEMMA StaysInAsks ==
  ASSUME TypeOK, NEW s \in Server, StaysIn(s), NEW c \in Change, c.why \notin TakesOut,
         StateChange(s, c)
  PROVE  StaysIn(s)'
<1> DEFINE w == [ch |-> c, time |-> now]
<1>1. line[s] \in Seq(Waiting) /\ w \in Waiting
  BY DEF TypeOK, Waiting
<1>2. /\ Len(Append(line[s], w)) = Len(line[s]) + 1 /\ Len(line[s]) \in Nat
      /\ \A i \in 1..Len(line[s]) : Append(line[s], w)[i] = line[s][i]
      /\ Append(line[s], w)[Len(line[s]) + 1] = w
  BY <1>1
<1>3. \A i \in 1..Len(Append(line[s], w)) : Append(line[s], w)[i].ch.why \notin TakesOut
  <2> TAKE i \in 1..Len(Append(line[s], w))
  <2>1. CASE i \in 1..Len(line[s])
    BY <1>2, <2>1 DEF StaysIn
  <2>2. CASE i = Len(line[s]) + 1
    BY <1>2, <2>2
  <2> QED
    BY <1>2, <2>1, <2>2
<1>4. line'[s] = Append(line[s], w) /\ task' = task
  BY DEF StateChange, TypeOK
<1> HIDE DEF w
<1> QED
  BY <1>3, <1>4 DEF StaysIn

\* A step of a task keeps its change, until the task ends.
LEMMA StepKeepsChange ==
  ASSUME TypeOK, NEW s \in Server, NEW k \in Kinds, TaskStep(s, k)
  PROVE  task'[s][k].ch \in {Idle.ch, task[s][k].ch}
<1> DEFINE t == task[s][k]
           Same(v) == v.ch = t.ch
<1>1. t \in Task
  BY TaskParts
<1> DEFINE Goal == task'[s][k].ch \in {Idle.ch, t.ch}
<1> SUFFICES Goal
  OBVIOUS
<1>2. ASSUME NEW v, GoOn(s, k, v), Same(v)
      PROVE  Goal
  BY <1>2, GoOnChanges
<1>3. ASSUME End(s, k)
      PROVE  Goal
  BY <1>3, EndChanges
<1>4. CASE LoadMissingJob(s, k) \/ FetchRunning(s, k)
  <2>1. \A pc, j : Same([t EXCEPT !.pc = pc, !.got = j])
    BY <1>1 DEF Task
  <2> HIDE DEF Goal, Same
  <2> QED
    BY <1>2, <1>4, <2>1 DEF LoadMissingJob, FetchRunning
<1>5. CASE \/ LookForResult(s, k) \/ StoreResult(s, k) \/ SpreadResult(s, k)
           \/ DeleteFinishedJob(s, k) \/ Settle(s, k) \/ StoreRunning(s, k)
  <2>1. \A pc : Same([t EXCEPT !.pc = pc])
    BY <1>1 DEF Task
  <2> HIDE DEF Goal, Same
  <2> QED
    BY <1>2, <1>3, <1>5, <2>1
    DEF LookForResult, StoreResult, SpreadResult, DeleteFinishedJob, Settle, StoreRunning
<1>6. CASE ListQueues(s, k)
  <2> DEFINE pc == IF spaces = {} THEN "settle" ELSE "write"
  <2>1. GoOn(s, k, [t EXCEPT !.pc = pc])
    BY <1>6 DEF ListQueues
  <2>2. Same([t EXCEPT !.pc = pc])
    BY <1>1 DEF Task
  <2> HIDE DEF Goal, Same, pc
  <2> QED
    BY <1>2, <2>1, <2>2
<1>7. CASE DecideResult(s, k) \/ RequeueJob(s, k) \/ DropOrKeep(s, k) \/ InsertQueued(s, k)
  <2>1. \A pc, j : Same([t EXCEPT !.pc = pc, !.most = j])
    BY <1>1 DEF Task
  <2> HIDE DEF Goal, Same
  <2> QED
    BY <1>2, <1>3, <1>7, <2>1 DEF DecideResult, RequeueJob, DropOrKeep, InsertQueued
<1>8. CASE ListNamespaces(s, k)
  <2>1. \A pc, left, j, m : Same([t EXCEPT !.pc = pc, !.left = left, !.job = j, !.most = m])
    BY <1>1 DEF Task
  <2>2. \E pc, left, j, m : GoOn(s, k, [t EXCEPT !.pc = pc, !.left = left, !.job = j, !.most = m])
    BY <1>8, Zenon DEF ListNamespaces
  <2> HIDE DEF Goal, Same
  <2> QED
    BY <1>2, <2>1, <2>2
<1>13. CASE ReleaseNamespace(s, k)
  <2>1. \A pc, left : Same([t EXCEPT !.left = left, !.pc = pc])
    BY <1>1 DEF Task
  <2>2. PICK ns : GoOn(s, k, [t EXCEPT !.left = t.left \ {ns},
                                !.pc = IF t.left = {ns} THEN "recheck" ELSE "release"])
    BY <1>1, <1>13 DEF ReleaseNamespace, Task
  <2> HIDE DEF Goal, Same
  <2> QED
    BY <1>2, <2>1, <2>2
<1>14. CASE DecideRunning(s, k)
  <2> DEFINE pc == IF spaces = {} THEN "store" ELSE "fetch"
  <2>1. End(s, k) \/ GoOn(s, k, [t EXCEPT !.got = NoJob, !.pc = pc])
    BY <1>14 DEF DecideRunning
  <2>2. Same([t EXCEPT !.got = NoJob, !.pc = pc])
    BY <1>1 DEF Task
  <2> HIDE DEF Goal, Same, pc
  <2> QED
    BY <1>2, <1>3, <2>1, <2>2
<1>9. CASE CountNamespaces(s, k)
  <2>1. \A left : Same([t EXCEPT !.pc = "drop", !.left = left])
    BY <1>1 DEF Task
  <2> HIDE DEF Goal, Same
  <2> QED
    BY <1>2, <1>3, <1>9, <2>1 DEF CountNamespaces
<1>10. CASE ReadForEnqueue(s, k)
  <2> DEFINE w == [t EXCEPT !.time = now, !.left = spaces]
  <2>1. (\A j : Same([w EXCEPT !.pc = "join", !.most = j])) /\ Same([w EXCEPT !.pc = "lookup"])
    BY <1>1 DEF Task
  <2> HIDE DEF Goal, Same
  <2>2. ASSUME NEW job, GoOn(s, k, [w EXCEPT !.pc = "join", !.most = job])
        PROVE  Goal
    BY <1>2, <2>1, <2>2
  <2>3. CASE GoOn(s, k, [w EXCEPT !.pc = "lookup"])
    BY <1>2, <2>1, <2>3
  <2> QED
    BY <1>10, <2>2, <2>3 DEF ReadForEnqueue
<1>11. CASE LookupResult(s, k)
  <2>1. Same([t EXCEPT !.pc = "join", !.most = result]) /\ Same([t EXCEPT !.pc = "insert"])
    BY <1>1 DEF Task
  <2> HIDE DEF Goal, Same
  <2> QED
    BY <1>2, <1>11, <2>1 DEF LookupResult
<1>12. CASE JoinNamespace(s, k)
  <2>1. \A seen : Same([t EXCEPT !.pc = "settle", !.most.namespaces = seen])
    BY <1>1 DEF Task
  <2> HIDE DEF Goal, Same
  <2> QED
    BY <1>2, <1>12, <2>1 DEF JoinNamespace
<1> QED
  BY <1>4, <1>5, <1>6, <1>7, <1>8, <1>9, <1>10, <1>11, <1>12, <1>13, <1>14 DEF TaskStep

LEMMA StaysInStep ==
  ASSUME Alone, NobodyTakesOut, TypeOK, NothingHeard, NEW s \in Server, StaysIn(s),
         At(s, "sweep", "idle"), At(s, "direct", "idle"), [Next]_vars
  PROVE  StaysIn(s)'
<1>1. "line" \in Kinds /\ "direct" \in Kinds /\ "sweep" \in Kinds /\ "line" \in Kinds \ {"direct"}
      /\ "line" \in Kinds \ {"sweep"} /\ Idle.ch.why = NoReason /\ NoReason \notin TakesOut
  BY DEF Kinds, Idle, Enqueue, NoReason, TakesOut
<1>2. CASE TaskStep(s, "line")
  <2>1. task'[s]["line"].ch \in {Idle.ch, task[s]["line"].ch}
    BY <1>1, <1>2, StepKeepsChange
  <2>2. line' = line
    BY <1>2
    DEF TaskStep, LoadMissingJob, LookForResult, DecideResult, StoreResult, RequeueJob,
        ListQueues, SpreadResult, ListNamespaces, ReleaseNamespace, CountNamespaces,
        DeleteFinishedJob, DropOrKeep, Settle, DecideRunning, FetchRunning, StoreRunning,
        ReadForEnqueue, LookupResult, InsertQueued, JoinNamespace
  <2> QED
    BY <1>1, <2>1, <2>2 DEF StaysIn
<1>3. CASE Apart(s)
  <2>1. ASSUME NEW c \in Asked, ClientAsks(s, c) \/ WorkerAsks(s, c)
        PROVE  StaysIn(s)'
    BY <2>1, StaysInAsks, JobQueueAssumption DEF ClientAsks, WorkerAsks, NobodyTakesOut
  <2>2. CASE RequeueJobsFromMissingWorkers(s)
    <3>1. /\ Finish("WorkerLost", DefaultNamespace) \in Change
          /\ Finish("WorkerLost", DefaultNamespace).why \notin TakesOut
      BY ChangeKinds, SpecialReasons, JobQueueAssumption DEF Finish, TakesOut
    <3> QED
      BY <2>2, <3>1, StaysInAsks DEF RequeueJobsFromMissingWorkers
  <2>3. CASE Broadcast(s) \/ Tick \/ UNCHANGED vars
    BY <2>3 DEF Broadcast, Tick, vars, StaysIn
  <2> QED
    BY <1>3, <2>1, <2>2, <2>3 DEF Apart
<1>4. ~PastTheLine(s)
  BY DEF PastTheLine, NobodyTakesOut
<1>5. CASE CheckNoNamespace(s) \/ BeginSweep(s) \/ SweepStep(s)
  <2>1. line' = line /\ (task' = task \/ \E k \in {"direct", "sweep"} : \E t : GoOn(s, k, t))
    BY <1>5
    DEF CheckNoNamespace, BeginDirect, BeginSweep, SweepStep, RemoveNamespace, CountSwept,
        EraseEntry, EndSweep, End
  <2>2. task'[s]["line"] = task[s]["line"]
    BY <1>1, <2>1, GoOnChanges
  <2> QED
    BY <2>1, <2>2 DEF StaysIn
<1>6. CASE ProcessJobStateChangeQueue(s)
  <2> DEFINE c == Head(line[s])
             u == [Idle EXCEPT !.pc = "start", !.ch = c.ch, !.time = c.time]
  <2>1. line[s] \in Seq(Waiting) /\ line[s] # <<>>
    BY <1>6 DEF TypeOK, ProcessJobStateChangeQueue
  <2>2. /\ Len(line[s]) \in Nat \ {0}
        /\ c = line[s][1]
        /\ Len(Tail(line[s])) = Len(line[s]) - 1
        /\ \A i \in 1..Len(Tail(line[s])) : Tail(line[s])[i] = line[s][i + 1]
    BY <2>1
  <2>3. c.ch.why \notin TakesOut
    BY <2>2 DEF StaysIn
  <2>4. task'[s]["line"] = u /\ line'[s] = Tail(line[s])
    BY <1>1, <1>6, GoOnChanges DEF ProcessJobStateChangeQueue, TypeOK
  <2>5. u.ch = c.ch
    BY DEF Idle
  <2>6. \A i \in 1..Len(Tail(line[s])) : Tail(line[s])[i].ch.why \notin TakesOut
    BY <2>2 DEF StaysIn
  <2> HIDE DEF c, u
  <2> QED
    BY <2>3, <2>4, <2>5, <2>6 DEF StaysIn
<1>7. CASE Restart(s)
  <2>1. line'[s] = <<>> /\ task'[s]["line"] = Idle /\ Len(<<>>) = 0
    BY <1>1, <1>7 DEF Restart, TypeOK
  <2> QED
    BY <1>1, <2>1 DEF StaysIn
<1> QED
  BY <1>1, <1>2, <1>3, <1>4, <1>5, <1>6, <1>7, IdleRests, StepsAlone DEF ServerStep

\* What the steps of the change at the head of the line leave.
LEMMA MirrorsLine ==
  ASSUME TypeOK, NEW s \in Server, StaysIn(s),
         MirrorsIn(task[s]["line"], mem[s], entry, result, spaces), TaskStep(s, "line")
  PROVE  MirrorsIn(task'[s]["line"], mem'[s], entry', result', spaces')
<1> DEFINE t == task[s]["line"]
           f == FinishedJob(s, "line")
           Goal == MirrorsIn(task'[s]["line"], mem'[s], entry', result', spaces')
<1> SUFFICES Goal
  OBVIOUS
<1>1. /\ "line" \in Kinds /\ t \in Task /\ mem[s] \in MaybeJob
      /\ entry \in MaybeJob /\ result \in MaybeJob
      /\ t.job \in MaybeJob /\ t.most \in MaybeJob /\ t.got \in MaybeJob
      /\ t.time \in 0..MaxTime
  BY TaskParts DEF Kinds, TypeOK
<1>2. /\ ~Exists(NoJob) /\ ~IsUnfinished(NoJob) /\ NoJob.state # "Removed"
      /\ \A j : IsUnfinished(j) => Exists(j)
  BY DEF NoJob, Exists, IsUnfinished
<1>3. Idle.pc = "idle"
  BY DEF Idle
<1>4. MirrorsIn(t, mem[s], entry, result, spaces)
  OBVIOUS
<1>5. /\ Known(s, "line") = mem[s]
      /\ Applying(s, "line") => /\ GivenJob(s, "line") = mem[s] /\ Exists(mem[s])
                                /\ t.pc = "start" /\ Exists(entry)
                                /\ f = SetFinished(mem[s], t.ch.why, t.time)
      /\ ~LookForResult(s, "line") \/ End(s, "line")
  <2>1. /\ t.pc = "decide" => ~Exists(mem[s]) /\ ~Exists(t.got)
        /\ t.pc # "apply"
        /\ t.pc # "settle" => (Exists(mem[s]) <=> Exists(entry))
        /\ Exists(result) => Exists(entry)
    BY <1>4 DEF MirrorsIn
  <2>2. Known(s, "line") = mem[s]
    BY <2>1 DEF Known, At
  <2>3. Applying(s, "line") => GivenJob(s, "line") = mem[s] /\ Exists(mem[s]) /\ t.pc = "start"
    BY <2>1, <2>2 DEF Applying, Deciding, At, GivenJob
  <2>4. ~LookForResult(s, "line") \/ End(s, "line")
    BY <2>1, <2>2 DEF LookForResult, Deciding, At
  <2> QED
    BY <2>1, <2>2, <2>3, <2>4 DEF FinishedJob
<1>6. CASE LoadMissingJob(s, "line")
  <2>1. /\ Onward(s, [t EXCEPT !.pc = "decide", !.got = QueueJobGet], mem[s], entry)
        /\ t.pc = "start" /\ ~Exists(mem[s]) /\ result' = result /\ spaces' = spaces
    BY <1>1, <1>6, GoOnChanges DEF LoadMissingJob, Onward, At, db
  <2>2. QueueJobGet = NoJob
    BY <1>4, <2>1 DEF MirrorsIn, QueueJobGet
  <2> QED
    BY <1>1, <1>2, <1>4, <2>1, <2>2 DEF Onward, MirrorsIn, Task
<1>7. CASE LookForResult(s, "line")
  <2>1. Onward(s, Idle, mem[s], entry) /\ result' = result /\ spaces' = spaces
    BY <1>1, <1>5, <1>7, EndChanges DEF LookForResult, Onward, db
  <2>2. t.pc \in {"start", "decide"}
    BY <1>7 DEF LookForResult, Deciding, At
  <2> QED
    BY <1>3, <1>4, <2>1, <2>2 DEF Onward, MirrorsIn
<1>8. CASE DecideResult(s, "line")
  <2>1. /\ \/ Onward(s, Idle, mem[s], entry)
           \/ Onward(s, [t EXCEPT !.pc = "persist", !.most = f], mem[s], entry)
        /\ result' = result /\ spaces' = spaces /\ t.pc = "start" /\ Exists(entry)
    BY <1>1, <1>5, <1>8, GoOnChanges, EndChanges, SetMemChanges DEF DecideResult, Onward, db
  <2>2. Exists(f) /\ ~IsUnfinished(f) /\ f.state = "Finished"
    BY <1>1, <1>5, <1>8, FinishedMade, SpecialReasons DEF DecideResult
  <2> HIDE DEF f
  <2> QED
    BY <1>1, <1>3, <1>4, <2>1, <2>2 DEF Onward, MirrorsIn, Task
<1>9. CASE StoreResult(s, "line")
  <2>1. /\ Onward(s, [t EXCEPT !.pc = "spread"], mem[s], entry) /\ t.pc = "persist"
        /\ result' = t.most /\ spaces' = spaces
    BY <1>1, <1>9, GoOnChanges DEF StoreResult, Onward, At
  <2> QED
    BY <1>1, <1>4, <2>1 DEF Onward, MirrorsIn, Task
<1>10. CASE RequeueJob(s, "line")
  <2> DEFINE q == SetQueued(f, t.time)
  <2>1. /\ \/ Onward(s, Idle, mem[s], entry)
           \/ Onward(s, [t EXCEPT !.pc = "spread", !.most = q], mem[s], entry)
        /\ result' = result /\ spaces' = spaces /\ t.pc = "start" /\ Exists(entry)
    BY <1>1, <1>5, <1>10, GoOnChanges, EndChanges, SetMemChanges DEF RequeueJob, Onward, db
  <2>2. Exists(q) /\ q.state = "Queued"
    BY DEF SetQueued, QueuedJob, Exists, NoJob
  <2> HIDE DEF q
  <2> QED
    BY <1>1, <1>3, <1>4, <2>1, <2>2 DEF Onward, MirrorsIn, Task
<1>11. CASE SpreadResult(s, "line")
  <2>1. /\ Onward(s, [t EXCEPT !.pc = "settle"], mem[s], t.most)
        /\ t.pc = "write" /\ result' = result /\ spaces' = spaces
    BY <1>1, <1>11, GoOnChanges DEF SpreadResult, Onward, At
  <2>2. SameJob(t.most, t.most)
    BY DEF SameJob
  <2> QED
    BY <1>1, <1>4, <2>1, <2>2 DEF Onward, MirrorsIn, Task
<1>21. CASE ListQueues(s, "line")
  <2>1. t.pc = "spread" /\ spaces # {}
    BY <1>4, <1>21 DEF ListQueues, At, MirrorsIn
  <2>2. Onward(s, [t EXCEPT !.pc = "write"], mem[s], entry) /\ result' = result /\ spaces' = spaces
    BY <1>1, <1>21, <2>1, GoOnChanges DEF ListQueues, Onward, db
  <2> QED
    BY <1>1, <1>4, <2>1, <2>2 DEF Onward, MirrorsIn, Task
<1>12. ~ListNamespaces(s, "line") /\ ~ReleaseNamespace(s, "line")
  BY <1>4 DEF ListNamespaces, ReleaseNamespace, StaysIn, TakesOut, At, MirrorsIn
<1>13. ~CountNamespaces(s, "line") /\ ~DeleteFinishedJob(s, "line") /\ ~DropOrKeep(s, "line")
  BY <1>4 DEF CountNamespaces, DeleteFinishedJob, DropOrKeep, At, MirrorsIn
<1>14. CASE Settle(s, "line")
  <2>1. /\ Onward(s, Idle, t.most, entry) /\ t.pc = "settle"
        /\ result' = result /\ spaces' = spaces
    BY <1>1, <1>14, EndChanges, SetMemChanges DEF Settle, Onward, At, db
  <2> QED
    BY <1>3, <1>4, <2>1 DEF Onward, MirrorsIn
<1>15. CASE DecideRunning(s, "line")
  <2> DEFINE new == SetRunning(mem[s], t.ch.worker, t.time)
             u   == [t EXCEPT !.got = NoJob, !.pc = IF spaces = {} THEN "store" ELSE "fetch"]
  <2>1. t.pc \in {"start", "decide"}
    BY <1>15 DEF DecideRunning, Deciding, At
  <2>2. /\ \/ Onward(s, Idle, mem[s], entry)
           \/ /\ Onward(s, u, new, entry)
              /\ Exists(mem[s]) /\ ~KeepsFirst(mem[s], new)
        /\ result' = result /\ spaces' = spaces
    BY <1>1, <1>5, <1>15, GoOnChanges, EndChanges, SetMemChanges
    DEF DecideRunning, Onward, db
  <2>3. ASSUME Exists(mem[s]), ~KeepsFirst(mem[s], new)
        PROVE  /\ Exists(new) /\ Exists(entry) /\ IsUnfinished(entry) /\ spaces # {}
               /\ new.state = "Running" /\ new.reason = NoReason /\ new.worker = t.ch.worker
    <3>1. mem[s] \in AnyJob
      BY <1>1, <2>3 DEF MaybeJob, Exists
    <3>2. new.state = "Running" /\ new.reason = NoReason /\ new.worker = t.ch.worker
      BY <3>1 DEF AnyJob, Job, SetRunning
    <3>3. mem[s].state \notin {"Finished", "Removed"}
      <4> HIDE DEF new
      <4>1. mem[s].state # "Finished"
        BY <2>3, <3>2 DEF KeepsFirst, FinishedKeeps, Exists, NoJob
      <4> QED
        BY <1>4, <4>1 DEF MirrorsIn
    <3>4. IsUnfinished(mem[s])
      BY <3>1, <3>3 DEF AnyJob, Job, IsUnfinished
    <3>5. Exists(entry) /\ SameJob(mem[s], entry) /\ spaces # {}
      BY <1>4, <2>1, <2>3, <3>4 DEF MirrorsIn
    <3>6. IsUnfinished(entry)
      BY <3>4, <3>5 DEF SameJob, IsUnfinished
    <3> HIDE DEF new
    <3>7. Exists(new)
      BY <3>2 DEF Exists, NoJob
    <3> QED
      BY <3>2, <3>5, <3>6, <3>7
  <2>4. ASSUME Onward(s, u, new, entry), Exists(mem[s]), ~KeepsFirst(mem[s], new)
        PROVE  Goal
    <3>1. /\ Exists(new) /\ Exists(entry) /\ IsUnfinished(entry) /\ spaces # {}
          /\ new.state = "Running" /\ new.reason = NoReason /\ new.worker = t.ch.worker
      BY <2>3, <2>4
    <3>2. u.pc = "fetch" /\ u.ch = t.ch
      BY <1>1, <3>1 DEF Task
    <3>3. task'[s]["line"] = u /\ mem'[s] = new /\ entry' = entry
      BY <2>4 DEF Onward
    <3>4. result' = result /\ spaces' = spaces
      BY <2>2
    <3> HIDE DEF u, new
    <3> QED
      BY <1>4, <3>1, <3>2, <3>3, <3>4 DEF MirrorsIn
  <2>5. ASSUME Onward(s, Idle, mem[s], entry)
        PROVE  Goal
    BY <1>3, <1>4, <2>1, <2>2, <2>5 DEF Onward, MirrorsIn
  <2> QED
    BY <2>2, <2>4, <2>5
<1>22. CASE FetchRunning(s, "line")
  <2> DEFINE u == [t EXCEPT !.pc = "store", !.got = QueueJobGet]
  <2>1. /\ Onward(s, u, mem[s], entry)
        /\ t.pc = "fetch" /\ result' = result /\ spaces' = spaces
    BY <1>1, <1>22, GoOnChanges DEF FetchRunning, Onward, At, db
  <2>2. u.pc = "store" /\ u.got = QueueJobGet /\ u.ch = t.ch
    BY <1>1 DEF Task
  <2>3. IsUnfinished(QueueJobGet)
    BY <1>4, <2>1, GetKeeps DEF MirrorsIn
  <2> HIDE DEF u
  <2> QED
    BY <1>4, <2>1, <2>2, <2>3 DEF Onward, MirrorsIn
<1>16. CASE StoreRunning(s, "line")
  <2> DEFINE e == SetRunning(t.got, t.ch.worker, t.time)
  <2>1. t.pc = "store"
    BY <1>16 DEF StoreRunning, At
  <2>2. /\ IsUnfinished(t.got) /\ Exists(mem[s])
        /\ mem[s].state = "Running" /\ mem[s].reason = NoReason /\ mem[s].worker = t.ch.worker
    BY <1>4, <2>1 DEF MirrorsIn
  <2>3. t.got \in AnyJob /\ Exists(t.got) /\ t.got.state # "Finished"
    BY <1>1, <1>2, <2>2 DEF MaybeJob, IsUnfinished, Exists
  <2>4. Onward(s, Idle, mem[s], e) /\ result' = result /\ spaces' = spaces
    BY <1>1, <1>16, <2>3, EndChanges DEF StoreRunning, Onward
  <2>5. e.state = "Running" /\ e.reason = NoReason /\ e.worker = t.ch.worker
    BY <2>3 DEF AnyJob, Job, SetRunning
  <2> HIDE DEF e
  <2>6. Exists(e) /\ SameJob(mem[s], e)
    BY <2>2, <2>5 DEF Exists, NoJob, SameJob
  <2> QED
    BY <1>3, <1>4, <2>1, <2>2, <2>4, <2>5, <2>6 DEF Onward, MirrorsIn
<1>17. CASE ReadForEnqueue(s, "line")
  <2> DEFINE job == IF Exists(mem[s]) THEN mem[s] ELSE QueueJobGet
             u   == [t EXCEPT !.time = now, !.left = spaces]
  <2>1. t.pc = "start"
    BY <1>17 DEF ReadForEnqueue, At
  <2>2. Exists(job) => job = mem[s]
    BY <1>2, <1>4, <2>1 DEF MirrorsIn, QueueJobGet
  <2>3. /\ \/ Exists(job) /\ Onward(s, [u EXCEPT !.pc = "join", !.most = job], mem[s], entry)
           \/ Onward(s, [u EXCEPT !.pc = "lookup"], mem[s], entry)
        /\ result' = result /\ spaces' = spaces
    BY <1>1, <1>17, GoOnChanges DEF ReadForEnqueue, Onward, db
  <2>4. /\ [u EXCEPT !.pc = "join", !.most = job].pc = "join"
        /\ [u EXCEPT !.pc = "join", !.most = job].most = job
        /\ [u EXCEPT !.pc = "lookup"].pc = "lookup"
    BY <1>1 DEF Task
  <2> HIDE DEF u, job
  <2> QED
    BY ZenonT(60), <1>4, <2>1, <2>2, <2>3, <2>4 DEF Onward, MirrorsIn
<1>18. CASE LookupResult(s, "line")
  <2>1. /\ \/ /\ Onward(s, [t EXCEPT !.pc = "join", !.most = result], mem[s], entry)
              /\ Exists(result)
           \/ Onward(s, [t EXCEPT !.pc = "insert"], mem[s], entry)
        /\ result' = result /\ spaces' = spaces /\ t.pc = "lookup"
    BY <1>1, <1>18, GoOnChanges DEF LookupResult, Onward, At, db
  <2> QED
    BY ZenonT(60), <1>1, <1>4, <2>1 DEF Onward, MirrorsIn, Task
<1>19. CASE InsertQueued(s, "line")
  <2> DEFINE q == QueuedJob(t.time, t.left \cup {t.ch.ns})
  <2>1. /\ Onward(s, [t EXCEPT !.pc = "settle", !.most = q], mem[s], q)
        /\ t.pc = "insert" /\ result' = result /\ spaces' # {}
    BY <1>1, <1>19, GoOnChanges DEF InsertQueued, Onward, At
  <2>2. Exists(q) /\ q.state = "Queued" /\ SameJob(q, q)
    BY DEF QueuedJob, Exists, NoJob, SameJob
  <2> HIDE DEF q
  <2> QED
    BY <1>1, <1>4, <2>1, <2>2 DEF Onward, MirrorsIn, Task
<1>20. CASE JoinNamespace(s, "line")
  <2>1. PICK seen \in {spaces, spaces'} :
          GoOn(s, "line", [t EXCEPT !.pc = "settle", !.most.namespaces = seen])
    BY <1>20 DEF JoinNamespace
  <2> DEFINE u == [t EXCEPT !.pc = "settle", !.most.namespaces = seen]
  <2>2. Onward(s, u, mem[s], entry) /\ result' = result /\ spaces' # {}
    BY <1>1, <1>20, <2>1, GoOnChanges DEF JoinNamespace, Onward
  <2>3. u.pc = "settle" /\ u.most = [t.most EXCEPT !.namespaces = seen] /\ t.pc = "join"
    BY <1>1, <1>20 DEF Task, JoinNamespace, At
  <2>4. /\ Exists(u.most) = Exists(t.most) /\ u.most.state = t.most.state
        /\ IsUnfinished(u.most) = IsUnfinished(t.most)
        /\ Exists(t.most) => u.most.reason = t.most.reason /\ u.most.worker = t.most.worker
    <3> HIDE DEF u
    <3> DEFINE k == [t.most EXCEPT !.namespaces = seen]
    <3>1. /\ Exists(k) = Exists(t.most) /\ k.state = t.most.state
          /\ IsUnfinished(k) = IsUnfinished(t.most)
          /\ Exists(t.most) => k.reason = t.most.reason /\ k.worker = t.most.worker
      BY <1>1, NamespacesKeep
    <3> HIDE DEF k
    <3> QED
      BY <2>3, <3>1 DEF k
  <2>5. Exists(t.most) /\ SameJob(t.most, entry) => SameJob(u.most, entry)
    BY <2>4 DEF SameJob
  <2> HIDE DEF u
  <2> QED
    BY <1>4, <2>2, <2>3, <2>4, <2>5 DEF Onward, MirrorsIn
<1> QED
  BY <1>6, <1>7, <1>8, <1>9, <1>10, <1>11, <1>12, <1>13, <1>14, <1>15, <1>16, <1>17, <1>18, <1>19,
     <1>20, <1>21, <1>22
  DEF TaskStep

LEMMA MirrorsStep ==
  ASSUME Alone, NobodyTakesOut, KeepFor >= MaxTime, TypeOK, NothingHeard, Mirrors, [Next]_vars
  PROVE  Mirrors'
<1>1. SUFFICES ASSUME NEW s \in Server
               PROVE  /\ StaysIn(s)'
                      /\ MirrorsIn(task'[s]["line"], mem'[s], entry', result', spaces')
                      /\ At(s, "sweep", "idle")' /\ At(s, "direct", "idle")'
  BY DEF Mirrors
<1> DEFINE t == task[s]["line"]
           Goal == MirrorsIn(task'[s]["line"], mem'[s], entry', result', spaces')
<1>2. /\ StaysIn(s) /\ MirrorsIn(t, mem[s], entry, result, spaces)
      /\ At(s, "sweep", "idle") /\ At(s, "direct", "idle")
      /\ mem[s] \in MaybeJob /\ entry \in MaybeJob
  BY DEF Mirrors, TypeOK
<1>3. StaysIn(s)' /\ At(s, "sweep", "idle")'
  BY <1>2, StaysInStep, SweepRests
<1>4. /\ "line" \in Kinds /\ "direct" \in Kinds /\ "direct" \in Kinds \ {"line"}
      /\ ~TaskStep(s, "direct") /\ ~BeginSweep(s) /\ ~SweepStep(s)
  BY <1>2, IdleRests, NothingSwept DEF Kinds
<1>5. ~PastTheLine(s)
  BY DEF PastTheLine, NobodyTakesOut
<1>6. ASSUME CheckNoNamespace(s)
      PROVE  /\ task' = task /\ mem'[s] = [mem[s] EXCEPT !.namespaces = spaces]
             /\ entry' = entry /\ result' = result /\ spaces' = spaces /\ Exists(mem[s])
  <2>1. Exists(mem[s]) /\ UNCHANGED db
    BY <1>6 DEF CheckNoNamespace
  <2>2. ~(spaces = {} /\ IsUnfinished(mem[s]))
    <3>1. t.pc # "settle" => spaces # {}
      BY <1>2, <2>1 DEF MirrorsIn
    <3>2. t.pc = "settle" => spaces # {}
      BY <1>2 DEF MirrorsIn
    <3> QED
      BY <3>1, <3>2
  <2> QED
    BY <1>6, <2>1, <2>2, SetMemChanges DEF CheckNoNamespace, db
<1>7. CASE TaskStep(s, "line")
  <2>1. task'[s]["direct"] = task[s]["direct"]
    BY <1>4, <1>7, OthersRest
  <2> QED
    BY <1>2, <1>3, <1>7, <2>1, MirrorsLine DEF At
<1>8. CASE Apart(s)
  <2>1. task' = task /\ mem' = mem /\ entry' = entry /\ result' = result /\ spaces' = spaces
    BY <1>8
    DEF Apart, ClientAsks, WorkerAsks, RequeueJobsFromMissingWorkers, StateChange, Broadcast, Tick,
        vars, db
  <2> QED
    BY <1>2, <1>3, <2>1 DEF At
<1>9. CASE CheckNoNamespace(s)
  <2> DEFINE m == [mem[s] EXCEPT !.namespaces = spaces]
  <2>1. /\ Exists(m) = Exists(mem[s]) /\ m.state = mem[s].state
        /\ IsUnfinished(m) = IsUnfinished(mem[s])
        /\ m.reason = mem[s].reason /\ m.worker = mem[s].worker
    BY <1>2, <1>6, <1>9, NamespacesKeep
  <2>2. SameJob(mem[s], entry) => SameJob(m, entry)
    BY <2>1 DEF SameJob
  <2>3. /\ task' = task /\ mem'[s] = m
        /\ entry' = entry /\ result' = result /\ spaces' = spaces
    BY <1>6, <1>9
  <2> HIDE DEF m
  <2>4. Goal
    BY <1>2, <2>1, <2>2, <2>3 DEF MirrorsIn
  <2> QED
    BY <1>2, <1>3, <2>3, <2>4 DEF At
<1>10. CASE ProcessJobStateChangeQueue(s)
  <2> DEFINE c == Head(line[s])
             u == [Idle EXCEPT !.pc = "start", !.ch = c.ch, !.time = c.time]
  <2>1. /\ Onward(s, u, mem[s], entry) /\ t.pc = "idle" /\ result' = result /\ spaces' = spaces
        /\ task'[s]["direct"] = task[s]["direct"]
    BY <1>4, <1>10, GoOnChanges DEF ProcessJobStateChangeQueue, Onward, At, db
  <2>2. u.pc = "start"
    BY DEF Idle
  <2> HIDE DEF u
  <2>3. Goal
    BY <1>2, <2>1, <2>2 DEF Onward, MirrorsIn
  <2> QED
    BY <1>2, <1>3, <2>1, <2>3 DEF At
<1>11. CASE Restart(s)
  <2>1. /\ Onward(s, Idle, Loaded, entry) /\ result' = result /\ spaces' = spaces
        /\ task'[s]["direct"] = Idle
    BY <1>4, <1>11, SetMemChanges DEF Restart, Onward, TypeOK, db
  <2>2. ~IsJobRemovableFromQueue(entry)
    BY NothingRemovable DEF TypeOK
  <2>3. Loaded = entry
    BY <1>2, <2>2 DEF Loaded, MirrorsIn
  <2>4. Idle.pc = "idle" /\ SameJob(entry, entry)
    BY DEF Idle, SameJob
  <2>5. Goal
    BY <1>2, <2>1, <2>3, <2>4 DEF Onward, MirrorsIn
  <2> QED
    BY <1>3, <2>1, <2>4, <2>5 DEF At
<1> QED
  BY <1>4, <1>5, <1>7, <1>8, <1>9, <1>10, <1>11, StepsAlone DEF ServerStep

\* "The db is the source of truth" (util.ts, 300): on one server, whatever is
\* submitted, started, finished, lost with a worker or timed out, and whenever
\* the server restarts, the idle server holds of a job still to be run what the
\* database holds.  It is about a job nobody takes out of the queue, until the
\* first sweep: a cancel timed before the queueing it meets leaves the two apart.
THEOREM MemoryMirrorsDatabase ==
  ASSUME Alone, NobodyTakesOut, KeepFor >= MaxTime
  PROVE  Spec => []MemoryIsDatabase
<1> DEFINE Inv == TypeOK /\ NothingHeard /\ Mirrors
<1>1. Init => Inv
  <2> SUFFICES ASSUME Init
               PROVE  Inv
    OBVIOUS
  <2>1. NothingHeard
    BY DEF Init, NothingHeard, Hears, At, Kinds, Idle
  <2>2. ASSUME NEW s \in Server
        PROVE  StaysIn(s) /\ task[s]["line"] = Idle /\ At(s, "sweep", "idle") /\ At(s, "direct", "idle")
    <3>1. Len(<<>>) = 0
      OBVIOUS
    <3> QED
      BY <3>1 DEF Init, StaysIn, Idle, Enqueue, TakesOut, NoReason, At, Kinds
  <2>3. ASSUME NEW s \in Server
        PROVE  MirrorsIn(Idle, NoJob, NoJob, NoJob, {})
    BY DEF MirrorsIn, Exists, IsUnfinished, NoJob, Idle
  <2>4. Mirrors
    BY <2>2, <2>3 DEF Init, Mirrors
  <2> QED
    BY <2>1, <2>4, TypeInit
<1>2. Inv /\ [Next]_vars => Inv'
  BY TypeStep, NothingHeardStep, MirrorsStep
<1>3. Inv => MemoryIsDatabase
  <2> SUFFICES ASSUME Mirrors, NEW s \in Server, AtRest(s), Wanted(mem[s])
               PROVE  Exists(entry) /\ SameJob(mem[s], entry)
    BY DEF MemoryIsDatabase
  <2>1. task[s]["line"].pc = "idle" /\ IsUnfinished(mem[s]) /\ Exists(mem[s])
    BY DEF AtRest, At, Kinds, Wanted, IsUnfinished, Exists, NoJob
  <2>2. MirrorsIn(task[s]["line"], mem[s], entry, result, spaces)
    BY DEF Mirrors
  <2> QED
    BY <2>1, <2>2 DEF MirrorsIn
<1> QED
  BY <1>1, <1>2, <1>3, PTL DEF Spec
=============================================================================
