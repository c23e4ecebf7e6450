-------------------------------- MODULE Client --------------------------------
(***************************************************************************)
(* The browser's side of a queue: the store of store.ts, the local cache   *)
(* of finished jobs (cache.tsx), the websocket that feeds the store        *)
(* (serverWebsocket.tsx), the hooks that compute the job definition and    *)
(* submit it, and the button that runs, stops and deletes the job.         *)
(*                                                                         *)
(* The store's functions are async.  A call that awaits the cache or a     *)
(* download is a record in `calls`, with its local variables; between its  *)
(* awaits the browser does other things, and calls overlap.  A job is      *)
(* known by the hash of its definition.  The server is the environment: it *)
(* holds one record of every job, takes what the client sends in order,    *)
(* and tells what it holds, all of it now and then and one job after every *)
(* change.  What a message says is read when it arrives: that messages     *)
(* take time shows in what the server has not yet taken from `up`.         *)
(*                                                                         *)
(* The only times the code compares here are those of queueing and of      *)
(* cancelling, both stamped by the client: `clock` counts them.            *)
(***************************************************************************)
EXTENDS JobState, Sequences, SequencesExt, FiniteSets

CONSTANTS Hash, None,
          World,      \* what a behaviour starts from, and what may happen in it
          Results     \* how jobs end

\* A copy of a job: payload when it has `finished`, with the result.
Copy(state, reason, time, payload) ==
  [state |-> state, reason |-> reason, time |-> time, payload |-> payload]

AllCopies ==
  {c \in [state : {"Queued", "Running", "Finished"}, reason : Reasons \cup {NoReason},
          time : Nat, payload : BOOLEAN] :
     /\ (c.state = "Finished") <=> (c.reason # NoReason)
     /\ c.payload => c.state = "Finished"}

\* What the client tells the server of a job.
Messages == [job : Hash, kind : {"Queued", "Cancelled", "Deleted"}, time : Nat]

ASSUME ClientAssumption ==
  /\ None \notin Hash \cup Messages /\ Results \subseteq Worth
  /\ \A w \in World :
       /\ w.autostart \in BOOLEAN          \* the URL says so
       /\ w.inputs \in Hash                \* what it defines at first
       /\ w.loaded \in BOOLEAN             \* the page shows what the cache has
       /\ w.choices \subseteq Hash          \* what the user may make it define
       /\ w.acts \in Nat                   \* bound: what the user does
       /\ w.cuts \in Nat                   \* bound: how often connection or download fails
       /\ w.heard \in Nat \ {0}            \* bound: calls under way when a message is taken
       /\ w.server \in [Hash -> AllCopies \cup {NoJob}]
       /\ w.stored \in [Hash -> {NoJob} \cup {c \in AllCopies : IsFinishedFor(c, Worth)}]
       /\ w.cache \in [Hash -> {NoJob} \cup {c \in AllCopies : c.payload}]

VARIABLES
  world,             \* what this behaviour started from
  inputs,            \* the hash of what the URL and the inputs define
  computing,         \* the definitions being computed by effects not cancelled
  newJobDefinition,  \* its hash
  jobStates,         \* what the store has of every job
  jobState,          \* the job shown, with its id
  cache,             \* cache.jobsFinished
  calls,             \* calls of async functions under way, in the order they began
  due,               \* what waits for a timer, or for the definition to change
  line,              \* the socket: "open", "dead" (not yet noticed) or "closed"
  kept,              \* _cachedMostRecentSubmit
  up,                \* messages the server has not yet taken
  server, stored,    \* the server's records, and its stored results
  untold,            \* jobs whose change or query the client has yet to hear of
  clock, acts, cuts

store       == <<newJobDefinition, jobStates, jobState>>
net         == <<line, kept, up>>
environment == <<server, stored, untold>>
counters    == <<clock, acts, cuts>>
vars == <<world, inputs, computing, store, cache, calls, due, net, environment, counters>>

Empty == [h \in Hash |-> NoJob]
EmptyJobStateTuple == [id |-> None, job |-> NoJob]

Worthy(job) == Exists(job) /\ IsFinishedFor(job, Worth)
HasResult(job) == job.state = "Finished" /\ job.payload

\* then: what the caller of deleteJobCache does when it has returned.
Calls == [kind : {"setJobStates", "setNewJobDefinition", "submitJob", "sendClientStateChange",
                  "queryJob", "cancelJob", "deleteJobCache"},
          id : Hash \cup {None}, at : {"cache", "delete", "process"},
          map : [Hash -> AllCopies \cup {NoJob}], todo : SUBSET Hash,
          loads : Hash \cup {None}, then : {None, "resubmitJob", "submitJob"}, time : Nat]

TypeOK ==
  /\ world \in World
  /\ inputs \in Hash /\ computing \in SUBSET Hash
  /\ newJobDefinition \in Hash \cup {None}
  /\ jobStates \in [Hash -> AllCopies \cup {NoJob}]
  /\ jobState \in [id : Hash \cup {None}, job : AllCopies \cup {NoJob}]
  /\ cache \in [Hash -> {NoJob} \cup {c \in AllCopies : c.payload}]
  /\ calls \in Seq(Calls)
  /\ due \subseteq {"submitJob", "queryJob", "resubmitJob", "changed"}
  /\ line \in {"open", "dead", "closed"}
  /\ kept \in Messages \cup {None}
  /\ up \in Seq(Messages)
  /\ server \in [Hash -> AllCopies \cup {NoJob}]
  /\ stored \in [Hash -> {NoJob} \cup {c \in AllCopies : IsFinishedFor(c, Worth)}]
  /\ untold \in SUBSET Hash
  /\ clock \in Nat /\ acts \in 0 .. world.acts /\ cuts \in 0 .. world.cuts

Init ==
  /\ world \in World
  /\ server = world.server /\ stored = world.stored /\ cache = world.cache
  /\ inputs = world.inputs /\ calls = <<>> /\ due = {} /\ kept = None /\ up = <<>>
  /\ IF world.loaded
     THEN /\ computing = {} /\ newJobDefinition = inputs /\ line = "open"
          /\ jobStates = cache /\ jobState = [id |-> inputs, job |-> cache[inputs]]
     ELSE /\ computing = {inputs} /\ newJobDefinition = None /\ line = "closed"
          /\ jobStates = Empty /\ jobState = EmptyJobStateTuple
  /\ untold = {} /\ clock = 0 /\ acts = 0 /\ cuts = 0

-----------------------------------------------------------------------------
(* The hooks: what follows from a change of the store.                     *)

\* useJobSubmissionHook's submitJob is another function whenever the
\* connection, the id shown or the definition is another one, and with
\* autostart its effect calls it; the first definition is submitted whether
\* there is a connection or not.
SubmitsItself ==
  /\ world.autostart /\ newJobDefinition' # None
  /\ \/ newJobDefinition = None
     \/ /\ line' # "closed"
        /\ \/ line = "closed" \/ jobState'.id # jobState.id
           \/ newJobDefinition' # newJobDefinition

\* A new definition is queried, and submitted when saveInputFileAndRun waits for it.
Effects(waiting) ==
  LET another == newJobDefinition' # newJobDefinition IN
  due' = (IF another THEN (waiting \ {"changed"}) \cup {"queryJob"} ELSE waiting)
         \cup (IF SubmitsItself \/ (another /\ "changed" \in waiting) THEN {"submitJob"} ELSE {})

-----------------------------------------------------------------------------
(* setJobStates: what the server says and what the cache holds.            *)

\* What processJob has to look up, download or delete.
ToProcess(map) ==
  {h \in Hash : /\ Exists(map[h])
                /\ \/ Worthy(map[h]) /\ ~map[h].payload
                   \/ IsFinishedFor(map[h], {"Deleted"})}

Begun(kind, id, map, time, then) ==
  [kind |-> kind, id |-> id, at |-> "cache", map |-> map, todo |-> {}, loads |-> None,
   then |-> then, time |-> time]

SetJobStates(map) ==
  LET call == Begun("setJobStates", newJobDefinition, map, 0, None) IN
  IF newJobDefinition = None THEN [call EXCEPT !.at = "process", !.todo = ToProcess(map)] ELSE call

\* Call i goes on as `call`, or ends: when nothing is left to await, the job
\* shown becomes that of the definition there was when the call began.
Continue(i, call) ==
  IF call.at = "process" /\ call.todo = {}
  THEN /\ calls' = IF i \in DOMAIN calls THEN RemoveAt(calls, i) ELSE calls
       /\ jobStates' = call.map
       /\ jobState' = [id  |-> call.id,
                       job |-> IF call.id = None THEN NoJob ELSE call.map[call.id]]
  ELSE /\ calls' = IF i \in DOMAIN calls THEN ReplaceAt(calls, i, call) ELSE Append(calls, call)
       /\ UNCHANGED <<jobStates, jobState>>

Begin(call) == Continue(Len(calls) + 1, call)

\* The cache has answered for the job of the definition.
Resolved(call) ==
  LET map == [call.map EXCEPT ![call.id] = ResolveMostCorrectJob(@, cache[call.id])] IN
  [call EXCEPT !.at = "process", !.map = map, !.todo = ToProcess(map)]

Resolve(i) ==
  /\ calls[i].kind = "setJobStates" /\ calls[i].at = "cache"
  /\ Continue(i, Resolved(calls[i]))
  /\ UNCHANGED cache

\* Job h of call i is done, and is `job` in what will be stored.
Processed(i, h, job) ==
  Continue(i, [calls[i] EXCEPT !.todo = @ \ {h}, !.loads = None, !.map[h] = job])

\* processJob, one job after the other.
IsProcessing(i, h) ==
  /\ calls[i].kind = "setJobStates" /\ calls[i].at = "process" /\ h \in calls[i].todo
  /\ calls[i].loads = None

\* Mutant: the result is downloaded whatever the cache has.
DownloadsAnyway(i, h) ==
  /\ IsProcessing(i, h) /\ Worthy(calls[i].map[h])
  /\ calls' = [calls EXCEPT ![i].loads = h]
  /\ UNCHANGED <<jobStates, jobState, cache>>

\* An entry of the cache stands for the server's record, whatever it is.
LooksForResult(i, h) ==
  /\ IsProcessing(i, h) /\ Worthy(calls[i].map[h])
  /\ IF Exists(cache[h]) THEN Processed(i, h, cache[h])
     ELSE calls' = [calls EXCEPT ![i].loads = h] /\ UNCHANGED <<jobStates, jobState>>
  /\ UNCHANGED cache

\* The answer to the download is there, and the result in it, if it has one, is
\* to be saved.
Answered(i, h) ==
  /\ calls[i].loads = h /\ ~HasResult(calls[i].map[h])
  /\ IF Exists(stored[h])
     THEN /\ calls' = [calls EXCEPT ![i].map[h] = [stored[h] EXCEPT !.payload = TRUE]]
          /\ UNCHANGED <<jobStates, jobState>>
     ELSE Processed(i, h, calls[i].map[h])
  /\ UNCHANGED cache

\* Mutant: what is saved is the server's record, before the answer is there.
SavedTooSoon(i, h) ==
  /\ calls[i].loads = h
  /\ Processed(i, h, calls[i].map[h])
  /\ cache' = [cache EXCEPT ![h] = calls[i].map[h]]

\* saveFinishedJob: the result has been saved, whatever the cache had by then.
Saved(i, h) ==
  /\ calls[i].loads = h /\ HasResult(calls[i].map[h])
  /\ Processed(i, h, calls[i].map[h])
  /\ cache' = [cache EXCEPT ![h] = calls[i].map[h]]

DeletesEntry(i, h) ==
  /\ IsProcessing(i, h) /\ IsFinishedFor(calls[i].map[h], {"Deleted"})
  /\ Processed(i, h, calls[i].map[h])
  /\ cache' = [cache EXCEPT ![h] = NoJob]

SetJobStatesGoesOn(i) ==
  /\ \/ Resolve(i)
     \/ \E h \in Hash :
          LooksForResult(i, h) \/ Answered(i, h) \/ Saved(i, h) \/ DeletesEntry(i, h)
  /\ UNCHANGED <<world, inputs, computing, newJobDefinition, net, environment, counters>>
  /\ Effects(due)

\* The download, or what saves it, fails for good: the call throws and sets nothing.
DownloadThrows(i) ==
  /\ cuts < world.cuts /\ calls[i].loads # None
  /\ cuts' = cuts + 1
  /\ calls' = RemoveAt(calls, i)
  /\ UNCHANGED <<world, inputs, computing, store, cache, due, net, environment, clock, acts>>

-----------------------------------------------------------------------------
(* The socket.                                                             *)

\* Mutant: nothing is kept for the next connection.
SendOrForget(message) ==
  /\ up' = IF line = "open" THEN Append(up, message) ELSE up
  /\ UNCHANGED kept

\* sendMessage: the sender of the socket, or cacheInsteadOfSendMessages.
SendMessage(message) ==
  /\ up' = IF line = "open" THEN Append(up, message) ELSE up
  /\ kept' = IF line = "closed" /\ message.kind = "Queued" THEN message ELSE kept

\* onOpen: setSendMessage sends what was kept.
Open ==
  /\ line = "closed"
  /\ line' = "open"
  /\ up' = IF kept = None THEN up ELSE Append(up, kept)
  /\ kept' = None
  /\ UNCHANGED <<world, inputs, computing, store, cache, calls, environment, counters>>
  /\ Effects(due)

\* Nothing that is under way arrives any more.
Cut ==
  /\ line = "open" /\ cuts < world.cuts
  /\ line' = "dead" /\ up' = <<>> /\ untold' = {} /\ cuts' = cuts + 1
  /\ UNCHANGED <<world, inputs, computing, store, cache, calls, due, kept, server, stored,
                 clock, acts>>

\* onClose, after the socket's own event or ten seconds without a PONG.
Close ==
  /\ line = "dead"
  /\ line' = "closed"
  /\ UNCHANGED <<world, inputs, computing, store, cache, calls, due, kept, up, environment,
                 counters>>

\* What a message says of a job: nothing of one that may not be shown.
Sent(job) ==
  IF Exists(job) /\ (IsUnfinished(job) \/ IsFinishedFor(job, Worth)) THEN job ELSE NoJob

\* onMessage: all that the queue has.
HearJobStates ==
  /\ line = "open" /\ Len(calls) < world.heard
  /\ Begin(SetJobStates([h \in Hash |-> Sent(server[h])]))
  /\ UNCHANGED <<world, inputs, computing, newJobDefinition, cache, net, environment, counters>>
  /\ Effects(due)

\* onMessage: what one job is now, or has been when the queue has forgotten it.
HearJobStateUpdates(h) ==
  /\ line = "open" /\ Len(calls) < world.heard /\ h \in untold
  /\ untold' = untold \ {h}
  /\ LET said == Sent(IF Exists(server[h]) THEN server[h] ELSE stored[h]) IN
     Begin(SetJobStates(IF Exists(said) THEN [jobStates EXCEPT ![h] = said] ELSE jobStates))
  /\ UNCHANGED <<world, inputs, computing, newJobDefinition, cache, net, server, stored, counters>>
  /\ Effects(due)

-----------------------------------------------------------------------------
(* The definition.                                                         *)

Act == acts < world.acts /\ acts' = acts + 1

\* Mutant: an effect that has been replaced goes on.
ComputeToo(h) == inputs' = h /\ computing' = computing \cup {h}

\* The inputs become h: the effect of useDockerJobDefinition runs again, and
\* the one before it gives up at its next step.  An effect whose upload of a
\* large input throws never comes to setNewJobDefinition: h stays in computing.
Compute(h) == inputs' = h /\ computing' = {h}

ChangeInputs(h) ==
  /\ h \in world.choices /\ Act
  /\ Compute(h)
  /\ UNCHANGED <<world, store, cache, calls, due, net, environment, clock, cuts>>

\* setNewJobDefinition with another hash.
SetNewJobDefinition(h) ==
  /\ h \in computing /\ newJobDefinition # h
  /\ computing' = computing \ {h}
  /\ newJobDefinition' = h
  /\ jobState' = [id |-> h, job |-> jobStates[h]]
  /\ UNCHANGED <<world, inputs, jobStates, cache, calls, net, environment, counters>>
  /\ Effects(due)

\* setNewJobDefinition with the hash it has: the job may have changed.
SetSameJobDefinition(h) ==
  /\ h \in computing /\ newJobDefinition = h
  /\ computing' = computing \ {h}
  /\ Begin(Begun("setNewJobDefinition", h, jobStates, 0, None))
  /\ UNCHANGED <<world, inputs, newJobDefinition, cache, due, net, environment, counters>>

RefreshGoesOn(i) ==
  LET h == calls[i].id
      cached == Exists(cache[h]) /\ ~IsJobDeletedOrRemoved(cache[h]) IN
  /\ calls[i].kind = "setNewJobDefinition"
  /\ calls' = RemoveAt(calls, i)
  /\ jobState' = IF Exists(jobStates[h])
                 THEN [id |-> h, job |-> IF cached THEN cache[h] ELSE calls[i].map[h]]
                 ELSE EmptyJobStateTuple
  /\ UNCHANGED <<world, inputs, computing, newJobDefinition, jobStates, cache, net,
                 environment, counters>>
  /\ Effects(due)

-----------------------------------------------------------------------------
(* Submissions and queries, 200 ms after the last time they were asked for.*)

SubmitJob ==
  /\ "submitJob" \in due
  /\ IF newJobDefinition = None THEN UNCHANGED <<calls, jobStates, jobState>>
     ELSE Begin(Begun("submitJob", newJobDefinition, Empty, 0, None))
  /\ UNCHANGED <<world, inputs, computing, newJobDefinition, cache, net, environment, counters>>
  /\ Effects(due \ {"submitJob"})

\* The query is sent at once, and its answer is one of the updates to come;
\* a result in the cache is shown without it.
QueryJob ==
  /\ "queryJob" \in due
  /\ IF newJobDefinition = None THEN UNCHANGED <<calls, jobStates, jobState, untold>>
     ELSE /\ Begin(Begun("queryJob", newJobDefinition, Empty, 0, None))
          /\ untold' = IF line = "open" THEN untold \cup {newJobDefinition} ELSE untold
  /\ UNCHANGED <<world, inputs, computing, newJobDefinition, cache, net, server, stored, counters>>
  /\ Effects(due \ {"queryJob"})

QueryGoesOn(i) ==
  LET h == calls[i].id IN
  /\ calls[i].kind = "queryJob"
  /\ IF Exists(cache[h]) /\ ~IsJobDeletedOrRemoved(cache[h])
     THEN Continue(i, SetJobStates([jobStates EXCEPT ![h] = cache[h]]))
     ELSE calls' = RemoveAt(calls, i) /\ UNCHANGED <<jobStates, jobState>>
  /\ UNCHANGED <<world, inputs, computing, newJobDefinition, cache, net, environment, counters>>
  /\ Effects(due)

\* A finished job in the cache is deleted first; then the change is stamped.
SubmitGoesOn(i) ==
  LET h == calls[i].id
      found == calls[i].at = "cache" /\ Exists(cache[h]) IN
  /\ calls[i].kind = "submitJob"
  /\ calls' = [calls EXCEPT ![i] =
       IF found THEN [@ EXCEPT !.at = "delete"]
       ELSE Begun("sendClientStateChange", h, Empty, clock + 1, None)]
  /\ clock' = IF found THEN clock ELSE clock + 1
  /\ cache' = IF calls[i].at = "delete" THEN [cache EXCEPT ![h] = NoJob] ELSE cache
  /\ UNCHANGED <<world, inputs, computing, store, due, net, environment, acts, cuts>>

\* sendClientStateChange of a submission: a result in the cache is its answer.
SendClientStateChange(i) ==
  LET h == calls[i].id IN
  /\ calls[i].kind = "sendClientStateChange"
  /\ IF Worthy(cache[h])
     THEN /\ Continue(i, SetJobStates([jobStates EXCEPT ![h] = cache[h]]))
          /\ UNCHANGED <<kept, up>>
     ELSE /\ calls' = RemoveAt(calls, i)
          /\ SendMessage([job |-> h, kind |-> "Queued", time |-> calls[i].time])
          /\ UNCHANGED <<jobStates, jobState>>
  /\ UNCHANGED <<world, inputs, computing, newJobDefinition, cache, line, environment, counters>>
  /\ Effects(due)

-----------------------------------------------------------------------------
(* The button, which acts on the job shown.                                *)

IsShownDeleted == Exists(jobState.job) /\ IsFinishedFor(jobState.job, {"Deleted"})

ClickRun ==
  /\ Act /\ newJobDefinition # None /\ line # "closed"
  /\ ~Exists(jobState.job) \/ IsShownDeleted
  /\ due' = due \cup {"submitJob"}
  /\ UNCHANGED <<world, inputs, computing, store, cache, calls, net, environment, clock, cuts>>

\* saveInputFileAndRun: the next definition that is another one is submitted.
SaveInputFileAndRun(h) ==
  /\ h \in world.choices /\ Act /\ Exists(jobState.job)
  /\ Compute(h)
  /\ due' = due \cup {"changed"}
  /\ UNCHANGED <<world, store, cache, calls, net, environment, clock, cuts>>

\* cancelJob, until the cancelled job is saved.
ClickCancel ==
  /\ Act /\ jobState.id # None /\ Exists(jobState.job) /\ IsUnfinished(jobState.job)
  /\ clock' = clock + 1
  /\ Begin(Begun("cancelJob", jobState.id, Empty, clock', None))
  /\ UNCHANGED <<world, inputs, computing, newJobDefinition, cache, due, net, environment, cuts>>

\* deleteJobCache, until the deleted job is saved, for a caller that goes on as `then`.
DeleteJobCache(then) == Begin(Begun("deleteJobCache", newJobDefinition, Empty, 0, then))

\* onClickDeleteAndMaybeRetry
ClickDelete ==
  /\ Act /\ newJobDefinition # None
  /\ Exists(jobState.job) /\ jobState.job.state = "Finished" /\ ~IsShownDeleted
  /\ DeleteJobCache(IF world.autostart THEN "resubmitJob" ELSE None)
  /\ UNCHANGED <<world, inputs, computing, newJobDefinition, cache, due, net, environment,
                 clock, cuts>>

\* resubmitJob, half a second after that: it deletes once more.
ResubmitJob ==
  /\ "resubmitJob" \in due
  /\ due' = due \ {"resubmitJob"}
  /\ DeleteJobCache("submitJob")
  /\ UNCHANGED <<world, inputs, computing, newJobDefinition, cache, net, environment, counters>>

\* Mutant: a change that the cache could answer is not sent.
TellUnlessCached(change) ==
  IF Exists(cache'[change.job]) THEN UNCHANGED <<kept, up>> ELSE SendMessage(change)

\* sendClientStateChange of any other change.
TellServer(change) == SendMessage(change)

\* The cancelled or deleted job is saved, shown and the server is told.
EndsJobGoesOn(i) ==
  LET h    == calls[i].id
      why  == IF calls[i].kind = "cancelJob" THEN "Cancelled" ELSE "Deleted"
      copy == Copy("Finished", why, calls[i].time, TRUE) IN
  /\ calls[i].kind \in {"cancelJob", "deleteJobCache"}
  /\ cache' = [cache EXCEPT ![h] = copy]
  /\ TellServer([job |-> h, kind |-> why, time |-> calls[i].time])
  /\ Continue(i, SetJobStates([jobStates EXCEPT ![h] = copy]))
  /\ UNCHANGED <<world, inputs, computing, newJobDefinition, line, environment, counters>>
  /\ Effects(due \cup ({calls[i].then} \ {None}))

\* The button of the table of jobs only tells the server.
ClickCancelInTable(h) ==
  /\ Act /\ Exists(jobStates[h]) /\ IsUnfinished(jobStates[h])
  /\ clock' = clock + 1
  /\ UNCHANGED <<world, inputs, computing, store, cache, calls, due, line, environment, cuts>>
  /\ TellServer([job |-> h, kind |-> "Cancelled", time |-> clock'])

-----------------------------------------------------------------------------
(* The server and the workers, as JobQueue and Worker have them.           *)

\* A change the server takes: what it then holds of the job.
AfterChange(change) ==
  LET was == server[change.job]
      job == IF change.kind = "Queued" THEN Copy("Queued", NoReason, change.time, FALSE)
             ELSE Copy("Finished", change.kind, change.time, FALSE) IN
  IF change.kind = "Deleted" THEN NoJob
  ELSE IF Exists(was) THEN ResolveMostCorrectJob(was, job)
  ELSE IF change.kind = "Cancelled" THEN NoJob
  ELSE IF Exists(stored[change.job]) THEN stored[change.job] ELSE job

TakeChange ==
  /\ up # <<>>
  /\ LET change == Head(up) IN
     /\ server' = [server EXCEPT ![change.job] = AfterChange(change)]
     /\ stored' = IF change.kind = "Deleted" THEN [stored EXCEPT ![change.job] = NoJob] ELSE stored
     /\ untold' = IF line = "open" THEN untold \cup {change.job} ELSE untold
  /\ up' = Tail(up)
  /\ UNCHANGED <<world, inputs, computing, store, cache, calls, due, line, kept, counters>>

ServerChanges(h, job, result) ==
  /\ server' = [server EXCEPT ![h] = job]
  /\ stored' = [stored EXCEPT ![h] = result]
  /\ untold' = IF line = "open" THEN untold \cup {h} ELSE untold
  /\ UNCHANGED <<world, inputs, computing, store, cache, calls, due, net, counters>>

JobStarts(h) ==
  /\ server[h].state = "Queued"
  /\ ServerChanges(h, [server[h] EXCEPT !.state = "Running"], stored[h])

JobEnds(h) ==
  /\ server[h].state = "Running"
  /\ \E why \in Results : LET job == Copy("Finished", why, 0, FALSE) IN ServerChanges(h, job, job)

\* Finished jobs are forgotten after a minute, their results are not.  What the
\* client began to send before that has been taken by then.
Swept(h) ==
  /\ server[h].state = "Finished" /\ up = <<>>
  /\ \A i \in DOMAIN calls : calls[i].kind \in {"setJobStates", "setNewJobDefinition", "queryJob"}
  /\ ServerChanges(h, NoJob, stored[h])

-----------------------------------------------------------------------------
CallGoesOn(i) ==
  \/ SetJobStatesGoesOn(i)
  \/ RefreshGoesOn(i)
  \/ QueryGoesOn(i)
  \/ SubmitGoesOn(i)
  \/ SendClientStateChange(i)
  \/ EndsJobGoesOn(i)

Next ==
  \/ \E i \in DOMAIN calls : CallGoesOn(i) \/ DownloadThrows(i)
  \/ SubmitJob \/ QueryJob \/ ResubmitJob
  \/ ClickRun \/ ClickCancel \/ ClickDelete
  \/ Open \/ Cut \/ Close \/ HearJobStates \/ TakeChange
  \/ \E h \in Hash :
       \/ ChangeInputs(h) \/ SaveInputFileAndRun(h) \/ ClickCancelInTable(h)
       \/ SetNewJobDefinition(h) \/ SetSameJobDefinition(h)
       \/ HearJobStateUpdates(h)
       \/ JobStarts(h) \/ JobEnds(h) \/ Swept(h)

\* Awaits end, timers fire; a lost socket is noticed and opened again, and the
\* server takes what it is sent and goes on telling what it has.  Nothing is
\* assumed of users and workers, nor of the uploads of a definition's inputs.
Fairness ==
  /\ WF_vars(calls # <<>> /\ CallGoesOn(1))
  /\ WF_vars(SubmitJob) /\ WF_vars(QueryJob) /\ WF_vars(ResubmitJob)
  /\ WF_vars(Open \/ Close)
  /\ WF_vars(TakeChange)
  /\ WF_vars(HearJobStates)
  /\ WF_vars(\E h \in Hash : HearJobStateUpdates(h))

Spec == Init /\ [][Next]_vars /\ Fairness

-----------------------------------------------------------------------------
(* Properties.                                                             *)

\* Calls overlap, answers come late and the definition changes under them; yet
\* once the user has stopped, and no upload of inputs hangs or has failed, what is
\* shown is for good the job of the latest inputs, finished if the server has its
\* result.
ShowsTheResult ==
  <>[](computing = {}) =>
  <>[](/\ newJobDefinition = inputs /\ jobState.id = newJobDefinition
       /\ Sent(server[inputs]).state = "Finished" =>
            /\ jobState.job.state = "Finished" /\ ~IsShownDeleted)

\* A job cancelled here that no call under way, and nothing still to be shown,
\* would take out of the cache.
CancelStands(h) ==
  /\ IsFinishedFor(cache[h], {"Cancelled"})
  /\ ~(Exists(jobStates[h]) /\ IsFinishedFor(jobStates[h], {"Deleted"}))
  /\ \A i \in DOMAIN calls :
       /\ calls[i].kind \in {"submitJob", "deleteJobCache"} => calls[i].id # h
       /\ calls[i].loads # h
       /\ ~(Exists(calls[i].map[h]) /\ IsFinishedFor(calls[i].map[h], {"Deleted"}))

\* "if a finished state arrives, it will not overwrite" what cancelJob saved
\* (store.ts): unless the result was already being downloaded when the user
\* cancelled, only a submission or a deletion by the user replaces it.
CancelStandsUntilActedOn ==
  [][\A h \in Hash : CancelStands(h) => CancelStands(h)' \/ due' # due \/ acts' # acts]_vars

\* A job cancelled here while the connection holds does not go on at the server.
CancelReachesServer ==
  []<>(\A h \in Hash : \/ ~IsFinishedFor(cache[h], {"Cancelled"})
                       \/ ~(IsUnfinished(server[h]) /\ server[h].time < cache[h].time)
                       \/ cuts > 0)

\* A submission made here that the server has not yet taken.
IsSubmitting(h) ==
  \/ kept # None /\ kept.job = h
  \/ \E i \in DOMAIN calls : calls[i].kind \in {"submitJob", "sendClientStateChange"} /\ calls[i].id = h
  \/ \E i \in DOMAIN up : up[i].job = h /\ up[i].kind = "Queued"

\* Whatever else the user does meanwhile, and if the socket is closed or opened
\* too: a submission ends with the job at the server or its result in the
\* cache, unless a later one takes its place or the connection is cut under it.
SubmissionIsNotLost ==
  [][\A h \in Hash : IsSubmitting(h) /\ ~IsSubmitting(h)' =>
       \/ Exists(server'[h]) \/ Exists(cache'[h])
       \/ kept' # None /\ kept'.job # h
       \/ "dead" \in {line, line'}]_vars
=============================================================================
