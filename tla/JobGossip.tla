------------------------------ MODULE JobGossip ------------------------------
(***************************************************************************)
(* How the API servers that hold one queue agree about a job.              *)
(*                                                                         *)
(* Every server keeps its own copy of the job in memory.  Changes reach    *)
(* any one of them, with the clock of whoever made the change, and are     *)
(* applied through resolveMostCorrectJob.  Each server broadcasts its copy *)
(* on the queue's BroadcastChannel, after a change and every ten seconds,  *)
(* unless the copy is one that is not shown to others; a server that hears *)
(* a copy resolves it against its own (jobqueue.ts, "job-states").         *)
(*                                                                         *)
(* The channel may drop, delay and reorder.  This module is about servers  *)
(* that all know the job; JobQueue adds the database, namespaces and the   *)
(* awaits inside each handler.                                             *)
(***************************************************************************)
EXTENDS JobState, FiniteSets

CONSTANTS Server,     \* the servers that hold the queue
          Worker,     \* worker ids
          Time,       \* the clock values changes carry
          Why,        \* the reasons for which the job may be finished
          MaxChanges  \* bound: changes made in a behaviour

ASSUME GossipAssumption ==
  /\ Worker \subseteq Nat \ {NoWorker}
  /\ Time \subseteq Nat
  /\ Time # {}
  /\ Why \subseteq Reasons
  /\ MaxChanges \in Nat

VARIABLES mem,     \* mem[s]: the copy of the job in the memory of server s
          inbox,   \* inbox[s]: copies on the channel on their way to s
          changes  \* how many changes were made

vars == <<mem, inbox, changes>>

Copy == Job(Time, Worker, {})

TypeOK ==
  /\ mem \in [Server -> Copy]
  /\ inbox \in [Server -> SUBSET {j \in Copy : IsJobOkForSending(j)}]
  /\ changes \in 0..MaxChanges

-----------------------------------------------------------------------------
\* Every server loaded the same queued job from the database (setup).
Init ==
  /\ \E t \in Time : mem = [s \in Server |-> QueuedJob(t, {})]
  /\ inbox = [s \in Server |-> {}]
  /\ changes = 0

\* The versions of j a client, a worker or a route can ask for.
Versions(j) ==
  {SetQueued(j, t) : t \in Time}
    \cup {SetRunning(j, w, t) : w \in Worker, t \in Time}
    \cup {SetFinished(j, why, t) : why \in Why, t \in Time}

\* stateChangeJobEnqueue, stateChangeJobRunning, stateChangeJobFinished: the
\* server keeps its copy when that is the more correct one.
Change(s) ==
  /\ changes < MaxChanges
  /\ changes' = changes + 1
  /\ \E v \in Versions(mem[s]) :
       mem' = [mem EXCEPT ![s] = ResolveMostCorrectJob(mem[s], v)]
  /\ UNCHANGED inbox

\* broadcastJobStatesToChannel, from the interval and after a change.
Broadcast(s) ==
  /\ IsJobOkForSending(mem[s])
  /\ inbox' = [r \in Server |-> IF r = s THEN inbox[r] ELSE inbox[r] \cup {mem[s]}]
  /\ UNCHANGED <<mem, changes>>

\* Mutant: what was heard last is taken.
ReceiveLast(s, j) ==
  /\ j \in inbox[s]
  /\ inbox' = [inbox EXCEPT ![s] = @ \ {j}]
  /\ mem' = [mem EXCEPT ![s] = j]
  /\ UNCHANGED changes

\* channel.onmessage, "job-states", for a job that is in memory.
Receive(s, j) ==
  /\ j \in inbox[s]
  /\ inbox' = [inbox EXCEPT ![s] = @ \ {j}]
  /\ LET chosen == ResolveMostCorrectJob(mem[s], j) IN
       mem' = [mem EXCEPT ![s] = IF IsJobDeletedOrRemoved(chosen)
                                 THEN SetRemoved(mem[s]) ELSE chosen]
  /\ UNCHANGED changes

Lose(s, j) ==
  /\ j \in inbox[s]
  /\ inbox' = [inbox EXCEPT ![s] = @ \ {j}]
  /\ UNCHANGED <<mem, changes>>

Next ==
  \E s \in Server :
    \/ Change(s)
    \/ Broadcast(s)
    \/ \E j \in inbox[s] : Receive(s, j) \/ Lose(s, j)

\* The interval fires for ever, and a copy a server broadcasts again and again
\* is heard some time.  Nothing makes anyone change or lose anything.
Fairness ==
  \A s, r \in Server :
    /\ WF_vars(Broadcast(s))
    /\ SF_vars(Receive(s, mem[r]))

Spec == Init /\ [][Next]_vars /\ Fairness

-----------------------------------------------------------------------------
\* No server ever goes back (the job-states handler, 348-352): whatever changes and copies reach it, in whatever
\* order, the copy it holds stands at least as high as the one it held.
NeverBack ==
  [][\A s \in Server :
       IsJobOkForSending(mem[s]) =>
         IsJobOkForSending(mem'[s]) /\ AtLeast(mem'[s], mem[s])]_vars

\* The channel is never the only place that knows the best: whatever copy is in
\* flight, however old, some server holds one that stands as high, so losing
\* every message loses nothing (the job-states handler and its resend).
NothingBetterInFlight ==
  \A s \in Server : \A j \in inbox[s] :
    \E r \in Server : IsJobOkForSending(mem[r]) /\ AtLeast(mem[r], j)

\* "correct job state always wins" (jobqueue.ts, setup): when changes stop
\* coming, the servers end up agreeing on the job.
Agreement ==
  \A r, s \in Server :
    /\ mem[r].state = mem[s].state
    /\ mem[r].reason = mem[s].reason
    /\ mem[r].state = "Running" => mem[r].worker = mem[s].worker

EventuallyAgree == <>[]Agreement
=============================================================================
