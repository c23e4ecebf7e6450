---------------------------- MODULE JobGossipProofs ----------------------------
(***************************************************************************)
(* JobGossip for any number of servers, any worker ids and any clocks: the *)
(* types, and, when jobs are finished by their results only, that no       *)
(* server goes back and that nothing better than what servers hold is ever *)
(* in flight.                                                              *)
(***************************************************************************)
EXTENDS JobGossip, TLAPS

-----------------------------------------------------------------------------
(* What resolveMostCorrectJob guarantees for every pair of jobs that are   *)
(* shown to others, whatever their times and workers.                      *)

\* The jobs that are shown to others, with namespaces from S.
Shown(S) == {j \in Job(Nat, Nat, S) : IsJobOkForSending(j)}

\* The jobs that are shown are the queued, the running and those with a result.
LEMMA ShownCases ==
  ASSUME NEW S, NEW j \in Shown(S)
  PROVE  /\ Exists(j)
         /\ j.time \in Nat
         /\ j.worker \in Nat
         /\ \/ j.state = "Queued" /\ j.reason = NoReason
            \/ j.state = "Running" /\ j.reason = NoReason
            \/ j.state = "Finished" /\ j.reason = "Success"
            \/ j.state = "Finished" /\ j.reason = "TimedOut"
            \/ j.state = "Finished" /\ j.reason = "Error"
<1>1. j \in Job(Nat, Nat, S) /\ IsJobOkForSending(j)
  BY DEF Shown
<1>2. Exists(j)
  BY <1>1 DEF IsJobOkForSending
<1>3. /\ j.time \in Nat
      /\ j.worker \in Nat
      /\ (j.state = "Finished") <=> (j.reason # NoReason)
      /\ j.reason \in Reasons \cup {NoReason}
  BY <1>1 DEF Job, NoWorker
<1>4. IsUnfinished(j) \/ IsFinishedFor(j, Worth)
  BY <1>1 DEF IsJobOkForSending
<1> QED
  BY <1>2, <1>3, <1>4 DEF IsUnfinished, IsFinishedFor, Worth, Reasons, NoReason

\* Rank and tie-break are numbers, so AtLeast compares any two shown jobs.
LEMMA StandingIsNat ==
  ASSUME NEW S, NEW j \in Shown(S)
  PROVE  Rank(j) \in 0..4 /\ TieBreak(j) \in Nat
BY ShownCases DEF Rank, TieBreak, ResultRank

LEMMA AtLeastReflexive ==
  ASSUME NEW S, NEW a \in Shown(S)
  PROVE  AtLeast(a, a)
BY StandingIsNat DEF AtLeast

LEMMA AtLeastTransitive ==
  ASSUME NEW S, NEW a \in Shown(S), NEW b \in Shown(S), NEW c \in Shown(S),
         AtLeast(a, b), AtLeast(b, c)
  PROVE  AtLeast(a, c)
BY StandingIsNat DEF AtLeast

\* resolveMostCorrectJob answers with the better of two shown jobs: its answer
\* does not depend, but for ties, on which of them is the default.
THEOREM ResolveIsBest ==
  ASSUME NEW S, NEW a \in Shown(S), NEW b \in Shown(S)
  PROVE  /\ ResolveMostCorrectJob(a, b) \in {a, b}
         /\ AtLeast(ResolveMostCorrectJob(a, b), a)
         /\ AtLeast(ResolveMostCorrectJob(a, b), b)
<1>1. ResolveMostCorrectJob(a, b) \in {a, b}
  BY DEF ResolveMostCorrectJob
<1>2. CASE KeepsFirst(a, b)
  <2>1. \/ a.state = "Queued" /\ QueuedKeeps(a, b)
        \/ a.state = "Running" /\ RunningKeeps(a, b)
        \/ a.state = "Finished" /\ FinishedKeeps(a, b)
    BY <1>2, ShownCases DEF KeepsFirst
  <2>2. AtLeast(a, b)
    BY <2>1, ShownCases
       DEF QueuedKeeps, RunningKeeps, FinishedKeeps, IsFinishedFor, StandsOver,
           AtLeast, Rank, TieBreak, ResultRank, Worth, Reasons, NoReason
  <2> QED
    BY <1>2, <2>2, AtLeastReflexive DEF ResolveMostCorrectJob
<1>3. CASE ~KeepsFirst(a, b)
  <2>1. /\ a.state = "Queued" => ~QueuedKeeps(a, b)
        /\ a.state = "Running" => ~RunningKeeps(a, b)
        /\ a.state = "Finished" => ~FinishedKeeps(a, b)
    BY <1>3, ShownCases DEF KeepsFirst
  <2>2. AtLeast(b, a)
    BY <2>1, ShownCases
       DEF QueuedKeeps, RunningKeeps, FinishedKeeps, IsFinishedFor, StandsOver,
           AtLeast, Rank, TieBreak, ResultRank, Worth, Reasons, NoReason
  <2> QED
    BY <1>3, <2>2, AtLeastReflexive DEF ResolveMostCorrectJob
<1> QED
  BY <1>1, <1>2, <1>3

-----------------------------------------------------------------------------
(* The exchange.                                                           *)

USE GossipAssumption

\* Servers hold, and send each other, jobs of the right type.
THEOREM TypeCorrect == Spec => []TypeOK
<1>1. Init => TypeOK
  BY DEF Init, TypeOK, Copy, Job, QueuedJob, NoWorker, NoReason
<1>2. ASSUME TypeOK, [Next]_vars
      PROVE  TypeOK'
  <2> USE <1>2 DEF TypeOK
  <2>1. ASSUME NEW s \in Server, Change(s)
        PROVE  TypeOK'
    <3>1. ASSUME NEW v \in Versions(mem[s])
          PROVE  v \in Copy
      <4> mem[s] \in Copy
        OBVIOUS
      <4>1. CASE \E t \in Time : v = SetQueued(mem[s], t)
        BY <4>1 DEF SetQueued, QueuedJob, Copy, Job, NoWorker, NoReason
      <4>2. CASE \E w \in Worker, t \in Time : v = SetRunning(mem[s], w, t)
        <5>1. PICK w \in Worker, t \in Time : v = SetRunning(mem[s], w, t)
          BY <4>2
        <5> QED
          BY <5>1 DEF SetRunning, Copy, Job, NoWorker, NoReason
      <4>3. CASE \E why \in Why, t \in Time : v = SetFinished(mem[s], why, t)
        <5>1. PICK why \in Why, t \in Time : v = SetFinished(mem[s], why, t)
          BY <4>3
        <5>2. why \in Reasons /\ why # NoReason
          BY DEF Reasons, Worth, NoReason
        <5>3. Exists(mem[s])
          BY DEF Copy, Job, Exists, NoJob
        <5> QED
          BY <5>1, <5>2, <5>3 DEF SetFinished, Copy, Job
      <4> QED
        BY <3>1, <4>1, <4>2, <4>3 DEF Versions
    <3>2. PICK v \in Versions(mem[s]) :
            mem' = [mem EXCEPT ![s] = ResolveMostCorrectJob(mem[s], v)]
      BY <2>1 DEF Change
    <3>3. ResolveMostCorrectJob(mem[s], v) \in Copy
      BY <3>1 DEF ResolveMostCorrectJob
    <3>4. changes' \in 0..MaxChanges
      BY <2>1 DEF Change
    <3> QED
      BY <2>1, <3>2, <3>3, <3>4 DEF Change
  <2>2. ASSUME NEW s \in Server, Broadcast(s)
        PROVE  TypeOK'
    BY <2>2 DEF Broadcast
  <2>3. ASSUME NEW s \in Server, NEW j \in inbox[s], Receive(s, j)
        PROVE  TypeOK'
    <3> DEFINE chosen == ResolveMostCorrectJob(mem[s], j)
    <3>1. j \in Copy /\ mem[s] \in Copy
      OBVIOUS
    <3>2. chosen \in Copy
      BY <3>1 DEF ResolveMostCorrectJob
    <3>3. SetRemoved(mem[s]) \in Copy
      BY <3>1 DEF SetRemoved, Copy, Job, NoReason
    <3> QED
      BY <2>3, <3>2, <3>3 DEF Receive
  <2>4. ASSUME NEW s \in Server, NEW j \in inbox[s], Lose(s, j)
        PROVE  TypeOK'
    BY <2>4 DEF Lose
  <2>5. CASE UNCHANGED vars
    BY <2>5 DEF vars
  <2> QED
    BY <1>2, <2>1, <2>2, <2>3, <2>4, <2>5 DEF Next
<1> QED
  BY <1>1, <1>2, PTL DEF Spec

-----------------------------------------------------------------------------
\* What a server holds when jobs are finished by their results only.
AllShown == \A s \in Server : IsJobOkForSending(mem[s])

Forward ==
  \A s \in Server : AtLeast(mem'[s], mem[s])

LEMMA ShownCopy ==
  ASSUME NEW j \in Copy, IsJobOkForSending(j)
  PROVE  j \in Shown({})
BY DEF Copy, Job, Shown, NoWorker

\* The steps that leave every copy as it is.
LEMMA SameIsForward ==
  ASSUME TypeOK, AllShown, UNCHANGED mem
  PROVE  AllShown' /\ Forward
<1>1. \A s \in Server : mem[s] \in Shown({})
  BY ShownCopy DEF TypeOK, AllShown
<1> QED
  BY <1>1, AtLeastReflexive DEF AllShown, Forward

\* A server whose copy is resolved against a shown one moves forward.
LEMMA ResolvedIsForward ==
  ASSUME TypeOK, AllShown, NEW s \in Server, NEW j \in Shown({}),
         mem' = [mem EXCEPT ![s] = ResolveMostCorrectJob(mem[s], j)]
  PROVE  AllShown' /\ Forward
<1>1. \A r \in Server : mem[r] \in Shown({})
  BY ShownCopy DEF TypeOK, AllShown
<1>2. /\ mem'[s] = ResolveMostCorrectJob(mem[s], j)
      /\ \A r \in Server \ {s} : mem'[r] = mem[r]
  BY DEF TypeOK
<1>3. /\ IsJobOkForSending(mem'[s])
      /\ AtLeast(mem'[s], mem[s])
  BY <1>1, <1>2, ResolveIsBest DEF Shown
<1> QED
  BY <1>1, <1>2, <1>3, AtLeastReflexive DEF AllShown, Forward

LEMMA StepIsForward ==
  ASSUME TypeOK, AllShown, [Next]_vars, Why \subseteq Worth
  PROVE  AllShown' /\ Forward
<1>1. ASSUME NEW s \in Server, Change(s)
      PROVE  AllShown' /\ Forward
  <2>1. PICK v \in Versions(mem[s]) :
          mem' = [mem EXCEPT ![s] = ResolveMostCorrectJob(mem[s], v)]
    BY <1>1 DEF Change
  <2>2. mem[s] \in Copy /\ Exists(mem[s])
    BY DEF TypeOK, AllShown, IsJobOkForSending
  <2>3. v \in Shown({})
    <3>1. CASE \E t \in Time : v = SetQueued(mem[s], t)
      BY <3>1, <2>2 DEF SetQueued, QueuedJob, Copy, Job, Shown, NoWorker, NoReason,
           IsJobOkForSending, IsUnfinished, Exists, NoJob
    <3>2. CASE \E w \in Worker, t \in Time : v = SetRunning(mem[s], w, t)
      BY <3>2, <2>2 DEF SetRunning, Copy, Job, Shown, NoWorker, NoReason,
           IsJobOkForSending, IsUnfinished, Exists, NoJob
    <3>3. CASE \E why \in Why, t \in Time : v = SetFinished(mem[s], why, t)
      <4>1. PICK why \in Why, t \in Time : v = SetFinished(mem[s], why, t)
        BY <3>3
      <4>2. why \in Worth /\ why \in Reasons /\ why # NoReason
        BY Why \subseteq Worth DEF Reasons, Worth, NoReason
      <4> QED
        BY <4>1, <4>2, <2>2 DEF SetFinished, Copy, Job, Shown, NoWorker,
             IsJobOkForSending, IsFinishedFor, Exists, NoJob
    <3> QED
      BY <3>1, <3>2, <3>3 DEF Versions
  <2> QED
    BY <2>1, <2>3, ResolvedIsForward
<1>2. ASSUME NEW s \in Server, Broadcast(s)
      PROVE  AllShown' /\ Forward
  BY <1>2, SameIsForward DEF Broadcast
<1>3. ASSUME NEW s \in Server, NEW j \in inbox[s], Receive(s, j)
      PROVE  AllShown' /\ Forward
  <2>1. j \in Shown({})
    BY ShownCopy DEF TypeOK
  <2>2. mem[s] \in Shown({})
    BY ShownCopy DEF TypeOK, AllShown
  <2>3. ~IsJobDeletedOrRemoved(ResolveMostCorrectJob(mem[s], j))
    BY <2>1, <2>2, ShownCases DEF ResolveMostCorrectJob, IsJobDeletedOrRemoved, IsFinishedFor
  <2>4. mem' = [mem EXCEPT ![s] = ResolveMostCorrectJob(mem[s], j)]
    BY <1>3, <2>3 DEF Receive
  <2> QED
    BY <2>1, <2>4, ResolvedIsForward
<1>4. ASSUME NEW s \in Server, NEW j \in inbox[s], Lose(s, j)
      PROVE  AllShown' /\ Forward
  BY <1>4, SameIsForward DEF Lose
<1>5. CASE UNCHANGED vars
  BY <1>5, SameIsForward DEF vars
<1> QED
  BY <1>1, <1>2, <1>3, <1>4, <1>5 DEF Next

LEMMA InitAllShown == Init => AllShown
BY DEF Init, AllShown, IsJobOkForSending, QueuedJob, IsUnfinished, Exists, NoJob

\* However changes, broadcasts, losses and late copies interleave, no server
\* replaces the copy it holds by one that stands lower.
THEOREM ServersNeverGoBack ==
  ASSUME Why \subseteq Worth
  PROVE  Spec => NeverBack
<1>1. TypeOK /\ AllShown /\ [Next]_vars => AllShown'
  BY StepIsForward
<1>2. TypeOK /\ AllShown /\ TypeOK' /\ [Next]_vars =>
        [\A s \in Server :
           IsJobOkForSending(mem[s]) =>
             IsJobOkForSending(mem'[s]) /\ AtLeast(mem'[s], mem[s])]_vars
  BY StepIsForward DEF AllShown, Forward
<1> QED
  BY <1>1, <1>2, InitAllShown, TypeCorrect, PTL DEF Spec, NeverBack

-----------------------------------------------------------------------------
LEMMA HeldStaysHeld ==
  ASSUME TypeOK, TypeOK', AllShown, AllShown', Forward, NothingBetterInFlight,
         NEW s \in Server, NEW j \in inbox[s]
  PROVE  \E r \in Server : IsJobOkForSending(mem'[r]) /\ AtLeast(mem'[r], j)
<1>1. PICK r \in Server : AtLeast(mem[r], j)
  BY DEF NothingBetterInFlight
<1>2. AtLeast(mem'[r], mem[r])
  BY DEF Forward
<1>3. /\ mem[r] \in Shown({})
      /\ mem'[r] \in Shown({})
      /\ j \in Shown({})
  BY ShownCopy DEF TypeOK, AllShown
<1> QED
  BY <1>1, <1>2, <1>3, AtLeastTransitive DEF AllShown

\* Whatever is in flight, a server holds a copy that stands as high: a message
\* that is lost takes nothing with it.
THEOREM ChannelIsNeverAhead ==
  ASSUME Why \subseteq Worth
  PROVE  Spec => []NothingBetterInFlight
<1>1. Init => NothingBetterInFlight
  BY DEF Init, NothingBetterInFlight
<1>2. ASSUME TypeOK, TypeOK', AllShown, NothingBetterInFlight, [Next]_vars
      PROVE  NothingBetterInFlight'
  <2>1. AllShown' /\ Forward
    BY <1>2, StepIsForward
  <2>2. ASSUME NEW s \in Server, NEW j \in inbox'[s]
        PROVE  \/ j \in inbox[s]
               \/ \E r \in Server : j = mem'[r]
    <3>1. CASE \E r \in Server : Broadcast(r)
      BY <2>2, <3>1, <1>2 DEF Broadcast, TypeOK
    <3>2. CASE \E r \in Server : \E i \in inbox[r] : Receive(r, i) \/ Lose(r, i)
      BY <2>2, <3>2, <1>2 DEF Receive, Lose, TypeOK
    <3>3. CASE (\E r \in Server : Change(r)) \/ UNCHANGED vars
      BY <2>2, <3>3 DEF Change, vars
    <3> QED
      BY <1>2, <3>1, <3>2, <3>3 DEF Next
  <2>3. ASSUME NEW s \in Server, NEW r \in Server
        PROVE  AtLeast(mem'[r], mem'[r])
    BY <1>2, <2>1, ShownCopy, AtLeastReflexive DEF TypeOK, AllShown
  <2> QED
    BY <1>2, <2>1, <2>2, <2>3, HeldStaysHeld DEF NothingBetterInFlight, AllShown
<1>3. TypeOK /\ AllShown /\ [Next]_vars => AllShown'
  BY StepIsForward
<1> QED
  BY <1>1, <1>2, <1>3, InitAllShown, TypeCorrect, PTL DEF Spec
=============================================================================
