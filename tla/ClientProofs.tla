------------------------------ MODULE ClientProofs ------------------------------
(***************************************************************************)
(* Client for any hashes, worlds and ways to end: the types; that a        *)
(* submission is not lost on its way; and that a job cancelled here stays  *)
(* cancelled until the user or a submission acts on it.                    *)
(*                                                                         *)
(* Most actions begin, continue or end one call of those under way, so the *)
(* proofs speak of the set of calls, Range(calls), and of the one call     *)
(* that an action touches.                                                 *)
(***************************************************************************)
EXTENDS Client, SequenceTheorems, TLAPS

-----------------------------------------------------------------------------
(* Sequences.                                                              *)

LEMMA Joined ==
  ASSUME NEW S, NEW a \in Seq(S), NEW b \in Seq(S), NEW r, r = a \o b
  PROVE  /\ r \in Seq(S) /\ Len(r) = Len(a) + Len(b)
         /\ \A j \in 1 .. Len(a) : r[j] = a[j]
         /\ \A j \in 1 .. Len(b) : r[Len(a) + j] = b[j]
<1>1. Len(a) \in Nat /\ Len(b) \in Nat
  OBVIOUS
<1>2. r \in Seq(S) /\ Len(r) = Len(a) + Len(b)
  OBVIOUS
<1>3. \A j \in 1 .. Len(a) : r[j] = a[j]
  BY <1>1
<1>4. \A j \in 1 .. Len(b) : r[Len(a) + j] = b[j]
  <2> TAKE j \in 1 .. Len(b)
  <2>1. Len(a) + j \in 1 .. Len(a) + Len(b) /\ ~(Len(a) + j <= Len(a)) /\ Len(a) + j - Len(a) = j
    BY <1>1
  <2> QED
    BY <1>1, <2>1, ConcatProperties
<1> QED
  BY <1>2, <1>3, <1>4

LEMMA RemovedAt ==
  ASSUME NEW S, NEW s \in Seq(S), NEW i \in DOMAIN s
  PROVE  /\ RemoveAt(s, i) \in Seq(S)
         /\ Range(RemoveAt(s, i)) \subseteq Range(s)
         /\ \A k \in DOMAIN s \ {i} : s[k] \in Range(RemoveAt(s, i))
<1> DEFINE front == SubSeq(s, 1, i - 1)
           back  == SubSeq(s, i + 1, Len(s))
           r     == RemoveAt(s, i)
<1>1. Len(s) \in Nat /\ DOMAIN s = 1 .. Len(s) /\ i \in 1 .. Len(s)
  OBVIOUS
<1>2. front \in Seq(S) /\ Len(front) = i - 1 /\ \A j \in 1 .. i - 1 : front[j] = s[j]
  BY <1>1
<1>3. /\ back \in Seq(S) /\ Len(back) = Len(s) - i
      /\ \A j \in 1 .. Len(s) - i : back[j] = s[i + j]
  BY <1>1
<1>4. r = front \o back
  BY DEF RemoveAt
<1> HIDE DEF r, front, back
<1>5. /\ r \in Seq(S) /\ Len(r) = Len(front) + Len(back)
      /\ \A j \in 1 .. Len(front) : r[j] = front[j]
      /\ \A j \in 1 .. Len(back) : r[Len(front) + j] = back[j]
  <2>1. front \in Seq(S) /\ back \in Seq(S)
    BY <1>2, <1>3
  <2> QED
    BY <2>1, <1>4, Joined
<1>6. /\ r \in Seq(S) /\ Len(r) = Len(s) - 1 /\ DOMAIN r = 1 .. Len(s) - 1
      /\ \A j \in 1 .. i - 1 : r[j] = s[j]
  BY <1>1, <1>2, <1>3, <1>5
<1>7. \A j \in i .. Len(s) - 1 : r[j] = s[j + 1]
  <2> TAKE j \in i .. Len(s) - 1
  <2> DEFINE b == j - (i - 1)
  <2>1. b \in 1 .. Len(s) - i /\ i - 1 + b = j /\ i + b = j + 1
    BY <1>1
  <2> HIDE DEF b
  <2> QED
    BY ZenonT(60), <1>2, <1>3, <1>5, <2>1
<1>8. Range(r) \subseteq Range(s)
  <2> SUFFICES ASSUME NEW j \in 1 .. Len(s) - 1
               PROVE  r[j] \in Range(s)
    BY <1>6 DEF Range
  <2>1. CASE j < i
    <3>1. j \in 1 .. i - 1 /\ j \in DOMAIN s
      BY <1>1, <2>1
    <3> QED
      BY <1>6, <3>1 DEF Range
  <2>2. CASE ~(j < i)
    <3>1. j \in i .. Len(s) - 1 /\ j + 1 \in DOMAIN s
      BY <1>1, <2>2
    <3> QED
      BY <1>7, <3>1 DEF Range
  <2> QED
    BY <2>1, <2>2
<1>9. ASSUME NEW k \in DOMAIN s \ {i}
      PROVE  s[k] \in Range(r)
  <2>1. CASE k < i
    <3>1. k \in 1 .. i - 1 /\ k \in 1 .. Len(s) - 1
      BY <1>1, <2>1
    <3> QED
      BY <1>6, <3>1 DEF Range
  <2>2. CASE k > i
    <3>1. k - 1 \in i .. Len(s) - 1 /\ k - 1 \in 1 .. Len(s) - 1 /\ k - 1 + 1 = k
      BY <1>1, <2>2
    <3>2. r[k - 1] = s[k]
      BY <1>7, <3>1
    <3> QED
      BY <1>6, <3>1, <3>2 DEF Range
  <2> QED
    BY <1>1, <2>1, <2>2
<1> QED
  BY <1>6, <1>8, <1>9 DEF r

LEMMA ReplacedAt ==
  ASSUME NEW S, NEW s \in Seq(S), NEW i \in DOMAIN s, NEW e \in S
  PROVE  /\ [s EXCEPT ![i] = e] \in Seq(S)
         /\ Range([s EXCEPT ![i] = e]) \subseteq Range(s) \cup {e}
         /\ e \in Range([s EXCEPT ![i] = e])
         /\ \A k \in DOMAIN s \ {i} : s[k] \in Range([s EXCEPT ![i] = e])
<1> DEFINE r == [s EXCEPT ![i] = e]
<1>1. r \in Seq(S) /\ DOMAIN r = DOMAIN s
  OBVIOUS
<1>2. r[i] = e /\ \A k \in DOMAIN s \ {i} : r[k] = s[k]
  OBVIOUS
<1> HIDE DEF r
<1> QED
  BY <1>1, <1>2 DEF Range, r

LEMMA Appended ==
  ASSUME NEW S, NEW s \in Seq(S), NEW e \in S
  PROVE  /\ Append(s, e) \in Seq(S)
         /\ Range(Append(s, e)) = Range(s) \cup {e}
<1> DEFINE r == Append(s, e)
<1>1. /\ r \in Seq(S) /\ Len(s) \in Nat /\ DOMAIN s = 1 .. Len(s) /\ DOMAIN r = 1 .. Len(s) + 1
      /\ r[Len(s) + 1] = e /\ \A k \in 1 .. Len(s) : r[k] = s[k]
  OBVIOUS
<1> HIDE DEF r
<1>2. Range(r) \subseteq Range(s) \cup {e}
  BY <1>1 DEF Range
<1>3. Range(s) \cup {e} \subseteq Range(r)
  <2>1. Len(s) + 1 \in 1 .. Len(s) + 1 /\ \A k \in 1 .. Len(s) : k \in 1 .. Len(s) + 1
    BY <1>1
  <2> QED
    BY <1>1, <2>1 DEF Range
<1> QED
  BY <1>1, <1>2, <1>3 DEF r

LEMMA Taken ==
  ASSUME NEW S, NEW s \in Seq(S), s # <<>>
  PROVE  /\ Head(s) \in S /\ Tail(s) \in Seq(S)
         /\ Range(s) = Range(Tail(s)) \cup {Head(s)}
<1>1. /\ Head(s) \in S /\ Tail(s) \in Seq(S) /\ Len(s) \in Nat \ {0} /\ DOMAIN s = 1 .. Len(s)
      /\ Head(s) = s[1] /\ Len(Tail(s)) = Len(s) - 1 /\ DOMAIN Tail(s) = 1 .. Len(s) - 1
      /\ \A k \in 1 .. Len(s) - 1 : Tail(s)[k] = s[k + 1]
  OBVIOUS
<1>2. Range(s) \subseteq Range(Tail(s)) \cup {Head(s)}
  <2> SUFFICES ASSUME NEW k \in 1 .. Len(s)
               PROVE  s[k] \in Range(Tail(s)) \cup {Head(s)}
    BY <1>1 DEF Range
  <2>1. CASE k = 1
    BY <1>1, <2>1
  <2>2. CASE k # 1
    <3>1. k - 1 \in 1 .. Len(s) - 1 /\ Tail(s)[k - 1] = s[k]
      BY <1>1, <2>2
    <3> QED
      BY <1>1, <3>1 DEF Range
  <2> QED
    BY <2>1, <2>2
<1>3. Range(Tail(s)) \cup {Head(s)} \subseteq Range(s)
  <2>1. 1 \in 1 .. Len(s) /\ \A k \in 1 .. Len(s) - 1 : k + 1 \in 1 .. Len(s)
    BY <1>1
  <2> QED
    BY <1>1, <2>1 DEF Range
<1> QED
  BY <1>1, <1>2, <1>3


-----------------------------------------------------------------------------
(* Calls.                                                                  *)

Maps  == [Hash -> AllCopies \cup {NoJob}]
Kinds == {"setJobStates", "setNewJobDefinition", "submitJob", "sendClientStateChange",
          "queryJob", "cancelJob", "deleteJobCache"}
Afterwards == {None, "resubmitJob", "submitJob"}

\* A call whose job may be undefined is a setJobStates that found no definition,
\* only those download, and there is a definition once a call has seen one.
Fit(call) ==
  /\ call.kind # "setJobStates" \/ call.at = "cache" => call.id # None
  /\ call.kind # "setJobStates" => call.loads = None
  /\ call.id # None => newJobDefinition # None

\* What the types leave open: the calls under way, what a page without a
\* definition has not done yet, and that only submissions are kept.
Settled ==
  /\ \A call \in Range(calls) : Fit(call)
  /\ newJobDefinition = None => jobState.id = None /\ "resubmitJob" \notin due
  /\ kept # None => kept.kind = "Queued"

IInv == TypeOK /\ Settled

LEMMA CallTypes ==
  ASSUME NEW call \in Calls
  PROVE  /\ call.kind \in Kinds /\ call.id \in Hash \cup {None}
         /\ call.at \in {"cache", "delete", "process"} /\ call.map \in Maps
         /\ call.todo \in SUBSET Hash /\ call.loads \in Hash \cup {None}
         /\ call.then \in Afterwards /\ call.time \in Nat
BY DEF Calls, Maps, Kinds, Afterwards

LEMMA BegunFits ==
  ASSUME NEW kind \in Kinds, NEW id \in Hash \cup {None}, NEW map \in Maps,
         NEW time \in Nat, NEW then \in Afterwards
  PROVE  /\ Begun(kind, id, map, time, then) \in Calls
         /\ Begun(kind, id, map, time, then).kind = kind
         /\ Begun(kind, id, map, time, then).id = id
         /\ Begun(kind, id, map, time, then).at = "cache"
         /\ Begun(kind, id, map, time, then).map = map
         /\ Begun(kind, id, map, time, then).loads = None
         /\ Begun(kind, id, map, time, then).then = then
         /\ Begun(kind, id, map, time, then).time = time
BY DEF Begun, Calls, Maps, Kinds, Afterwards

LEMMA SetJobStatesFits ==
  ASSUME NEW map \in Maps, newJobDefinition \in Hash \cup {None}
  PROVE  /\ SetJobStates(map) \in Calls
         /\ SetJobStates(map).kind = "setJobStates"
         /\ SetJobStates(map).id = newJobDefinition
         /\ SetJobStates(map).map = map
         /\ SetJobStates(map).loads = None
         /\ SetJobStates(map).at # "delete"
         /\ SetJobStates(map).at = "cache" <=> newJobDefinition # None
<1> DEFINE begun == Begun("setJobStates", newJobDefinition, map, 0, None)
<1>1. /\ begun \in Calls /\ begun.kind = "setJobStates" /\ begun.id = newJobDefinition
      /\ begun.map = map /\ begun.loads = None /\ begun.at = "cache"
  BY BegunFits DEF Kinds, Afterwards
<1>2. ToProcess(map) \in SUBSET Hash
  BY DEF ToProcess
<1>3. SetJobStates(map) = IF newJobDefinition = None
                          THEN [begun EXCEPT !.at = "process", !.todo = ToProcess(map)]
                          ELSE begun
  BY DEF SetJobStates
<1> HIDE DEF begun
<1> QED
  BY ZenonT(60), <1>1, <1>2, <1>3 DEF Calls

\* What a step of call i leaves of the others, and of the page.
LEMMA Continued ==
  ASSUME calls \in Seq(Calls), NEW i, i \in DOMAIN calls \/ i = Len(calls) + 1,
         NEW call \in Calls, Continue(i, call)
  PROVE  /\ calls' \in Seq(Calls) /\ Range(calls') \subseteq Range(calls) \cup {call}
         /\ \A k \in DOMAIN calls \ {i} : calls[k] \in Range(calls')
         /\ \/ UNCHANGED <<jobStates, jobState>> /\ call \in Range(calls')
            \/ /\ call.at = "process" /\ jobStates' = call.map
               /\ jobState' = [id  |-> call.id,
                               job |-> IF call.id = None THEN NoJob ELSE call.map[call.id]]
<1>0. i \notin DOMAIN calls => i = Len(calls) + 1
  OBVIOUS
<1>1. CASE call.at = "process" /\ call.todo = {}
  <2>1. calls' = IF i \in DOMAIN calls THEN RemoveAt(calls, i) ELSE calls
    BY <1>1 DEF Continue
  <2>2. /\ calls' \in Seq(Calls) /\ Range(calls') \subseteq Range(calls)
        /\ \A k \in DOMAIN calls \ {i} : calls[k] \in Range(calls')
    <3>1. CASE i \in DOMAIN calls
      BY <2>1, <3>1, RemovedAt
    <3>2. CASE i \notin DOMAIN calls
      BY <2>1, <3>2 DEF Range
    <3> QED
      BY <3>1, <3>2
  <2> QED
    BY <1>1, <2>2 DEF Continue
<1>2. CASE ~(call.at = "process" /\ call.todo = {})
  <2>1. calls' = IF i \in DOMAIN calls THEN ReplaceAt(calls, i, call) ELSE Append(calls, call)
    BY <1>2 DEF Continue
  <2>2. /\ calls' \in Seq(Calls) /\ Range(calls') \subseteq Range(calls) \cup {call}
        /\ \A k \in DOMAIN calls \ {i} : calls[k] \in Range(calls')
        /\ call \in Range(calls')
    <3>1. CASE i \in DOMAIN calls
      <4>1. calls' = [calls EXCEPT ![i] = call]
        BY <2>1, <3>1 DEF ReplaceAt
      <4> QED
        BY <3>1, <4>1, ReplacedAt
    <3>2. CASE i \notin DOMAIN calls
      <4>1. calls' = Append(calls, call)
        BY <2>1, <3>2
      <4>2. \A k \in DOMAIN calls : calls[k] \in Range(calls)
        BY DEF Range
      <4> QED
        BY <4>1, <4>2, Appended
    <3> QED
      BY <3>1, <3>2
  <2> QED
    BY <1>2, <2>2 DEF Continue
<1> QED
  BY <1>1, <1>2

\* The effects only wait for more, and for nothing new while the page, its
\* definition and the connection stay.
LEMMA Effected ==
  ASSUME NEW waiting, Effects(waiting)
  PROVE  /\ due' \subseteq waiting \cup {"queryJob", "submitJob"}
         /\ (newJobDefinition' = newJobDefinition /\ line' = line /\ jobState' = jobState)
              => due' = waiting
BY DEF Effects, SubmitsItself


-----------------------------------------------------------------------------
(* The types.                                                              *)

LEMMA CallUnderWay ==
  ASSUME IInv, NEW i \in DOMAIN calls
  PROVE  calls[i] \in Calls /\ calls[i] \in Range(calls) /\ Fit(calls[i])
<1>1. calls[i] \in Range(calls)
  BY DEF Range
<1>2. calls \in Seq(Calls)
  BY DEF IInv, TypeOK
<1> QED
  BY <1>1, <1>2 DEF IInv, Settled

\* What is left to show of a step that continues or begins one call.
LEMMA ContinuedFits ==
  ASSUME IInv, NEW i, i \in DOMAIN calls \/ i = Len(calls) + 1,
         NEW call \in Calls, Fit(call), Continue(i, call), newJobDefinition' = newJobDefinition
  PROVE  /\ calls' \in Seq(Calls) /\ \A c \in Range(calls') : Fit(c)'
         /\ jobStates' \in Maps
         /\ jobState' \in [id : Hash \cup {None}, job : AllCopies \cup {NoJob}]
         /\ newJobDefinition = None => jobState'.id = None
<1>1. /\ calls \in Seq(Calls) /\ jobStates \in Maps
      /\ jobState \in [id : Hash \cup {None}, job : AllCopies \cup {NoJob}]
      /\ newJobDefinition = None => jobState.id = None
      /\ \A c \in Range(calls) : Fit(c)
  BY DEF IInv, TypeOK, Maps, Settled
<1>2. /\ calls' \in Seq(Calls) /\ Range(calls') \subseteq Range(calls) \cup {call}
      /\ \/ UNCHANGED <<jobStates, jobState>> /\ call \in Range(calls')
         \/ /\ call.at = "process" /\ jobStates' = call.map
            /\ jobState' = [id  |-> call.id,
                            job |-> IF call.id = None THEN NoJob ELSE call.map[call.id]]
  BY <1>1, Continued
<1>3. \A c \in Range(calls') : Fit(c)'
  BY <1>1, <1>2 DEF Fit
<1>4. call.map \in Maps /\ call.id \in Hash \cup {None}
  BY CallTypes
<1>5. (IF call.id = None THEN NoJob ELSE call.map[call.id]) \in AllCopies \cup {NoJob}
  BY <1>4 DEF Maps
<1>6. newJobDefinition = None => call.id = None
  BY DEF Fit
<1> QED
  BY <1>1, <1>2, <1>3, <1>4, <1>5, <1>6

\* A call that ends without a word leaves the others as they are.
LEMMA RemovedFits ==
  ASSUME IInv, NEW i \in DOMAIN calls, calls' = RemoveAt(calls, i),
         newJobDefinition' = newJobDefinition
  PROVE  calls' \in Seq(Calls) /\ \A c \in Range(calls') : Fit(c)'
<1>1. calls \in Seq(Calls) /\ \A c \in Range(calls) : Fit(c)
  BY DEF IInv, TypeOK, Settled
<1>2. calls' \in Seq(Calls) /\ Range(calls') \subseteq Range(calls)
  BY <1>1, RemovedAt
<1> QED
  BY <1>1, <1>2 DEF Fit

LEMMA ReplacedFits ==
  ASSUME IInv, NEW i \in DOMAIN calls, NEW call \in Calls, Fit(call),
         calls' = [calls EXCEPT ![i] = call], newJobDefinition' = newJobDefinition
  PROVE  calls' \in Seq(Calls) /\ \A c \in Range(calls') : Fit(c)'
<1>1. calls \in Seq(Calls) /\ \A c \in Range(calls) : Fit(c)
  BY DEF IInv, TypeOK, Settled
<1>2. calls' \in Seq(Calls) /\ Range(calls') \subseteq Range(calls) \cup {call}
  BY <1>1, ReplacedAt
<1> QED
  BY <1>1, <1>2 DEF Fit

LEMMA SentTypes ==
  ASSUME NEW copy \in AllCopies \cup {NoJob}
  PROVE  /\ Sent(copy) \in AllCopies \cup {NoJob}
         /\ ~IsFinishedFor(Sent(copy), {"Deleted"})
BY DEF Sent, IsUnfinished, IsFinishedFor, NoJob, Worth

LEMMA ChosenTypes ==
  ASSUME NEW a, NEW b
  PROVE  ResolveMostCorrectJob(a, b) \in {a, b}
BY DEF ResolveMostCorrectJob

LEMMA CopyTypes ==
  ASSUME NEW time \in Nat, NEW payload \in BOOLEAN
  PROVE  /\ Copy("Queued", NoReason, time, FALSE) \in AllCopies
         /\ \A why \in Reasons : Copy("Finished", why, time, payload) \in AllCopies
BY DEF Copy, AllCopies, Reasons, Worth, NoReason

\* A submission, cancellation or deletion on its way.
LEMMA SendTypes ==
  ASSUME IInv, NEW message \in Messages, SendMessage(message)
  PROVE  /\ up' \in Seq(Messages) /\ kept' \in Messages \cup {None}
         /\ kept' # None => kept'.kind = "Queued"
         /\ Range(up) \subseteq Range(up')
         /\ line = "open" => message \in Range(up')
<1>1. up \in Seq(Messages) /\ kept \in Messages \cup {None} /\ (kept # None => kept.kind = "Queued")
  BY DEF IInv, TypeOK, Settled
<1>2. Append(up, message) \in Seq(Messages) /\ Range(Append(up, message)) = Range(up) \cup {message}
  BY <1>1, Appended
<1> QED
  BY <1>1, <1>2 DEF SendMessage


\* The next state of call i of setJobStates, for each step it can take.
LEMMA ResolvedFits ==
  ASSUME IInv, NEW i \in DOMAIN calls, Resolve(i)
  PROVE  /\ Resolved(calls[i]) \in Calls /\ Fit(Resolved(calls[i]))
         /\ Resolved(calls[i]).kind = "setJobStates" /\ Resolved(calls[i]).loads = calls[i].loads
         /\ \E v \in {calls[i].map[calls[i].id], cache[calls[i].id]} :
              Resolved(calls[i]).map = [calls[i].map EXCEPT ![calls[i].id] = v]
         /\ calls[i].id \in Hash
<1> DEFINE call == calls[i]
           v    == ResolveMostCorrectJob(call.map[call.id], cache[call.id])
           map  == [call.map EXCEPT ![call.id] = v]
<1>1. call \in Calls /\ Fit(call) /\ call.kind = "setJobStates" /\ call.at = "cache"
  BY CallUnderWay DEF Resolve
<1>2. call.id \in Hash /\ call.map \in Maps /\ cache \in Maps
  BY <1>1, CallTypes DEF Fit, IInv, TypeOK, Maps
<1>3. v \in {call.map[call.id], cache[call.id]}
  BY ChosenTypes
<1>4. map \in Maps
  BY <1>2, <1>3 DEF Maps
<1>5. ToProcess(map) \in SUBSET Hash
  BY DEF ToProcess
<1>6. Resolved(call) = [call EXCEPT !.at = "process", !.map = map, !.todo = ToProcess(map)]
  BY DEF Resolved
<1> HIDE DEF v, call
<1>7. map = [call.map EXCEPT ![call.id] = v]
  OBVIOUS
<1> HIDE DEF map
<1>8. /\ Resolved(call) \in Calls /\ Resolved(call).kind = call.kind
      /\ Resolved(call).loads = call.loads /\ Resolved(call).map = map
      /\ Resolved(call).id = call.id
  BY <1>1, <1>4, <1>5, <1>6 DEF Calls, Maps
<1>9. Fit(Resolved(call))
  BY <1>1, <1>8 DEF Fit
<1> QED
  BY <1>1, <1>2, <1>3, <1>7, <1>8, <1>9 DEF call

\* Call i with job h done, as Processed has it.
Handled(i, h, job) ==
  [calls[i] EXCEPT !.todo = @ \ {h}, !.loads = None, !.map[h] = job]

LEMMA ProcessedFits ==
  ASSUME IInv, NEW i \in DOMAIN calls, NEW h \in Hash, NEW job \in AllCopies \cup {NoJob}
  PROVE  /\ Handled(i, h, job) \in Calls /\ Fit(Handled(i, h, job))
         /\ Handled(i, h, job).kind = calls[i].kind /\ Handled(i, h, job).loads = None
         /\ Handled(i, h, job).map = [calls[i].map EXCEPT ![h] = job]
<1> DEFINE call == calls[i]
           next == [call EXCEPT !.todo = @ \ {h}, !.loads = None, !.map[h] = job]
<1>1. call \in Calls /\ Fit(call)
  BY CallUnderWay
<1> HIDE DEF call
<1>2. call.todo \in SUBSET Hash /\ call.map \in Maps
  BY <1>1, CallTypes
<1>3. [call.map EXCEPT ![h] = job] \in Maps
  BY <1>2 DEF Maps
<1>4. /\ next \in Calls /\ next.kind = call.kind /\ next.id = call.id /\ next.at = call.at
      /\ next.loads = None /\ next.map = [call.map EXCEPT ![h] = job]
  BY <1>1, <1>2, <1>3 DEF Calls, Maps
<1> HIDE DEF next
<1>5. Fit(next)
  BY <1>1, <1>4 DEF Fit
<1> QED
  BY <1>4, <1>5 DEF call, next, Handled

LEMMA LoadsFits ==
  ASSUME IInv, NEW i \in DOMAIN calls, calls[i].kind = "setJobStates", NEW h \in Hash
  PROVE  /\ [calls[i] EXCEPT !.loads = h] \in Calls /\ Fit([calls[i] EXCEPT !.loads = h])
         /\ [calls[i] EXCEPT !.loads = h].kind = "setJobStates"
         /\ [calls[i] EXCEPT !.loads = h].loads = h
         /\ [calls[i] EXCEPT !.loads = h].map = calls[i].map
         /\ [calls EXCEPT ![i].loads = h] = [calls EXCEPT ![i] = [calls[i] EXCEPT !.loads = h]]
<1> DEFINE call == calls[i]
           next == [call EXCEPT !.loads = h]
<1>1. call \in Calls /\ Fit(call) /\ call.kind = "setJobStates"
  BY CallUnderWay
<1>2. [calls EXCEPT ![i].loads = h] = [calls EXCEPT ![i] = next]
  OBVIOUS
<1> HIDE DEF call
<1>3. /\ next \in Calls /\ next.kind = call.kind /\ next.id = call.id /\ next.at = call.at
      /\ next.loads = h /\ next.map = call.map
  BY <1>1 DEF Calls
<1> HIDE DEF next
<1>4. Fit(next)
  BY <1>1, <1>3 DEF Fit
<1> QED
  BY <1>1, <1>2, <1>3, <1>4 DEF call, next

Noted(i, h, job) == [calls[i] EXCEPT !.map[h] = job]

LEMMA NotedFits ==
  ASSUME IInv, NEW i \in DOMAIN calls, NEW h \in Hash, NEW job \in AllCopies \cup {NoJob}
  PROVE  /\ Noted(i, h, job) \in Calls /\ Fit(Noted(i, h, job))
         /\ Noted(i, h, job).kind = calls[i].kind /\ Noted(i, h, job).loads = calls[i].loads
         /\ Noted(i, h, job).map = [calls[i].map EXCEPT ![h] = job]
<1> DEFINE call == calls[i]
           next == [call EXCEPT !.map[h] = job]
<1>1. call \in Calls /\ Fit(call)
  BY CallUnderWay
<1> HIDE DEF call
<1>3. [call.map EXCEPT ![h] = job] \in Maps
  BY <1>1, CallTypes DEF Maps
<1>4. /\ next \in Calls /\ next.kind = call.kind /\ next.id = call.id /\ next.at = call.at
      /\ next.loads = call.loads /\ next.map = [call.map EXCEPT ![h] = job]
  BY <1>1, <1>3 DEF Calls, Maps
<1> HIDE DEF next
<1>5. Fit(next)
  BY <1>1, <1>4 DEF Fit
<1> QED
  BY <1>4, <1>5 DEF call, next, Noted

\* What the steps of setJobStates find is a copy.
LEMMA FoundTypes ==
  ASSUME IInv, NEW i \in DOMAIN calls, NEW h \in Hash
  PROVE  /\ cache[h] \in AllCopies \cup {NoJob} /\ calls[i].map[h] \in AllCopies \cup {NoJob}
         /\ Exists(stored[h]) => /\ [stored[h] EXCEPT !.payload = TRUE] \in AllCopies
                                 /\ [stored[h] EXCEPT !.payload = TRUE].payload
<1>1. calls[i].map \in Maps
  BY CallUnderWay, CallTypes
<1>2. cache[h] \in AllCopies \cup {NoJob}
  BY DEF IInv, TypeOK
<1>3. stored[h] \in {NoJob} \cup {c \in AllCopies : IsFinishedFor(c, Worth)}
  BY DEF IInv, TypeOK
<1>4. Exists(stored[h]) => /\ [stored[h] EXCEPT !.payload = TRUE] \in AllCopies
                           /\ [stored[h] EXCEPT !.payload = TRUE].payload
  BY <1>3 DEF Exists, AllCopies, IsFinishedFor
<1> QED
  BY <1>1, <1>2, <1>4 DEF Maps


\* Each action keeps IInv.
LEMMA KeptBySetJobStates ==
  ASSUME IInv, NEW i \in DOMAIN calls, SetJobStatesGoesOn(i)
  PROVE  IInv'
<1>1. /\ UNCHANGED <<world, inputs, computing, newJobDefinition, net, environment, counters>>
      /\ Effects(due)
  BY DEF SetJobStatesGoesOn
<1>2. due' \subseteq due \cup {"queryJob", "submitJob"}
  BY <1>1, Effected
<1> DEFINE Goal == /\ calls' \in Seq(Calls) /\ \A c \in Range(calls') : Fit(c)'
                   /\ jobStates' \in Maps
                   /\ jobState' \in [id : Hash \cup {None}, job : AllCopies \cup {NoJob}]
                   /\ newJobDefinition = None => jobState'.id = None
                   /\ cache' \in [Hash -> {NoJob} \cup {c \in AllCopies : c.payload}]
<1>3. /\ cache \in [Hash -> {NoJob} \cup {c \in AllCopies : c.payload}]
      /\ jobStates \in Maps
      /\ jobState \in [id : Hash \cup {None}, job : AllCopies \cup {NoJob}]
      /\ newJobDefinition = None => jobState.id = None
  BY DEF IInv, TypeOK, Settled, Maps
<1>4. newJobDefinition' = newJobDefinition
  BY <1>1
<1>5. ASSUME Resolve(i) PROVE Goal
  <2>1. Continue(i, Resolved(calls[i])) /\ cache' = cache
    BY <1>5 DEF Resolve
  <2>2. Resolved(calls[i]) \in Calls /\ Fit(Resolved(calls[i]))
    BY <1>5, ResolvedFits
  <2> QED
    BY <1>3, <1>4, <2>1, <2>2, ContinuedFits
<1>6. ASSUME NEW h \in Hash, NEW job \in AllCopies \cup {NoJob}, Processed(i, h, job),
             cache' \in [Hash -> {NoJob} \cup {c \in AllCopies : c.payload}]
      PROVE  Goal
  <2>1. Continue(i, Handled(i, h, job))
    BY <1>6 DEF Processed, Handled
  <2>2. Handled(i, h, job) \in Calls /\ Fit(Handled(i, h, job))
    BY ProcessedFits
  <2> QED
    BY <1>4, <1>6, <2>1, <2>2, ContinuedFits
<1>7. ASSUME NEW h \in Hash, LooksForResult(i, h)
      PROVE  Goal
  <2>1. cache' = cache /\ calls[i].kind = "setJobStates"
    BY <1>7 DEF LooksForResult, IsProcessing
  <2>2. CASE Exists(cache[h])
    <3>1. Processed(i, h, cache[h]) /\ cache[h] \in AllCopies \cup {NoJob}
      BY <1>7, <2>2, FoundTypes DEF LooksForResult
    <3> QED
      BY <1>3, <1>6, <2>1, <3>1
  <2>3. CASE ~Exists(cache[h])
    <3>1. calls' = [calls EXCEPT ![i].loads = h] /\ UNCHANGED <<jobStates, jobState>>
      BY <1>7, <2>3 DEF LooksForResult
    <3>2. /\ [calls[i] EXCEPT !.loads = h] \in Calls /\ Fit([calls[i] EXCEPT !.loads = h])
          /\ calls' = [calls EXCEPT ![i] = [calls[i] EXCEPT !.loads = h]]
      BY <2>1, <3>1, LoadsFits
    <3>3. calls' \in Seq(Calls) /\ \A c \in Range(calls') : Fit(c)'
      BY <1>4, <3>2, ReplacedFits
    <3> QED
      BY <1>3, <2>1, <3>1, <3>3
  <2> QED
    BY <2>2, <2>3
<1>8. ASSUME NEW h \in Hash, Answered(i, h)
      PROVE  Goal
  <2>1. calls[i].map[h] \in AllCopies \cup {NoJob} /\ cache' = cache
    BY <1>8, FoundTypes DEF Answered
  <2>2. CASE Exists(stored[h])
    <3> DEFINE result == [stored[h] EXCEPT !.payload = TRUE]
    <3>1. calls' = [calls EXCEPT ![i] = Noted(i, h, result)] /\ UNCHANGED <<jobStates, jobState>>
      BY <1>8, <2>2 DEF Answered, Noted
    <3>2. result \in AllCopies
      BY <2>2, FoundTypes
    <3> HIDE DEF result
    <3>3. /\ Noted(i, h, result) \in Calls /\ Fit(Noted(i, h, result))
          /\ calls' = [calls EXCEPT ![i] = Noted(i, h, result)]
      BY <3>1, <3>2, NotedFits
    <3>4. calls' \in Seq(Calls) /\ \A c \in Range(calls') : Fit(c)'
      BY <1>4, <3>3, ReplacedFits
    <3> QED
      BY <1>3, <2>1, <3>1, <3>4
  <2>3. CASE ~Exists(stored[h])
    <3>1. Processed(i, h, calls[i].map[h])
      BY <1>8, <2>3 DEF Answered
    <3> QED
      BY <1>3, <1>6, <2>1, <3>1
  <2> QED
    BY <2>2, <2>3
<1>9. ASSUME NEW h \in Hash, Saved(i, h)
      PROVE  Goal
  <2> DEFINE job == calls[i].map[h]
  <2>1. Processed(i, h, job) /\ cache' = [cache EXCEPT ![h] = job]
    BY <1>9 DEF Saved
  <2>2. job \in AllCopies \cup {NoJob} /\ job.state = "Finished" /\ job.payload
    BY <1>9, FoundTypes DEF Saved, HasResult
  <2> HIDE DEF job
  <2>3. cache' \in [Hash -> {NoJob} \cup {c \in AllCopies : c.payload}]
    BY <1>3, <2>1, <2>2 DEF NoJob
  <2> QED
    BY <1>6, <2>1, <2>2, <2>3
<1>10. ASSUME NEW h \in Hash, DeletesEntry(i, h)
       PROVE  Goal
  <2>1. calls[i].map[h] \in AllCopies \cup {NoJob}
    BY FoundTypes
  <2>2. Processed(i, h, calls[i].map[h]) /\ cache' = [cache EXCEPT ![h] = NoJob]
    BY <1>10 DEF DeletesEntry
  <2>3. cache' \in [Hash -> {NoJob} \cup {c \in AllCopies : c.payload}]
    BY <1>3, <2>2
  <2> QED
    BY <1>6, <2>1, <2>2, <2>3
<1>11. Goal
  <2> HIDE DEF Goal
  <2> QED
    BY <1>5, <1>7, <1>8, <1>9, <1>10 DEF SetJobStatesGoesOn
<1> QED
  BY <1>1, <1>2, <1>11 DEF IInv, TypeOK, Settled, Maps, net, environment, counters


LEMMA KeptByRefresh ==
  ASSUME IInv, NEW i \in DOMAIN calls, RefreshGoesOn(i)
  PROVE  IInv'
<1> DEFINE h == calls[i].id
<1>1. /\ calls[i].kind = "setNewJobDefinition" /\ calls' = RemoveAt(calls, i)
      /\ UNCHANGED <<world, inputs, computing, newJobDefinition, jobStates, cache, net,
                     environment, counters>>
      /\ Effects(due)
      /\ jobState' = IF Exists(jobStates[h])
                     THEN [id |-> h, job |-> IF Exists(cache[h]) /\ ~IsJobDeletedOrRemoved(cache[h])
                                             THEN cache[h] ELSE calls[i].map[h]]
                     ELSE EmptyJobStateTuple
  BY DEF RefreshGoesOn
<1>2. due' \subseteq due \cup {"queryJob", "submitJob"}
  BY <1>1, Effected
<1>3. h \in Hash /\ newJobDefinition # None
  BY <1>1, CallUnderWay, CallTypes DEF Fit
<1> HIDE DEF h
<1>4. cache[h] \in AllCopies \cup {NoJob} /\ calls[i].map[h] \in AllCopies \cup {NoJob}
  BY <1>3, FoundTypes
<1>5. jobState' \in [id : Hash \cup {None}, job : AllCopies \cup {NoJob}]
  BY <1>1, <1>3, <1>4 DEF EmptyJobStateTuple
<1>6. calls' \in Seq(Calls) /\ \A c \in Range(calls') : Fit(c)'
  BY <1>1, RemovedFits
<1> QED
  BY <1>1, <1>2, <1>3, <1>5, <1>6 DEF IInv, TypeOK, Settled, net, environment, counters

LEMMA KeptByQuery ==
  ASSUME IInv, NEW i \in DOMAIN calls, QueryGoesOn(i)
  PROVE  IInv'
<1> DEFINE h    == calls[i].id
           map  == [jobStates EXCEPT ![h] = cache[h]]
           next == SetJobStates(map)
           Goal == /\ calls' \in Seq(Calls) /\ \A c \in Range(calls') : Fit(c)'
                   /\ jobStates' \in Maps
                   /\ jobState' \in [id : Hash \cup {None}, job : AllCopies \cup {NoJob}]
                   /\ newJobDefinition = None => jobState'.id = None
<1>1. /\ calls[i].kind = "queryJob"
      /\ IF Exists(cache[h]) /\ ~IsJobDeletedOrRemoved(cache[h])
         THEN Continue(i, next)
         ELSE calls' = RemoveAt(calls, i) /\ UNCHANGED <<jobStates, jobState>>
      /\ UNCHANGED <<world, inputs, computing, newJobDefinition, cache, net, environment, counters>>
      /\ Effects(due)
  BY DEF QueryGoesOn
<1>2. due' \subseteq due \cup {"queryJob", "submitJob"}
  BY <1>1, Effected
<1>3. h \in Hash
  BY <1>1, CallUnderWay, CallTypes DEF Fit
<1>4. cache[h] \in AllCopies \cup {NoJob}
  BY <1>3, FoundTypes
<1>5. /\ jobStates \in Maps /\ newJobDefinition \in Hash \cup {None}
      /\ jobState \in [id : Hash \cup {None}, job : AllCopies \cup {NoJob}]
      /\ newJobDefinition = None => jobState.id = None
  BY DEF IInv, TypeOK, Settled, Maps
<1>6. map \in Maps
  BY <1>4, <1>5 DEF Maps
<1> HIDE DEF map
<1>7. next \in Calls /\ Fit(next)
  BY <1>5, <1>6, SetJobStatesFits DEF Fit
<1> HIDE DEF next
<1>8. Goal
  <2>1. newJobDefinition' = newJobDefinition
    BY <1>1
  <2>2. CASE Continue(i, next)
    BY <1>7, <2>1, <2>2, ContinuedFits
  <2>3. CASE calls' = RemoveAt(calls, i) /\ UNCHANGED <<jobStates, jobState>>
    BY <1>5, <2>1, <2>3, RemovedFits
  <2> QED
    BY <1>1, <2>2, <2>3
<1> QED
  BY <1>1, <1>2, <1>8 DEF IInv, TypeOK, Settled, Maps, net, environment, counters

LEMMA KeptBySubmitGoesOn ==
  ASSUME IInv, NEW i \in DOMAIN calls, SubmitGoesOn(i)
  PROVE  IInv'
<1> DEFINE h     == calls[i].id
           found == calls[i].at = "cache" /\ Exists(cache[h])
           next  == IF found THEN [calls[i] EXCEPT !.at = "delete"]
                    ELSE Begun("sendClientStateChange", h, Empty, clock + 1, None)
<1>1. /\ calls[i].kind = "submitJob"
      /\ calls' = [calls EXCEPT ![i] = next]
      /\ clock' = IF found THEN clock ELSE clock + 1
      /\ cache' = IF calls[i].at = "delete" THEN [cache EXCEPT ![h] = NoJob] ELSE cache
      /\ UNCHANGED <<world, inputs, computing, store, due, net, environment, acts, cuts>>
  BY DEF SubmitGoesOn
<1>2. calls[i] \in Calls /\ Fit(calls[i]) /\ h \in Hash
  BY <1>1, CallUnderWay, CallTypes DEF Fit
<1>3. Empty \in Maps /\ clock + 1 \in Nat
  BY DEF Empty, Maps, IInv, TypeOK
<1>4. next \in Calls /\ Fit(next)
  <2>1. CASE found
    <3> DEFINE deleting == [calls[i] EXCEPT !.at = "delete"]
    <3>1. /\ deleting \in Calls /\ deleting.kind = calls[i].kind /\ deleting.id = calls[i].id
          /\ deleting.loads = calls[i].loads
      BY <1>2 DEF Calls
    <3> HIDE DEF deleting
    <3>2. Fit(deleting)
      BY <1>1, <1>2, <3>1 DEF Fit
    <3> QED
      BY <2>1, <3>1, <3>2 DEF deleting
  <2>2. CASE ~found
    <3> DEFINE sending == Begun("sendClientStateChange", h, Empty, clock + 1, None)
    <3> HIDE DEF h
    <3>1. /\ sending \in Calls /\ sending.kind = "sendClientStateChange" /\ sending.id = h
          /\ sending.loads = None
      BY <1>2, <1>3, BegunFits DEF Kinds, Afterwards
    <3> HIDE DEF sending
    <3>2. Fit(sending)
      BY <1>1, <1>2, <3>1 DEF Fit, h
    <3> QED
      BY <2>2, <3>1, <3>2 DEF sending, h
  <2> QED
    BY <2>1, <2>2
<1> HIDE DEF next
<1>5. newJobDefinition' = newJobDefinition
  BY <1>1 DEF store
<1>6. calls' \in Seq(Calls) /\ \A c \in Range(calls') : Fit(c)'
  BY <1>1, <1>4, <1>5, ReplacedFits
<1>7. cache' \in [Hash -> {NoJob} \cup {c \in AllCopies : c.payload}] /\ clock' \in Nat
  BY <1>1, <1>3 DEF IInv, TypeOK
<1> QED
  BY <1>1, <1>6, <1>7 DEF IInv, TypeOK, Settled, store, net, environment

LEMMA KeptBySendClientStateChange ==
  ASSUME IInv, NEW i \in DOMAIN calls, SendClientStateChange(i)
  PROVE  IInv'
<1> DEFINE h       == calls[i].id
           map     == [jobStates EXCEPT ![h] = cache[h]]
           next    == SetJobStates(map)
           message == [job |-> h, kind |-> "Queued", time |-> calls[i].time]
           Goal == /\ calls' \in Seq(Calls) /\ \A c \in Range(calls') : Fit(c)'
                   /\ jobStates' \in Maps
                   /\ jobState' \in [id : Hash \cup {None}, job : AllCopies \cup {NoJob}]
                   /\ newJobDefinition = None => jobState'.id = None
                   /\ up' \in Seq(Messages) /\ kept' \in Messages \cup {None}
                   /\ kept' # None => kept'.kind = "Queued"
<1>1. /\ calls[i].kind = "sendClientStateChange"
      /\ IF Worthy(cache[h])
         THEN Continue(i, next) /\ UNCHANGED <<kept, up>>
         ELSE calls' = RemoveAt(calls, i) /\ SendMessage(message) /\ UNCHANGED <<jobStates, jobState>>
      /\ UNCHANGED <<world, inputs, computing, newJobDefinition, cache, line, environment, counters>>
      /\ Effects(due)
  BY DEF SendClientStateChange
<1>2. due' \subseteq due \cup {"queryJob", "submitJob"}
  BY <1>1, Effected
<1>3. h \in Hash /\ calls[i].time \in Nat
  BY <1>1, CallUnderWay, CallTypes DEF Fit
<1>4. cache[h] \in AllCopies \cup {NoJob}
  BY <1>3, FoundTypes
<1>5. message \in Messages
  BY <1>3 DEF Messages
<1>6. /\ jobStates \in Maps /\ newJobDefinition \in Hash \cup {None}
      /\ jobState \in [id : Hash \cup {None}, job : AllCopies \cup {NoJob}]
      /\ newJobDefinition = None => jobState.id = None
      /\ up \in Seq(Messages) /\ kept \in Messages \cup {None} /\ (kept # None => kept.kind = "Queued")
  BY DEF IInv, TypeOK, Settled, Maps
<1>7. map \in Maps
  BY <1>4, <1>6 DEF Maps
<1> HIDE DEF map, message
<1>8. next \in Calls /\ Fit(next)
  BY <1>6, <1>7, SetJobStatesFits DEF Fit
<1> HIDE DEF next
<1>9. Goal
  <2>1. newJobDefinition' = newJobDefinition
    BY <1>1
  <2>2. CASE Continue(i, next) /\ UNCHANGED <<kept, up>>
    BY <1>6, <1>8, <2>1, <2>2, ContinuedFits
  <2>3. CASE calls' = RemoveAt(calls, i) /\ SendMessage(message) /\ UNCHANGED <<jobStates, jobState>>
    BY <1>5, <1>6, <2>1, <2>3, RemovedFits, SendTypes
  <2> QED
    BY <1>1, <2>2, <2>3
<1> QED
  BY <1>1, <1>2, <1>9 DEF IInv, TypeOK, Settled, Maps, environment, counters


LEMMA KeptByEndsJob ==
  ASSUME IInv, NEW i \in DOMAIN calls, EndsJobGoesOn(i)
  PROVE  IInv'
<1> DEFINE h       == calls[i].id
           why     == IF calls[i].kind = "cancelJob" THEN "Cancelled" ELSE "Deleted"
           copy    == Copy("Finished", why, calls[i].time, TRUE)
           map     == [jobStates EXCEPT ![h] = copy]
           next    == SetJobStates(map)
           message == [job |-> h, kind |-> why, time |-> calls[i].time]
           waiting == due \cup ({calls[i].then} \ {None})
<1>1. /\ calls[i].kind \in {"cancelJob", "deleteJobCache"}
      /\ cache' = [cache EXCEPT ![h] = copy]
      /\ SendMessage(message)
      /\ Continue(i, next)
      /\ UNCHANGED <<world, inputs, computing, newJobDefinition, line, environment, counters>>
      /\ Effects(waiting)
  BY DEF EndsJobGoesOn, TellServer
<1>2. due' \subseteq waiting \cup {"queryJob", "submitJob"}
  BY <1>1, Effected
<1>3. /\ h \in Hash /\ newJobDefinition # None /\ calls[i].time \in Nat
      /\ calls[i].then \in Afterwards
  BY <1>1, CallUnderWay, CallTypes DEF Fit
<1>4. why \in {"Cancelled", "Deleted"} /\ why \in Reasons
  BY DEF Reasons
<1>5. copy \in AllCopies /\ copy.payload
  BY <1>3, <1>4, CopyTypes DEF Copy
<1>6. message \in Messages
  BY <1>3, <1>4 DEF Messages
<1>7. /\ jobStates \in Maps /\ newJobDefinition \in Hash \cup {None}
      /\ cache \in [Hash -> {NoJob} \cup {c \in AllCopies : c.payload}]
      /\ due \subseteq {"submitJob", "queryJob", "resubmitJob", "changed"}
  BY DEF IInv, TypeOK, Maps
<1> HIDE DEF copy, message, why
<1>8. map \in Maps /\ cache' \in [Hash -> {NoJob} \cup {c \in AllCopies : c.payload}]
  BY <1>1, <1>3, <1>5, <1>7 DEF Maps
<1>9. due' \subseteq {"submitJob", "queryJob", "resubmitJob", "changed"}
  BY <1>2, <1>3, <1>7 DEF Afterwards
<1> HIDE DEF map
<1>10. next \in Calls /\ Fit(next)
  BY <1>7, <1>8, SetJobStatesFits DEF Fit
<1> HIDE DEF next
<1>11. /\ calls' \in Seq(Calls) /\ \A c \in Range(calls') : Fit(c)'
       /\ jobStates' \in Maps
       /\ jobState' \in [id : Hash \cup {None}, job : AllCopies \cup {NoJob}]
  BY <1>1, <1>10, ContinuedFits
<1>12. /\ up' \in Seq(Messages) /\ kept' \in Messages \cup {None}
       /\ kept' # None => kept'.kind = "Queued"
  BY <1>1, <1>6, SendTypes
<1> QED
  BY <1>1, <1>3, <1>8, <1>9, <1>11, <1>12 DEF IInv, TypeOK, Settled, Maps, environment, counters

LEMMA KeptByDownloadThrows ==
  ASSUME IInv, NEW i \in DOMAIN calls, DownloadThrows(i)
  PROVE  IInv'
<1>1. /\ cuts < world.cuts /\ cuts' = cuts + 1 /\ calls' = RemoveAt(calls, i)
      /\ UNCHANGED <<world, inputs, computing, store, cache, due, net, environment, clock, acts>>
  BY DEF DownloadThrows
<1>2. newJobDefinition' = newJobDefinition
  BY <1>1 DEF store
<1>3. calls' \in Seq(Calls) /\ \A c \in Range(calls') : Fit(c)'
  BY <1>1, <1>2, RemovedFits
<1>4. world \in World /\ world.cuts \in Nat
  BY ClientAssumption DEF IInv, TypeOK
<1>5. cuts' \in 0 .. world.cuts
  BY <1>1, <1>4 DEF IInv, TypeOK
<1> QED
  BY <1>1, <1>3, <1>5 DEF IInv, TypeOK, Settled, store, net, environment

\* A call that begins: none of those under way is touched.
LEMMA BeganFits ==
  ASSUME IInv, NEW call \in Calls, Fit(call), Begin(call), newJobDefinition' = newJobDefinition
  PROVE  /\ calls' \in Seq(Calls) /\ \A c \in Range(calls') : Fit(c)'
         /\ jobStates' \in Maps
         /\ jobState' \in [id : Hash \cup {None}, job : AllCopies \cup {NoJob}]
         /\ newJobDefinition = None => jobState'.id = None
BY ContinuedFits DEF Begin

LEMMA KeptBySubmitJob ==
  ASSUME IInv, SubmitJob
  PROVE  IInv'
<1> DEFINE call == Begun("submitJob", newJobDefinition, Empty, 0, None)
<1>1. /\ IF newJobDefinition = None THEN UNCHANGED <<calls, jobStates, jobState>> ELSE Begin(call)
      /\ UNCHANGED <<world, inputs, computing, newJobDefinition, cache, net, environment, counters>>
      /\ Effects(due \ {"submitJob"})
  BY DEF SubmitJob
<1>2. due' \subseteq due \cup {"queryJob", "submitJob"}
  BY <1>1, Effected
<1>3. newJobDefinition \in Hash \cup {None} /\ Empty \in Maps
  BY DEF IInv, TypeOK, Empty, Maps
<1>4. (call \in Calls /\ Fit(call)) \/ newJobDefinition = None
  BY <1>3, BegunFits DEF Kinds, Afterwards, Fit
<1> HIDE DEF call
<1>5. newJobDefinition' = newJobDefinition
  BY <1>1
<1>6. CASE newJobDefinition = None
  BY <1>1, <1>2, <1>6 DEF IInv, TypeOK, Settled, net, environment, counters, Fit
<1>7. CASE newJobDefinition # None
  <2>1. /\ calls' \in Seq(Calls) /\ \A c \in Range(calls') : Fit(c)'
        /\ jobStates' \in Maps
        /\ jobState' \in [id : Hash \cup {None}, job : AllCopies \cup {NoJob}]
    BY <1>1, <1>4, <1>5, <1>7, BeganFits
  <2> QED
    BY <1>1, <1>2, <1>7, <2>1 DEF IInv, TypeOK, Settled, Maps, net, environment, counters
<1> QED
  BY <1>6, <1>7

LEMMA KeptByQueryJob ==
  ASSUME IInv, QueryJob
  PROVE  IInv'
<1> DEFINE call == Begun("queryJob", newJobDefinition, Empty, 0, None)
<1>1. /\ IF newJobDefinition = None THEN UNCHANGED <<calls, jobStates, jobState, untold>>
         ELSE /\ Begin(call)
              /\ untold' = IF line = "open" THEN untold \cup {newJobDefinition} ELSE untold
      /\ UNCHANGED <<world, inputs, computing, newJobDefinition, cache, net, server, stored, counters>>
      /\ Effects(due \ {"queryJob"})
  BY DEF QueryJob
<1>2. due' \subseteq due \cup {"queryJob", "submitJob"}
  BY <1>1, Effected
<1>3. newJobDefinition \in Hash \cup {None} /\ Empty \in Maps
  BY DEF IInv, TypeOK, Empty, Maps
<1>4. (call \in Calls /\ Fit(call)) \/ newJobDefinition = None
  BY <1>3, BegunFits DEF Kinds, Afterwards, Fit
<1> HIDE DEF call
<1>5. newJobDefinition' = newJobDefinition
  BY <1>1
<1>6. CASE newJobDefinition = None
  BY <1>1, <1>2, <1>6 DEF IInv, TypeOK, Settled, net, environment, counters, Fit
<1>7. CASE newJobDefinition # None
  <2>1. /\ calls' \in Seq(Calls) /\ \A c \in Range(calls') : Fit(c)'
        /\ jobStates' \in Maps
        /\ jobState' \in [id : Hash \cup {None}, job : AllCopies \cup {NoJob}]
    BY <1>1, <1>4, <1>5, <1>7, BeganFits
  <2>2. untold' \in SUBSET Hash
    BY <1>1, <1>3, <1>7 DEF IInv, TypeOK
  <2> QED
    BY <1>1, <1>2, <1>7, <2>1, <2>2 DEF IInv, TypeOK, Settled, Maps, net, environment, counters
<1> QED
  BY <1>6, <1>7

LEMMA KeptByResubmitJob ==
  ASSUME IInv, ResubmitJob
  PROVE  IInv'
<1> DEFINE call == Begun("deleteJobCache", newJobDefinition, Empty, 0, "submitJob")
<1>1. /\ "resubmitJob" \in due /\ due' = due \ {"resubmitJob"}
      /\ Begin(call)
      /\ UNCHANGED <<world, inputs, computing, newJobDefinition, cache, net, environment, counters>>
  BY DEF ResubmitJob, DeleteJobCache
<1>2. newJobDefinition \in Hash /\ newJobDefinition # None /\ Empty \in Maps
  BY <1>1 DEF IInv, TypeOK, Settled, Empty, Maps
<1>3. call \in Calls /\ Fit(call)
  BY <1>2, BegunFits DEF Kinds, Afterwards, Fit
<1> HIDE DEF call
<1>4. newJobDefinition' = newJobDefinition
  BY <1>1
<1>5. /\ calls' \in Seq(Calls) /\ \A c \in Range(calls') : Fit(c)'
      /\ jobStates' \in Maps
      /\ jobState' \in [id : Hash \cup {None}, job : AllCopies \cup {NoJob}]
  BY <1>1, <1>3, <1>4, BeganFits
<1> QED
  BY <1>1, <1>2, <1>5 DEF IInv, TypeOK, Settled, Maps, net, environment, counters


\* The user has one act less.
LEMMA Acted ==
  ASSUME IInv, Act
  PROVE  acts' # acts /\ (world' = world => acts' \in 0 .. world'.acts)
<1>1. world \in World /\ world.acts \in Nat
  BY ClientAssumption DEF IInv, TypeOK
<1> QED
  BY <1>1 DEF Act, IInv, TypeOK

LEMMA KeptByClickCancel ==
  ASSUME IInv, ClickCancel
  PROVE  IInv'
<1> DEFINE call == Begun("cancelJob", jobState.id, Empty, clock', None)
<1>1. /\ Act /\ jobState.id # None /\ clock' = clock + 1 /\ Begin(call)
      /\ UNCHANGED <<world, inputs, computing, newJobDefinition, cache, due, net, environment, cuts>>
  BY DEF ClickCancel
<1>2. clock' \in Nat /\ jobState.id \in Hash /\ newJobDefinition # None /\ Empty \in Maps
  BY <1>1 DEF IInv, TypeOK, Settled, Empty, Maps
<1>3. call \in Calls /\ Fit(call)
  <2> DEFINE now == clock'
  <2>1. call = Begun("cancelJob", jobState.id, Empty, now, None) /\ now \in Nat
    BY <1>2
  <2> HIDE DEF now, call
  <2>2. /\ call \in Calls /\ call.kind = "cancelJob" /\ call.at = "cache"
        /\ call.id = jobState.id /\ call.loads = None
    BY <1>2, <2>1, BegunFits DEF Kinds, Afterwards
  <2> QED
    BY <1>1, <1>2, <2>2 DEF Fit
<1> HIDE DEF call
<1>4. newJobDefinition' = newJobDefinition
  BY <1>1
<1>5. /\ calls' \in Seq(Calls) /\ \A c \in Range(calls') : Fit(c)'
      /\ jobStates' \in Maps
      /\ jobState' \in [id : Hash \cup {None}, job : AllCopies \cup {NoJob}]
  BY <1>1, <1>3, <1>4, BeganFits
<1>6. acts' \in 0 .. world'.acts
  BY <1>1, Acted
<1> QED
  BY <1>1, <1>2, <1>5, <1>6 DEF IInv, TypeOK, Settled, Maps, net, environment

LEMMA KeptByClickDelete ==
  ASSUME IInv, ClickDelete
  PROVE  IInv'
<1> DEFINE then == IF world.autostart THEN "resubmitJob" ELSE None
           call == Begun("deleteJobCache", newJobDefinition, Empty, 0, then)
<1>1. /\ Act /\ newJobDefinition # None /\ Begin(call)
      /\ UNCHANGED <<world, inputs, computing, newJobDefinition, cache, due, net, environment,
                     clock, cuts>>
  BY DEF ClickDelete, DeleteJobCache
<1>2. newJobDefinition \in Hash /\ Empty \in Maps /\ then \in Afterwards
  BY <1>1 DEF IInv, TypeOK, Empty, Maps, Afterwards
<1> HIDE DEF then
<1>3. call \in Calls /\ Fit(call)
  BY <1>1, <1>2, BegunFits DEF Kinds, Fit
<1> HIDE DEF call
<1>4. newJobDefinition' = newJobDefinition
  BY <1>1
<1>5. /\ calls' \in Seq(Calls) /\ \A c \in Range(calls') : Fit(c)'
      /\ jobStates' \in Maps
      /\ jobState' \in [id : Hash \cup {None}, job : AllCopies \cup {NoJob}]
  BY <1>1, <1>3, <1>4, BeganFits
<1>6. acts' \in 0 .. world'.acts
  BY <1>1, Acted
<1> QED
  BY <1>1, <1>5, <1>6 DEF IInv, TypeOK, Settled, Maps, net, environment

LEMMA KeptByHearJobStates ==
  ASSUME IInv, HearJobStates
  PROVE  IInv'
<1> DEFINE map  == [h \in Hash |-> Sent(server[h])]
           call == SetJobStates(map)
<1>1. /\ Begin(call)
      /\ UNCHANGED <<world, inputs, computing, newJobDefinition, cache, net, environment, counters>>
      /\ Effects(due)
  BY DEF HearJobStates
<1>2. due' \subseteq due \cup {"queryJob", "submitJob"}
  BY <1>1, Effected
<1>3. map \in Maps /\ newJobDefinition \in Hash \cup {None}
  BY SentTypes DEF IInv, TypeOK, Maps
<1> HIDE DEF map
<1>4. call \in Calls /\ Fit(call)
  BY <1>3, SetJobStatesFits DEF Fit
<1> HIDE DEF call
<1>5. newJobDefinition' = newJobDefinition
  BY <1>1
<1>6. /\ calls' \in Seq(Calls) /\ \A c \in Range(calls') : Fit(c)'
      /\ jobStates' \in Maps
      /\ jobState' \in [id : Hash \cup {None}, job : AllCopies \cup {NoJob}]
      /\ newJobDefinition = None => jobState'.id = None
  BY <1>1, <1>4, <1>5, BeganFits
<1> QED
  BY <1>1, <1>2, <1>6 DEF IInv, TypeOK, Settled, Maps, net, environment, counters

\* An update says of one job what the server or the store has.
Updated(h) ==
  LET said == Sent(IF Exists(server[h]) THEN server[h] ELSE stored[h]) IN
  IF Exists(said) THEN [jobStates EXCEPT ![h] = said] ELSE jobStates

LEMMA UpdatedTypes ==
  ASSUME IInv, NEW h \in Hash
  PROVE  /\ Updated(h) \in Maps
         /\ \A k \in Hash : \/ Updated(h)[k] = jobStates[k]
                            \/ ~IsFinishedFor(Updated(h)[k], {"Deleted"})
<1> DEFINE had  == IF Exists(server[h]) THEN server[h] ELSE stored[h]
           said == Sent(had)
<1>1. /\ server \in Maps /\ stored[h] \in {NoJob} \cup {c \in AllCopies : IsFinishedFor(c, Worth)}
      /\ jobStates \in Maps
  BY DEF IInv, TypeOK, Maps
<1>2. had \in AllCopies \cup {NoJob}
  BY <1>1 DEF Maps
<1> HIDE DEF had
<1>3. said \in AllCopies \cup {NoJob} /\ ~IsFinishedFor(said, {"Deleted"})
  BY <1>2, SentTypes
<1>4. Updated(h) = IF Exists(said) THEN [jobStates EXCEPT ![h] = said] ELSE jobStates
  BY DEF Updated, had
<1> HIDE DEF said
<1> QED
  BY <1>1, <1>3, <1>4 DEF Maps

LEMMA KeptByHearJobStateUpdates ==
  ASSUME IInv, NEW h \in Hash, HearJobStateUpdates(h)
  PROVE  IInv'
<1> DEFINE call == SetJobStates(Updated(h))
<1>1. /\ Begin(call) /\ untold' = untold \ {h}
      /\ UNCHANGED <<world, inputs, computing, newJobDefinition, cache, net, server, stored, counters>>
      /\ Effects(due)
  BY DEF HearJobStateUpdates, Updated
<1>2. due' \subseteq due \cup {"queryJob", "submitJob"}
  BY <1>1, Effected
<1>3. Updated(h) \in Maps /\ newJobDefinition \in Hash \cup {None}
  BY UpdatedTypes DEF IInv, TypeOK
<1>4. call \in Calls /\ Fit(call)
  BY <1>3, SetJobStatesFits DEF Fit
<1> HIDE DEF call
<1>5. newJobDefinition' = newJobDefinition
  BY <1>1
<1>6. /\ calls' \in Seq(Calls) /\ \A c \in Range(calls') : Fit(c)'
      /\ jobStates' \in Maps
      /\ jobState' \in [id : Hash \cup {None}, job : AllCopies \cup {NoJob}]
      /\ newJobDefinition = None => jobState'.id = None
  BY <1>1, <1>4, <1>5, BeganFits
<1> QED
  BY <1>1, <1>2, <1>6 DEF IInv, TypeOK, Settled, Maps, net, counters

LEMMA KeptBySetSameJobDefinition ==
  ASSUME IInv, NEW h \in Hash, SetSameJobDefinition(h)
  PROVE  IInv'
<1> DEFINE call == Begun("setNewJobDefinition", h, jobStates, 0, None)
<1>1. /\ newJobDefinition = h /\ computing' = computing \ {h} /\ Begin(call)
      /\ UNCHANGED <<world, inputs, newJobDefinition, cache, due, net, environment, counters>>
  BY DEF SetSameJobDefinition
<1>2. jobStates \in Maps /\ h # None
  BY ClientAssumption DEF IInv, TypeOK, Maps
<1>3. call \in Calls /\ Fit(call)
  BY <1>1, <1>2, BegunFits DEF Kinds, Afterwards, Fit
<1> HIDE DEF call
<1>4. newJobDefinition' = newJobDefinition
  BY <1>1
<1>5. /\ calls' \in Seq(Calls) /\ \A c \in Range(calls') : Fit(c)'
      /\ jobStates' \in Maps
      /\ jobState' \in [id : Hash \cup {None}, job : AllCopies \cup {NoJob}]
  BY <1>1, <1>3, <1>4, BeganFits
<1> QED
  BY <1>1, <1>2, <1>5 DEF IInv, TypeOK, Settled, Maps, net, environment, counters

LEMMA KeptBySetNewJobDefinition ==
  ASSUME IInv, NEW h \in Hash, SetNewJobDefinition(h)
  PROVE  IInv'
<1>1. /\ computing' = computing \ {h} /\ newJobDefinition' = h
      /\ jobState' = [id |-> h, job |-> jobStates[h]]
      /\ UNCHANGED <<world, inputs, jobStates, cache, calls, net, environment, counters>>
      /\ Effects(due)
  BY DEF SetNewJobDefinition
<1>2. due' \subseteq due \cup {"queryJob", "submitJob"}
  BY <1>1, Effected
<1>3. h # None
  BY ClientAssumption
<1>4. \A c \in Range(calls') : Fit(c)'
  BY <1>1, <1>3 DEF IInv, Settled, Fit
<1>5. jobState' \in [id : Hash \cup {None}, job : AllCopies \cup {NoJob}]
  BY <1>1 DEF IInv, TypeOK
<1> QED
  BY <1>1, <1>2, <1>3, <1>4, <1>5 DEF IInv, TypeOK, Settled, net, environment, counters


LEMMA KeptByClickRun ==
  ASSUME IInv, ClickRun
  PROVE  IInv'
<1>1. /\ Act /\ due' = due \cup {"submitJob"}
      /\ UNCHANGED <<world, inputs, computing, store, cache, calls, net, environment, clock, cuts>>
  BY DEF ClickRun
<1>2. acts' \in 0 .. world'.acts
  BY <1>1, Acted
<1> QED
  BY <1>1, <1>2 DEF IInv, TypeOK, Settled, Fit, store, net, environment

LEMMA KeptByCompute ==
  ASSUME IInv, NEW h \in Hash, ChangeInputs(h) \/ SaveInputFileAndRun(h)
  PROVE  IInv'
<1>1. /\ Act /\ inputs' = h /\ computing' = {h} /\ due' \subseteq due \cup {"changed"}
      /\ UNCHANGED <<world, store, cache, calls, net, environment, clock, cuts>>
  BY DEF ChangeInputs, SaveInputFileAndRun, Compute
<1>2. acts' \in 0 .. world'.acts
  BY <1>1, Acted
<1> QED
  BY <1>1, <1>2 DEF IInv, TypeOK, Settled, Fit, store, net, environment

LEMMA KeptByClickCancelInTable ==
  ASSUME IInv, NEW h \in Hash, ClickCancelInTable(h)
  PROVE  IInv'
<1> DEFINE message == [job |-> h, kind |-> "Cancelled", time |-> clock']
<1>1. /\ Act /\ clock' = clock + 1 /\ SendMessage(message)
      /\ UNCHANGED <<world, inputs, computing, store, cache, calls, due, line, environment, cuts>>
  BY DEF ClickCancelInTable, TellServer
<1>2. clock' \in Nat
  BY <1>1 DEF IInv, TypeOK
<1>3. message \in Messages
  BY <1>2 DEF Messages
<1> HIDE DEF message
<1>4. /\ up' \in Seq(Messages) /\ kept' \in Messages \cup {None}
      /\ kept' # None => kept'.kind = "Queued"
  BY <1>1, <1>3, SendTypes
<1>5. acts' \in 0 .. world'.acts
  BY <1>1, Acted
<1> QED
  BY <1>1, <1>2, <1>4, <1>5 DEF IInv, TypeOK, Settled, Fit, store, environment

LEMMA KeptByLine ==
  ASSUME IInv, Open \/ Cut \/ Close
  PROVE  IInv'
<1>1. CASE Open
  <2>1. /\ line' = "open" /\ kept' = None /\ up' = (IF kept = None THEN up ELSE Append(up, kept))
        /\ UNCHANGED <<world, inputs, computing, store, cache, calls, environment, counters>>
        /\ Effects(due)
    BY <1>1 DEF Open
  <2>2. due' \subseteq due \cup {"queryJob", "submitJob"}
    BY <2>1, Effected
  <2>3. up \in Seq(Messages) /\ kept \in Messages \cup {None}
    BY DEF IInv, TypeOK
  <2>4. up' \in Seq(Messages)
    BY <2>1, <2>3, Appended
  <2> QED
    BY <2>1, <2>2, <2>4 DEF IInv, TypeOK, Settled, Fit, store, environment, counters
<1>2. CASE Cut
  <2>1. /\ cuts < world.cuts /\ line' = "dead" /\ up' = <<>> /\ untold' = {} /\ cuts' = cuts + 1
        /\ UNCHANGED <<world, inputs, computing, store, cache, calls, due, kept, server, stored,
                       clock, acts>>
    BY <1>2 DEF Cut
  <2>2. world \in World /\ world.cuts \in Nat
    BY ClientAssumption DEF IInv, TypeOK
  <2>3. cuts' \in 0 .. world.cuts /\ up' \in Seq(Messages)
    BY <2>1, <2>2 DEF IInv, TypeOK
  <2> QED
    BY <2>1, <2>3 DEF IInv, TypeOK, Settled, Fit, store
<1>3. CASE Close
  BY <1>3 DEF Close, IInv, TypeOK, Settled, Fit, store, environment, counters
<1> QED
  BY <1>1, <1>2, <1>3

LEMMA KeptByTakeChange ==
  ASSUME IInv, TakeChange
  PROVE  IInv'
<1> DEFINE change == Head(up)
           after  == AfterChange(change)
<1>1. /\ up # <<>> /\ up' = Tail(up)
      /\ server' = [server EXCEPT ![change.job] = after]
      /\ stored' = IF change.kind = "Deleted" THEN [stored EXCEPT ![change.job] = NoJob] ELSE stored
      /\ untold' = IF line = "open" THEN untold \cup {change.job} ELSE untold
      /\ UNCHANGED <<world, inputs, computing, store, cache, calls, due, line, kept, counters>>
  BY DEF TakeChange
<1>2. up \in Seq(Messages)
  BY DEF IInv, TypeOK
<1>3. change \in Messages /\ Tail(up) \in Seq(Messages)
  BY <1>1, <1>2, Taken
<1> HIDE DEF change
<1>4. change.job \in Hash /\ change.kind \in {"Queued", "Cancelled", "Deleted"} /\ change.time \in Nat
  BY <1>3 DEF Messages
<1>5. /\ server \in [Hash -> AllCopies \cup {NoJob}]
      /\ stored \in [Hash -> {NoJob} \cup {c \in AllCopies : IsFinishedFor(c, Worth)}]
      /\ untold \in SUBSET Hash
  BY DEF IInv, TypeOK
<1>6. after \in AllCopies \cup {NoJob}
  <2> DEFINE was == server[change.job]
             job == IF change.kind = "Queued" THEN Copy("Queued", NoReason, change.time, FALSE)
                    ELSE Copy("Finished", change.kind, change.time, FALSE)
  <2>1. was \in AllCopies \cup {NoJob} /\ stored[change.job] \in AllCopies \cup {NoJob}
    BY <1>4, <1>5
  <2>2. job \in AllCopies
    <3>1. change.kind # "Queued" => change.kind \in Reasons
      BY <1>4 DEF Reasons
    <3> QED
      BY <1>4, <3>1, CopyTypes
  <2>3. ResolveMostCorrectJob(was, job) \in {was, job}
    BY ChosenTypes
  <2>4. after \in {NoJob, ResolveMostCorrectJob(was, job), stored[change.job], job}
    BY DEF AfterChange
  <2> HIDE DEF was, job, after
  <2> QED
    BY <2>1, <2>2, <2>3, <2>4
<1> HIDE DEF after
<1>7. /\ server' \in [Hash -> AllCopies \cup {NoJob}]
      /\ stored' \in [Hash -> {NoJob} \cup {c \in AllCopies : IsFinishedFor(c, Worth)}]
      /\ untold' \in SUBSET Hash
  BY <1>1, <1>4, <1>5, <1>6
<1> QED
  BY <1>1, <1>3, <1>7 DEF IInv, TypeOK, Settled, Fit, store, counters

LEMMA KeptByServer ==
  ASSUME IInv, NEW h \in Hash, JobStarts(h) \/ JobEnds(h) \/ Swept(h)
  PROVE  IInv'
<1> DEFINE Results0 == {NoJob} \cup {c \in AllCopies : IsFinishedFor(c, Worth)}
<1>1. /\ server \in [Hash -> AllCopies \cup {NoJob}] /\ stored \in [Hash -> Results0]
      /\ untold \in SUBSET Hash
  BY DEF IInv, TypeOK
<1>2. ASSUME NEW job \in AllCopies \cup {NoJob}, NEW result \in Results0,
             ServerChanges(h, job, result)
      PROVE  IInv'
  <2>1. /\ server' = [server EXCEPT ![h] = job] /\ stored' = [stored EXCEPT ![h] = result]
        /\ untold' \subseteq untold \cup {h}
        /\ UNCHANGED <<world, inputs, computing, store, cache, calls, due, net, counters>>
    BY <1>2 DEF ServerChanges
  <2>2. server' \in [Hash -> AllCopies \cup {NoJob}] /\ stored' \in [Hash -> Results0]
    BY <1>1, <2>1
  <2> QED
    BY <1>1, <2>1, <2>2 DEF IInv, TypeOK, Settled, Fit, store, net, counters
<1>3. CASE JobStarts(h)
  <2> DEFINE job == [server[h] EXCEPT !.state = "Running"]
  <2>1. server[h].state = "Queued" /\ ServerChanges(h, job, stored[h])
    BY <1>3 DEF JobStarts
  <2>2. server[h] \in AllCopies
    BY <1>1, <2>1 DEF NoJob
  <2>3. job \in AllCopies
    BY <2>1, <2>2 DEF AllCopies
  <2> HIDE DEF job
  <2> QED
    BY <1>1, <1>2, <2>1, <2>3
<1>4. CASE JobEnds(h)
  <2>1. PICK why \in Results : LET job == Copy("Finished", why, 0, FALSE) IN ServerChanges(h, job, job)
    BY <1>4 DEF JobEnds
  <2> DEFINE job == Copy("Finished", why, 0, FALSE)
  <2>2. why \in Worth /\ why \in Reasons
    BY ClientAssumption DEF Reasons
  <2>3. job \in AllCopies /\ IsFinishedFor(job, Worth)
    BY <2>2, CopyTypes DEF Copy, IsFinishedFor
  <2>4. ServerChanges(h, job, job)
    BY <2>1
  <2> HIDE DEF job
  <2> QED
    BY <1>2, <2>3, <2>4
<1>5. CASE Swept(h)
  <2>1. ServerChanges(h, NoJob, stored[h])
    BY <1>5 DEF Swept
  <2> QED
    BY <1>1, <1>2, <2>1
<1> QED
  BY <1>3, <1>4, <1>5

LEMMA Kept ==
  ASSUME IInv, [Next]_vars
  PROVE  IInv'
<1>1. CASE UNCHANGED vars
  BY <1>1 DEF IInv, TypeOK, Settled, Fit, vars, store, net, environment, counters
<1>2. CASE Next
  <2>1. ASSUME NEW i \in DOMAIN calls, CallGoesOn(i) \/ DownloadThrows(i)
        PROVE  IInv'
    BY <2>1, KeptBySetJobStates, KeptByRefresh, KeptByQuery, KeptBySubmitGoesOn,
       KeptBySendClientStateChange, KeptByEndsJob, KeptByDownloadThrows DEF CallGoesOn
  <2>2. CASE SubmitJob \/ QueryJob \/ ResubmitJob \/ ClickRun \/ ClickCancel \/ ClickDelete
    BY <2>2, KeptBySubmitJob, KeptByQueryJob, KeptByResubmitJob, KeptByClickRun,
       KeptByClickCancel, KeptByClickDelete
  <2>3. CASE Open \/ Cut \/ Close \/ HearJobStates \/ TakeChange
    BY <2>3, KeptByLine, KeptByHearJobStates, KeptByTakeChange
  <2>4. ASSUME NEW h \in Hash,
               \/ ChangeInputs(h) \/ SaveInputFileAndRun(h) \/ ClickCancelInTable(h)
               \/ SetNewJobDefinition(h) \/ SetSameJobDefinition(h) \/ HearJobStateUpdates(h)
               \/ JobStarts(h) \/ JobEnds(h) \/ Swept(h)
        PROVE  IInv'
    BY <2>4, KeptByCompute, KeptByClickCancelInTable, KeptBySetNewJobDefinition,
       KeptBySetSameJobDefinition, KeptByHearJobStateUpdates, KeptByServer
  <2> QED
    BY <1>2, <2>1, <2>2, <2>3, <2>4 DEF Next
<1> QED
  BY <1>1, <1>2

LEMMA AtFirst ==
  ASSUME Init
  PROVE  IInv
<1>1. /\ world \in World /\ world.inputs \in Hash /\ world.acts \in Nat /\ world.cuts \in Nat
      /\ world.server \in [Hash -> AllCopies \cup {NoJob}]
      /\ world.stored \in [Hash -> {NoJob} \cup {c \in AllCopies : IsFinishedFor(c, Worth)}]
      /\ world.cache \in [Hash -> {NoJob} \cup {c \in AllCopies : c.payload}]
  BY ClientAssumption DEF Init
<1>2. /\ calls = <<>> /\ due = {} /\ kept = None /\ up = <<>> /\ untold = {}
      /\ clock = 0 /\ acts = 0 /\ cuts = 0 /\ inputs \in Hash
      /\ server = world.server /\ stored = world.stored /\ cache = world.cache
  BY <1>1 DEF Init
<1>3. calls \in Seq(Calls) /\ up \in Seq(Messages) /\ Range(calls) = {}
  BY <1>2 DEF Range
<1>4. /\ computing \in SUBSET Hash /\ newJobDefinition \in Hash \cup {None}
      /\ line \in {"open", "dead", "closed"}
      /\ jobStates \in [Hash -> AllCopies \cup {NoJob}]
      /\ jobState \in [id : Hash \cup {None}, job : AllCopies \cup {NoJob}]
      /\ newJobDefinition = None => jobState.id = None
  <2>1. CASE world.loaded
    <3>1. /\ computing = {} /\ newJobDefinition = inputs /\ line = "open"
          /\ jobStates = cache /\ jobState = [id |-> inputs, job |-> cache[inputs]]
      BY <2>1 DEF Init
    <3>2. inputs # None
      BY <1>2, ClientAssumption
    <3> QED
      BY <1>1, <1>2, <3>1, <3>2
  <2>2. CASE ~world.loaded
    <3>1. /\ computing = {inputs} /\ newJobDefinition = None /\ line = "closed"
          /\ jobStates = Empty /\ jobState = EmptyJobStateTuple
      BY <2>2 DEF Init
    <3> QED
      BY <1>2, <3>1 DEF Empty, EmptyJobStateTuple
  <2> QED
    BY <2>1, <2>2
<1> QED
  BY <1>1, <1>2, <1>3, <1>4 DEF IInv, TypeOK, Settled

LEMMA Always == Spec => []IInv
<1> QED
  BY AtFirst, Kept, PTL DEF Spec

\* Whatever calls overlap and whatever is heard: the store, the cache, the calls
\* under way and what is on its way keep the types the code gives them; a cached
\* job is finished and has its result, and a stored one is a result.
THEOREM ClientTypes == Spec => []TypeOK
<1>1. IInv => TypeOK
  BY DEF IInv
<1> QED
  BY <1>1, Always, PTL


-----------------------------------------------------------------------------
(* A submission is not lost.                                               *)

Submits(call, h) == call.kind \in {"submitJob", "sendClientStateChange"} /\ call.id = h

\* How a submission of h may end.
Ended(h) ==
  \/ Exists(server'[h]) \/ Exists(cache'[h])
  \/ kept' # None /\ kept'.job # h
  \/ "dead" \in {line, line'}

LEMMA WhereSubmitted ==
  ASSUME NEW h, IsSubmitting(h)
  PROVE  \/ kept # None /\ kept.job = h
         \/ \E i \in DOMAIN calls : Submits(calls[i], h)
         \/ \E m \in Range(up) : m.job = h /\ m.kind = "Queued"
BY DEF IsSubmitting, Submits, Range

LEMMA StillSubmitted ==
  ASSUME NEW h,
         \/ kept' # None /\ kept'.job = h
         \/ \E c \in Range(calls') : Submits(c, h)
         \/ \E m \in Range(up') : m.job = h /\ m.kind = "Queued"
  PROVE  IsSubmitting(h)'
BY DEF IsSubmitting, Submits, Range

\* Nothing of a submission is touched but, perhaps, a call that is none.
LEMMA OthersStay ==
  ASSUME NEW h, IsSubmitting(h), NEW i,
         \A k \in DOMAIN calls \ {i} : calls[k] \in Range(calls'),
         i \in DOMAIN calls => ~Submits(calls[i], h),
         kept' = kept, Range(up) \subseteq Range(up')
  PROVE  IsSubmitting(h)'
BY WhereSubmitted, StillSubmitted

\* A cancellation or a deletion is sent over a line, and never kept.
LEMMA EndingSent ==
  ASSUME IInv, NEW message \in Messages, message.kind # "Queued", SendMessage(message)
  PROVE  kept' = kept /\ Range(up) \subseteq Range(up')
BY SendTypes DEF SendMessage

LEMMA ContinuedOthers ==
  ASSUME IInv, NEW i, i \in DOMAIN calls \/ i = Len(calls) + 1, NEW call \in Calls, Continue(i, call)
  PROVE  \A k \in DOMAIN calls \ {i} : calls[k] \in Range(calls')
BY Continued DEF IInv, TypeOK

LEMMA RemovedOthers ==
  ASSUME IInv, NEW i \in DOMAIN calls, calls' = RemoveAt(calls, i)
  PROVE  \A k \in DOMAIN calls \ {i} : calls[k] \in Range(calls')
BY RemovedAt DEF IInv, TypeOK

LEMMA ReplacedOthers ==
  ASSUME IInv, NEW i \in DOMAIN calls, NEW call \in Calls, calls' = [calls EXCEPT ![i] = call]
  PROVE  /\ \A k \in DOMAIN calls \ {i} : calls[k] \in Range(calls')
         /\ call \in Range(calls')
BY ReplacedAt DEF IInv, TypeOK

\* The steps of setJobStates leave the other calls as they are.
LEMMA SetJobStatesOthers ==
  ASSUME IInv, NEW i \in DOMAIN calls, SetJobStatesGoesOn(i)
  PROVE  /\ calls[i].kind = "setJobStates"
         /\ \A k \in DOMAIN calls \ {i} : calls[k] \in Range(calls')
<1> DEFINE Goal == /\ calls[i].kind = "setJobStates"
                   /\ \A k \in DOMAIN calls \ {i} : calls[k] \in Range(calls')
<1>1. ASSUME Resolve(i) PROVE Goal
  <2>1. calls[i].kind = "setJobStates" /\ Continue(i, Resolved(calls[i]))
    BY <1>1 DEF Resolve
  <2> QED
    BY <1>1, <2>1, ResolvedFits, ContinuedOthers
<1>2. ASSUME NEW h \in Hash, NEW job \in AllCopies \cup {NoJob}, Processed(i, h, job)
      PROVE  \A k \in DOMAIN calls \ {i} : calls[k] \in Range(calls')
  <2>1. Continue(i, Handled(i, h, job))
    BY <1>2 DEF Processed, Handled
  <2> QED
    BY <2>1, ProcessedFits, ContinuedOthers
<1>3. ASSUME NEW h \in Hash, LooksForResult(i, h) PROVE Goal
  <2>1. calls[i].kind = "setJobStates"
    BY <1>3 DEF LooksForResult, IsProcessing
  <2>2. CASE Exists(cache[h])
    BY <1>2, <1>3, <2>1, <2>2, FoundTypes DEF LooksForResult
  <2>3. CASE ~Exists(cache[h])
    <3>1. calls' = [calls EXCEPT ![i].loads = h]
      BY <1>3, <2>3 DEF LooksForResult
    <3> QED
      BY <2>1, <3>1, LoadsFits, ReplacedOthers
  <2> QED
    BY <2>2, <2>3
<1>4. ASSUME NEW h \in Hash, Answered(i, h) \/ Saved(i, h) PROVE Goal
  <2>1. calls[i].kind = "setJobStates"
    <3>1. calls[i].loads # None
      BY <1>4, ClientAssumption DEF Answered, Saved
    <3> QED
      BY <3>1, CallUnderWay DEF Fit
  <2>2. CASE \E job \in AllCopies \cup {NoJob} : Processed(i, h, job)
    BY <1>2, <2>1, <2>2
  <2>3. CASE /\ Exists(stored[h])
             /\ calls' = [calls EXCEPT ![i] = Noted(i, h, [stored[h] EXCEPT !.payload = TRUE])]
    <3> DEFINE result == [stored[h] EXCEPT !.payload = TRUE]
    <3>1. result \in AllCopies /\ calls' = [calls EXCEPT ![i] = Noted(i, h, result)]
      BY <2>3, FoundTypes
    <3> HIDE DEF result
    <3> QED
      BY <2>1, <3>1, NotedFits, ReplacedOthers
  <2> QED
    BY <1>4, <2>2, <2>3, FoundTypes DEF Answered, Saved, Noted
<1>5. ASSUME NEW h \in Hash, DeletesEntry(i, h) PROVE Goal
  <2>1. calls[i].kind = "setJobStates" /\ Processed(i, h, calls[i].map[h])
    BY <1>5 DEF DeletesEntry, IsProcessing
  <2> QED
    BY <1>2, <2>1, FoundTypes
<1> HIDE DEF Goal
<1>6. Goal
  BY <1>1, <1>3, <1>4, <1>5 DEF SetJobStatesGoesOn
<1> QED
  BY <1>6 DEF Goal


\* A submission that goes on stays one.
LEMMA SubmitGoesOnSubmits ==
  ASSUME IInv, NEW i \in DOMAIN calls, SubmitGoesOn(i), NEW h, IsSubmitting(h)
  PROVE  IsSubmitting(h)'
<1> DEFINE id    == calls[i].id
           found == calls[i].at = "cache" /\ Exists(cache[id])
           next  == IF found THEN [calls[i] EXCEPT !.at = "delete"]
                    ELSE Begun("sendClientStateChange", id, Empty, clock + 1, None)
<1>1. calls[i].kind = "submitJob" /\ calls' = [calls EXCEPT ![i] = next] /\ UNCHANGED <<kept, up>>
  BY DEF SubmitGoesOn, net
<1>2. calls[i] \in Calls /\ id \in Hash
  BY <1>1, CallUnderWay, CallTypes DEF Fit
<1>3. next \in Calls /\ Submits(next, id)
  <2>1. CASE found
    <3> DEFINE deleting == [calls[i] EXCEPT !.at = "delete"]
    <3>1. deleting \in Calls /\ deleting.kind = calls[i].kind /\ deleting.id = id
      BY <1>2 DEF Calls
    <3> QED
      BY <1>1, <2>1, <3>1 DEF Submits
  <2>2. CASE ~found
    <3> HIDE DEF id
    <3>1. Empty \in Maps /\ clock + 1 \in Nat
      BY DEF Empty, Maps, IInv, TypeOK
    <3>2. /\ Begun("sendClientStateChange", id, Empty, clock + 1, None) \in Calls
          /\ Begun("sendClientStateChange", id, Empty, clock + 1, None).kind = "sendClientStateChange"
          /\ Begun("sendClientStateChange", id, Empty, clock + 1, None).id = id
      BY <1>2, <3>1, BegunFits DEF Kinds, Afterwards
    <3> QED
      BY <2>2, <3>2 DEF Submits, id
  <2> QED
    BY <2>1, <2>2
<1> HIDE DEF next
<1>4. /\ \A k \in DOMAIN calls \ {i} : calls[k] \in Range(calls')
      /\ next \in Range(calls')
  BY <1>1, <1>3, ReplacedOthers
<1>5. CASE Submits(calls[i], h)
  <2>1. Submits(next, h)
    BY <1>3, <1>5 DEF Submits
  <2> QED
    BY <1>4, <2>1, StillSubmitted
<1>6. CASE ~Submits(calls[i], h)
  BY <1>1, <1>4, <1>6, OthersStay
<1> QED
  BY <1>5, <1>6

\* It is sent, kept for the next connection, or answered by the cache.
LEMMA SendClientStateChangeSubmits ==
  ASSUME IInv, NEW i \in DOMAIN calls, SendClientStateChange(i), NEW h \in Hash, IsSubmitting(h)
  PROVE  IsSubmitting(h)' \/ Ended(h)
<1> DEFINE id      == calls[i].id
           map     == [jobStates EXCEPT ![id] = cache[id]]
           next    == SetJobStates(map)
           message == [job |-> id, kind |-> "Queued", time |-> calls[i].time]
<1>1. /\ calls[i].kind = "sendClientStateChange"
      /\ IF Worthy(cache[id]) THEN Continue(i, next) /\ UNCHANGED <<kept, up>>
         ELSE calls' = RemoveAt(calls, i) /\ SendMessage(message)
      /\ UNCHANGED <<cache, line>>
  BY DEF SendClientStateChange
<1>2. id \in Hash /\ calls[i].time \in Nat
  BY <1>1, CallUnderWay, CallTypes DEF Fit
<1>3. message \in Messages
  BY <1>2 DEF Messages
<1>4. \A k \in DOMAIN calls \ {i} : calls[k] \in Range(calls')
  <2>1. CASE Worthy(cache[id])
    <3>1. cache[id] \in AllCopies \cup {NoJob} /\ jobStates \in Maps /\ newJobDefinition \in Hash \cup {None}
      BY <1>2, FoundTypes DEF IInv, TypeOK, Maps
    <3>2. map \in Maps
      BY <3>1 DEF Maps
    <3> HIDE DEF map
    <3>3. next \in Calls
      BY <3>1, <3>2, SetJobStatesFits
    <3> HIDE DEF next
    <3> QED
      BY <1>1, <2>1, <3>3, ContinuedOthers
  <2>2. CASE ~Worthy(cache[id])
    BY <1>1, <2>2, RemovedOthers
  <2> QED
    BY <2>1, <2>2
<1>5. CASE Worthy(cache[id])
  <2>1. CASE id = h
    BY <1>1, <1>5, <2>1 DEF Worthy, Ended
  <2>2. CASE id # h
    BY <1>1, <1>4, <1>5, <2>2, OthersStay DEF Submits
  <2> QED
    BY <2>1, <2>2
<1>6. CASE ~Worthy(cache[id])
  <2>1. /\ Range(up) \subseteq Range(up') /\ (line = "open" => message \in Range(up'))
        /\ kept' = IF line = "closed" THEN message ELSE kept
        /\ message.job = id /\ message.kind = "Queued" /\ message # None
    <3>1. SendMessage(message)
      BY <1>1, <1>6
    <3>2. Range(up) \subseteq Range(up') /\ (line = "open" => message \in Range(up'))
      BY <1>3, <3>1, SendTypes
    <3>3. message # None /\ message.job = id /\ message.kind = "Queued"
      BY <1>3, ClientAssumption
    <3> HIDE DEF message
    <3>4. kept' = IF line = "closed" THEN message ELSE kept
      BY <3>1, <3>3 DEF SendMessage
    <3> QED
      BY <3>2, <3>3, <3>4
  <2> HIDE DEF message, id
  <2>2. line \in {"open", "dead", "closed"}
    BY DEF IInv, TypeOK
  <2>3. CASE line = "closed"
    BY <2>1, <2>3, StillSubmitted DEF Ended
  <2>4. CASE line = "open"
    <3>1. CASE id = h
      BY <2>1, <2>4, <3>1, StillSubmitted
    <3>2. CASE id # h
      <4>1. ~Submits(calls[i], h) /\ kept' = kept
        BY <2>1, <2>4, <3>2 DEF Submits, id
      <4> QED
        BY <1>4, <2>1, <4>1, OthersStay
    <3> QED
      BY <3>1, <3>2
  <2>5. CASE line = "dead"
    BY <2>5 DEF Ended
  <2> QED
    BY <2>2, <2>3, <2>4, <2>5
<1> QED
  BY <1>5, <1>6


\* A submission the server takes leaves it with the job.
LEMMA TakeChangeSubmits ==
  ASSUME IInv, TakeChange, NEW h \in Hash, IsSubmitting(h)
  PROVE  IsSubmitting(h)' \/ Ended(h)
<1> DEFINE change == Head(up)
           after  == AfterChange(change)
<1>1. /\ up # <<>> /\ up' = Tail(up) /\ server' = [server EXCEPT ![change.job] = after]
      /\ UNCHANGED <<calls, kept>>
  BY DEF TakeChange
<1>2. up \in Seq(Messages) /\ server \in [Hash -> AllCopies \cup {NoJob}]
  BY DEF IInv, TypeOK
<1>3. change \in Messages /\ Range(up) = Range(up') \cup {change}
  BY <1>1, <1>2, Taken
<1>4. change.kind = "Queued" => Exists(after)
  <2> DEFINE was == server[change.job]
             job == Copy("Queued", NoReason, change.time, FALSE)
  <2>1. Exists(job)
    BY DEF Exists, NoJob, Copy
  <2>2. ResolveMostCorrectJob(was, job) \in {was, job}
    BY ChosenTypes
  <2>3. change.kind = "Queued" =>
          after = IF Exists(was) THEN ResolveMostCorrectJob(was, job)
                  ELSE IF Exists(stored[change.job]) THEN stored[change.job] ELSE job
    BY DEF AfterChange
  <2> HIDE DEF was, job, after
  <2> QED
    BY <2>1, <2>2, <2>3
<1> HIDE DEF after, change
<1>5. CASE change.job = h /\ change.kind = "Queued"
  BY <1>1, <1>2, <1>4, <1>5 DEF Ended
<1>6. CASE ~(change.job = h /\ change.kind = "Queued")
  <2>1. \A i \in DOMAIN calls : calls[i] \in Range(calls')
    BY <1>1 DEF Range
  <2> QED
    BY <1>1, <1>3, <1>6, <2>1, WhereSubmitted, StillSubmitted
<1> QED
  BY <1>5, <1>6

\* What is kept is sent when the connection is open.
LEMMA OpenSubmits ==
  ASSUME IInv, Open, NEW h, IsSubmitting(h)
  PROVE  IsSubmitting(h)'
<1>1. up' = (IF kept = None THEN up ELSE Append(up, kept)) /\ calls' = calls
  BY DEF Open
<1>2. up \in Seq(Messages) /\ kept \in Messages \cup {None} /\ (kept # None => kept.kind = "Queued")
  BY DEF IInv, TypeOK, Settled
<1>3. Range(up) \subseteq Range(up') /\ (kept # None => kept \in Range(up'))
  BY <1>1, <1>2, Appended
<1>4. \A i \in DOMAIN calls : calls[i] \in Range(calls')
  BY <1>1 DEF Range
<1> QED
  BY <1>2, <1>3, <1>4, WhereSubmitted, StillSubmitted

\* The actions that begin a call, and what the call is.
BeginsWith(call) ==
  \/ call = Begun("submitJob", newJobDefinition, Empty, 0, None) /\ SubmitJob
  \/ call = Begun("queryJob", newJobDefinition, Empty, 0, None) /\ QueryJob
  \/ call = Begun("deleteJobCache", newJobDefinition, Empty, 0, "submitJob") /\ ResubmitJob
  \/ call = Begun("cancelJob", jobState.id, Empty, clock', None) /\ ClickCancel
  \/ /\ call = Begun("deleteJobCache", newJobDefinition, Empty, 0,
                     IF world.autostart THEN "resubmitJob" ELSE None)
     /\ ClickDelete
  \/ call = SetJobStates([h \in Hash |-> Sent(server[h])]) /\ HearJobStates
  \/ \E h \in Hash : \/ call = SetJobStates(Updated(h)) /\ HearJobStateUpdates(h)
                     \/ /\ call = Begun("setNewJobDefinition", h, jobStates, 0, None)
                        /\ SetSameJobDefinition(h)

LEMMA BeginsCall ==
  ASSUME IInv, NEW call, BeginsWith(call)
  PROVE  /\ UNCHANGED <<cache, net>>
         /\ \/ UNCHANGED calls
            \/ call \in Calls /\ Begin(call)
<1>1. /\ newJobDefinition \in Hash \cup {None} /\ jobStates \in Maps /\ server \in Maps
      /\ jobState.id \in Hash \cup {None} /\ clock \in Nat /\ Empty \in Maps
  BY DEF IInv, TypeOK, Maps, Empty
<1>2. CASE call = Begun("submitJob", newJobDefinition, Empty, 0, None) /\ SubmitJob
  BY <1>1, <1>2, BegunFits DEF SubmitJob, Kinds, Afterwards
<1>3. CASE call = Begun("queryJob", newJobDefinition, Empty, 0, None) /\ QueryJob
  BY <1>1, <1>3, BegunFits DEF QueryJob, Kinds, Afterwards
<1>4. CASE call = Begun("deleteJobCache", newJobDefinition, Empty, 0, "submitJob") /\ ResubmitJob
  BY <1>1, <1>4, BegunFits DEF ResubmitJob, DeleteJobCache, Kinds, Afterwards
<1>5. CASE call = Begun("cancelJob", jobState.id, Empty, clock', None) /\ ClickCancel
  <2> DEFINE now == clock'
  <2>1. /\ now \in Nat /\ jobState.id \in Hash
        /\ call = Begun("cancelJob", jobState.id, Empty, now, None)
    BY <1>1, <1>5 DEF ClickCancel
  <2> HIDE DEF now
  <2>2. call \in Calls
    BY <1>1, <2>1, BegunFits DEF Kinds, Afterwards
  <2> QED
    BY <1>5, <2>2 DEF ClickCancel
<1>6. CASE /\ call = Begun("deleteJobCache", newJobDefinition, Empty, 0,
                           IF world.autostart THEN "resubmitJob" ELSE None)
           /\ ClickDelete
  <2> DEFINE then == IF world.autostart THEN "resubmitJob" ELSE None
  <2>1. then \in Afterwards /\ call = Begun("deleteJobCache", newJobDefinition, Empty, 0, then)
    BY <1>6 DEF Afterwards
  <2>2. Begin(call) /\ UNCHANGED <<cache, net>>
    BY <1>6 DEF ClickDelete, DeleteJobCache
  <2> HIDE DEF then
  <2> QED
    BY <1>1, <2>1, <2>2, BegunFits DEF Kinds
<1>7. CASE call = SetJobStates([h \in Hash |-> Sent(server[h])]) /\ HearJobStates
  <2> DEFINE map == [h \in Hash |-> Sent(server[h])]
  <2>1. map \in Maps
    BY <1>1, SentTypes DEF Maps
  <2>2. call = SetJobStates(map) /\ Begin(call) /\ UNCHANGED <<cache, net>>
    BY <1>7 DEF HearJobStates
  <2> HIDE DEF map
  <2> QED
    BY <1>1, <2>1, <2>2, SetJobStatesFits
<1>8. ASSUME NEW h \in Hash, call = SetJobStates(Updated(h)), HearJobStateUpdates(h)
      PROVE  UNCHANGED <<cache, net>> /\ call \in Calls /\ Begin(call)
  <2>1. Begin(call) /\ UNCHANGED <<cache, net>>
    BY <1>8 DEF HearJobStateUpdates, Updated
  <2> QED
    BY <1>1, <1>8, <2>1, UpdatedTypes, SetJobStatesFits
<1>9. ASSUME NEW h \in Hash, call = Begun("setNewJobDefinition", h, jobStates, 0, None),
             SetSameJobDefinition(h)
      PROVE  UNCHANGED <<cache, net>> /\ call \in Calls /\ Begin(call)
  BY <1>1, <1>9, BegunFits DEF SetSameJobDefinition, Kinds, Afterwards
<1> QED
  BY <1>2, <1>3, <1>4, <1>5, <1>6, <1>7, <1>8, <1>9 DEF BeginsWith

LEMMA BeginsSubmits ==
  ASSUME IInv, NEW call, BeginsWith(call), NEW h, IsSubmitting(h)
  PROVE  IsSubmitting(h)'
<1>1. UNCHANGED net /\ ((UNCHANGED calls) \/ (call \in Calls /\ Begin(call)))
  BY BeginsCall
<1>2. \A k \in DOMAIN calls : calls[k] \in Range(calls')
  <2>1. CASE UNCHANGED calls
    BY <2>1 DEF Range
  <2>2. CASE call \in Calls /\ Begin(call)
    <3>1. \A k \in DOMAIN calls \ {Len(calls) + 1} : calls[k] \in Range(calls')
      BY <2>2, ContinuedOthers DEF Begin
    <3>2. Len(calls) + 1 \notin DOMAIN calls
      BY DEF IInv, TypeOK
    <3> QED
      BY <3>1, <3>2
  <2> QED
    BY <1>1, <2>1, <2>2
<1>3. kept' = kept /\ Range(up) \subseteq Range(up')
  BY <1>1 DEF net
<1> QED
  BY <1>2, <1>3, WhereSubmitted, StillSubmitted


\* Calls of no submission end, go on or are touched.
LEMMA CallGoesOnSubmits ==
  ASSUME IInv, NEW i \in DOMAIN calls, CallGoesOn(i) \/ DownloadThrows(i),
         NEW h \in Hash, IsSubmitting(h)
  PROVE  IsSubmitting(h)' \/ Ended(h)
<1>1. CASE SetJobStatesGoesOn(i)
  <2>1. kept' = kept /\ Range(up) \subseteq Range(up')
    BY <1>1 DEF SetJobStatesGoesOn, net
  <2> QED
    BY <1>1, <2>1, SetJobStatesOthers, OthersStay DEF Submits
<1>2. CASE RefreshGoesOn(i)
  <2>1. /\ kept' = kept /\ Range(up) \subseteq Range(up')
        /\ calls[i].kind = "setNewJobDefinition" /\ calls' = RemoveAt(calls, i)
    BY <1>2 DEF RefreshGoesOn, net
  <2> QED
    BY <2>1, RemovedOthers, OthersStay DEF Submits
<1>3. CASE QueryGoesOn(i)
  <2> DEFINE id   == calls[i].id
             map  == [jobStates EXCEPT ![id] = cache[id]]
             next == SetJobStates(map)
  <2>1. /\ kept' = kept /\ Range(up) \subseteq Range(up')
        /\ calls[i].kind = "queryJob"
        /\ Continue(i, next) \/ calls' = RemoveAt(calls, i)
    BY <1>3 DEF QueryGoesOn, net
  <2>2. id \in Hash
    BY <2>1, CallUnderWay, CallTypes DEF Fit
  <2>3. cache[id] \in AllCopies \cup {NoJob} /\ jobStates \in Maps /\ newJobDefinition \in Hash \cup {None}
    BY <2>2, FoundTypes DEF IInv, TypeOK, Maps
  <2>4. map \in Maps
    BY <2>3 DEF Maps
  <2> HIDE DEF map
  <2>5. next \in Calls
    BY <2>3, <2>4, SetJobStatesFits
  <2> HIDE DEF next
  <2>6. \A k \in DOMAIN calls \ {i} : calls[k] \in Range(calls')
    BY <2>1, <2>5, ContinuedOthers, RemovedOthers
  <2> QED
    BY <2>1, <2>6, OthersStay DEF Submits
<1>4. CASE SubmitGoesOn(i)
  BY <1>4, SubmitGoesOnSubmits
<1>5. CASE SendClientStateChange(i)
  BY <1>5, SendClientStateChangeSubmits
<1>6. CASE EndsJobGoesOn(i)
  <2> DEFINE id      == calls[i].id
             why     == IF calls[i].kind = "cancelJob" THEN "Cancelled" ELSE "Deleted"
             copy    == Copy("Finished", why, calls[i].time, TRUE)
             map     == [jobStates EXCEPT ![id] = copy]
             next    == SetJobStates(map)
             message == [job |-> id, kind |-> why, time |-> calls[i].time]
  <2>1. /\ calls[i].kind \in {"cancelJob", "deleteJobCache"}
        /\ SendMessage(message) /\ Continue(i, next)
    BY <1>6 DEF EndsJobGoesOn, TellServer
  <2>2. id \in Hash /\ calls[i].time \in Nat
    BY <2>1, CallUnderWay, CallTypes DEF Fit
  <2>3. why \in {"Cancelled", "Deleted"} /\ why \in Reasons
    BY DEF Reasons
  <2>4. copy \in AllCopies /\ message \in Messages /\ message.kind # "Queued"
    BY <2>2, <2>3, CopyTypes DEF Messages
  <2>5. jobStates \in Maps /\ newJobDefinition \in Hash \cup {None}
    BY DEF IInv, TypeOK, Maps
  <2> HIDE DEF copy, message
  <2>6. map \in Maps
    BY <2>4, <2>5 DEF Maps
  <2> HIDE DEF map
  <2>7. next \in Calls
    BY <2>5, <2>6, SetJobStatesFits
  <2> HIDE DEF next
  <2>8. \A k \in DOMAIN calls \ {i} : calls[k] \in Range(calls')
    BY <2>1, <2>7, ContinuedOthers
  <2>9. kept' = kept /\ Range(up) \subseteq Range(up')
    BY <2>1, <2>4, EndingSent
  <2> QED
    BY <2>1, <2>8, <2>9, OthersStay DEF Submits
<1>7. CASE DownloadThrows(i)
  <2>1. /\ kept' = kept /\ Range(up) \subseteq Range(up')
        /\ calls[i].loads # None /\ calls' = RemoveAt(calls, i)
    BY <1>7 DEF DownloadThrows, net
  <2>2. calls[i].kind = "setJobStates"
    BY <2>1, CallUnderWay DEF Fit
  <2> QED
    BY <2>1, <2>2, RemovedOthers, OthersStay DEF Submits
<1> QED
  BY <1>1, <1>2, <1>3, <1>4, <1>5, <1>6, <1>7 DEF CallGoesOn

LEMMA SubmissionStep ==
  ASSUME IInv, [Next]_vars, NEW h \in Hash, IsSubmitting(h)
  PROVE  IsSubmitting(h)' \/ Ended(h)
<1>1. ASSUME UNCHANGED <<calls, kept, up>>
      PROVE  IsSubmitting(h)'
  BY <1>1 DEF IsSubmitting
<1>2. CASE UNCHANGED vars
  BY <1>1, <1>2 DEF vars, net
<1>3. CASE \E i \in DOMAIN calls : CallGoesOn(i) \/ DownloadThrows(i)
  BY <1>3, CallGoesOnSubmits
<1>4. CASE \/ SubmitJob \/ QueryJob \/ ResubmitJob \/ ClickCancel \/ ClickDelete \/ HearJobStates
           \/ \E k \in Hash : SetSameJobDefinition(k) \/ HearJobStateUpdates(k)
  <2>1. \E call : BeginsWith(call)
    BY <1>4 DEF BeginsWith
  <2> QED
    BY <2>1, BeginsSubmits
<1>5. CASE Open
  BY <1>5, OpenSubmits
<1>6. CASE Cut \/ Close
  BY <1>6 DEF Cut, Close, Ended
<1>7. CASE TakeChange
  BY <1>7, TakeChangeSubmits
<1>8. CASE \/ ClickRun
           \/ \E k \in Hash : \/ ChangeInputs(k) \/ SaveInputFileAndRun(k) \/ SetNewJobDefinition(k)
                              \/ JobStarts(k) \/ JobEnds(k) \/ Swept(k)
  BY <1>1, <1>8 DEF ClickRun, ChangeInputs, SaveInputFileAndRun, SetNewJobDefinition,
     JobStarts, JobEnds, Swept, ServerChanges, net
<1>9. CASE \E k \in Hash : ClickCancelInTable(k)
  <2>1. PICK k \in Hash : ClickCancelInTable(k)
    BY <1>9
  <2> DEFINE message == [job |-> k, kind |-> "Cancelled", time |-> clock']
  <2>2. SendMessage(message) /\ clock' = clock + 1 /\ calls' = calls
    BY <2>1 DEF ClickCancelInTable, TellServer
  <2>3. message \in Messages /\ message.kind # "Queued"
    BY <2>2 DEF Messages, IInv, TypeOK
  <2> HIDE DEF message
  <2>4. kept' = kept /\ Range(up) \subseteq Range(up')
    BY <2>2, <2>3, EndingSent
  <2>5. \A j \in DOMAIN calls : calls[j] \in Range(calls')
    BY <2>2 DEF Range
  <2> QED
    BY <2>4, <2>5, WhereSubmitted, StillSubmitted
<1> QED
  BY <1>2, <1>3, <1>4, <1>5, <1>6, <1>7, <1>8, <1>9 DEF Next

\* A submission goes on, from the click or the effect until the server has
\* taken it, through every overlap of calls and through a closed socket, until
\* the job is at the server or its result in the cache; only a later submission
\* that is kept in its place, or a line cut under it, loses it.
THEOREM SubmissionsAreNotLost == Spec => SubmissionIsNotLost
<1> DEFINE Outcome == \A h \in Hash : IsSubmitting(h) /\ ~IsSubmitting(h)' =>
                        \/ Exists(server'[h]) \/ Exists(cache'[h])
                        \/ kept' # None /\ kept'.job # h
                        \/ "dead" \in {line, line'}
<1>1. IInv /\ [Next]_vars => Outcome
  BY SubmissionStep DEF Ended
<1>2. IInv /\ [Next]_vars => [Outcome]_vars
  BY <1>1
<1> QED
  BY <1>2, Always, PTL DEF Spec, SubmissionIsNotLost


-----------------------------------------------------------------------------
(* A cancelled job stays cancelled.                                        *)

IsDeleted(job) == Exists(job) /\ IsFinishedFor(job, {"Deleted"})

\* A call that does not take the job cancelled here out of the cache.
Leaves(call, h) ==
  /\ call.kind \in {"submitJob", "deleteJobCache"} => call.id # h
  /\ call.loads # h
  /\ ~IsDeleted(call.map[h])

LEMMA Stands ==
  ASSUME NEW h, CancelStands(h)
  PROVE  /\ IsFinishedFor(cache[h], {"Cancelled"}) /\ Exists(cache[h]) /\ ~IsDeleted(cache[h])
         /\ ~IsDeleted(jobStates[h])
         /\ \A call \in Range(calls) : Leaves(call, h)
         /\ \A i \in DOMAIN calls : Leaves(calls[i], h)
<1>1. \A i \in DOMAIN calls : Leaves(calls[i], h)
  BY DEF CancelStands, Leaves, IsDeleted
<1>2. IsFinishedFor(cache[h], {"Cancelled"}) /\ ~IsDeleted(jobStates[h])
  BY DEF CancelStands, IsDeleted
<1>3. Exists(cache[h]) /\ ~IsDeleted(cache[h])
  BY <1>2 DEF Exists, NoJob, IsFinishedFor, IsDeleted
<1> QED
  BY <1>1, <1>2, <1>3 DEF Range

LEMMA StandsStill ==
  ASSUME NEW h, IsFinishedFor(cache'[h], {"Cancelled"}), ~IsDeleted(jobStates'[h]),
         \A call \in Range(calls') : Leaves(call, h)
  PROVE  CancelStands(h)'
BY DEF CancelStands, Leaves, IsDeleted, Range

LEMMA ContinueStands ==
  ASSUME IInv, NEW h \in Hash, CancelStands(h), cache'[h] = cache[h],
         NEW i, i \in DOMAIN calls \/ i = Len(calls) + 1,
         NEW call \in Calls, Leaves(call, h), Continue(i, call)
  PROVE  CancelStands(h)'
<1>1. /\ Range(calls') \subseteq Range(calls) \cup {call}
      /\ jobStates' = jobStates \/ jobStates' = call.map
  BY Continued DEF IInv, TypeOK
<1>2. ~IsDeleted(jobStates'[h])
  BY <1>1, Stands DEF Leaves
<1> QED
  BY <1>1, <1>2, Stands, StandsStill

LEMMA RemovedStands ==
  ASSUME IInv, NEW h \in Hash, CancelStands(h), cache'[h] = cache[h], jobStates' = jobStates,
         NEW i \in DOMAIN calls, calls' = RemoveAt(calls, i)
  PROVE  CancelStands(h)'
<1>1. Range(calls') \subseteq Range(calls)
  BY RemovedAt DEF IInv, TypeOK
<1> QED
  BY <1>1, Stands, StandsStill

LEMMA ReplacedStands ==
  ASSUME IInv, NEW h \in Hash, CancelStands(h), cache'[h] = cache[h], jobStates' = jobStates,
         NEW i \in DOMAIN calls, NEW call \in Calls, Leaves(call, h),
         calls' = [calls EXCEPT ![i] = call]
  PROVE  CancelStands(h)'
<1>1. Range(calls') \subseteq Range(calls) \cup {call}
  BY ReplacedAt DEF IInv, TypeOK
<1> QED
  BY <1>1, Stands, StandsStill

LEMMA SetJobStatesLeaves ==
  ASSUME IInv, NEW h \in Hash, NEW map \in Maps, ~IsDeleted(map[h])
  PROVE  SetJobStates(map) \in Calls /\ Leaves(SetJobStates(map), h)
<1>1. newJobDefinition \in Hash \cup {None} /\ None # h
  BY ClientAssumption DEF IInv, TypeOK
<1> QED
  BY <1>1, SetJobStatesFits DEF Leaves

\* setJobStates: an entry of the cache stands for whatever is heard, and only a
\* download under way or a deleted job replaces it.
LEMMA SetJobStatesStands ==
  ASSUME IInv, NEW i \in DOMAIN calls, SetJobStatesGoesOn(i), NEW h \in Hash, CancelStands(h)
  PROVE  CancelStands(h)'
<1>1. calls[i] \in Calls /\ Leaves(calls[i], h)
  BY CallUnderWay, Stands
<1>2. calls[i].map \in Maps /\ cache \in Maps
  BY <1>1, CallTypes DEF IInv, TypeOK, Maps
<1>3. h # None
  BY ClientAssumption
<1>4. CASE Resolve(i)
  <2> DEFINE call == calls[i]
             next == Resolved(call)
  <2>1. Continue(i, next) /\ cache' = cache /\ next \in Calls /\ next.kind = "setJobStates"
        /\ next.loads = call.loads
    BY <1>4, ResolvedFits DEF Resolve
  <2>2. PICK v \in {call.map[call.id], cache[call.id]} : next.map = [call.map EXCEPT ![call.id] = v]
    BY <1>4, ResolvedFits
  <2> HIDE DEF next, call
  <2>3. ~IsDeleted(next.map[h])
    <3>1. CASE call.id = h
      <4>1. next.map[h] = v
        BY <1>2, <2>2, <3>1 DEF Maps, call
      <4> QED
        BY <1>1, <2>2, <3>1, <4>1, Stands DEF Leaves, call
    <3>2. CASE call.id # h
      <4>1. next.map[h] = call.map[h]
        BY <1>2, <2>2, <3>2 DEF Maps, call
      <4> QED
        BY <1>1, <4>1 DEF Leaves, call
    <3> QED
      BY <3>1, <3>2
  <2>4. Leaves(next, h)
    BY <1>1, <2>1, <2>3 DEF Leaves, call
  <2> QED
    BY <2>1, <2>4, ContinueStands
<1>5. ASSUME NEW k \in Hash, NEW job \in AllCopies \cup {NoJob}, Processed(i, k, job),
             calls[i].kind = "setJobStates", cache'[h] = cache[h], k = h => ~IsDeleted(job)
      PROVE  CancelStands(h)'
  <2> DEFINE next == Handled(i, k, job)
  <2>0. Continue(i, next)
    BY <1>5 DEF Processed, Handled
  <2>1. /\ next \in Calls /\ next.kind = calls[i].kind /\ next.loads = None
        /\ next.map = [calls[i].map EXCEPT ![k] = job]
    BY ProcessedFits
  <2> HIDE DEF next
  <2>2. ~IsDeleted(next.map[h])
    BY <1>1, <1>2, <1>5, <2>1 DEF Maps, Leaves
  <2>3. Leaves(next, h)
    BY <1>3, <1>5, <2>1, <2>2 DEF Leaves
  <2> QED
    BY <1>5, <2>0, <2>1, <2>3, ContinueStands
<1>6. ASSUME NEW k \in Hash, LooksForResult(i, k)
      PROVE  CancelStands(h)'
  <2>1. cache' = cache /\ calls[i].kind = "setJobStates"
    BY <1>6 DEF LooksForResult, IsProcessing
  <2>2. CASE Exists(cache[k])
    BY <1>5, <1>6, <2>1, <2>2, FoundTypes, Stands DEF LooksForResult
  <2>3. CASE ~Exists(cache[k])
    <3> DEFINE next == [calls[i] EXCEPT !.loads = k]
    <3>1. calls' = [calls EXCEPT ![i].loads = k] /\ jobStates' = jobStates /\ k # h
      BY <1>6, <2>3, Stands DEF LooksForResult
    <3>2. /\ next \in Calls /\ next.kind = "setJobStates" /\ next.loads = k /\ next.map = calls[i].map
          /\ calls' = [calls EXCEPT ![i] = next]
      BY <2>1, <3>1, LoadsFits
    <3> HIDE DEF next
    <3>3. Leaves(next, h)
      BY <1>1, <3>1, <3>2 DEF Leaves
    <3> QED
      BY <2>1, <3>1, <3>2, <3>3, ReplacedStands
  <2> QED
    BY <2>2, <2>3
<1>7. ASSUME NEW k \in Hash, Answered(i, k) \/ Saved(i, k)
      PROVE  CancelStands(h)'
  <2>1. calls[i].loads = k /\ k # h /\ k # None
    BY <1>1, <1>7, ClientAssumption DEF Answered, Saved, Leaves
  <2>2. calls[i].kind = "setJobStates"
    BY <2>1, CallUnderWay DEF Fit
  <2>3. cache'[h] = cache[h]
    BY <1>2, <1>7, <2>1 DEF Answered, Saved, Maps
  <2>4. CASE \E job \in AllCopies \cup {NoJob} : Processed(i, k, job)
    BY <1>5, <2>1, <2>2, <2>3, <2>4
  <2>5. CASE /\ Exists(stored[k]) /\ UNCHANGED <<jobStates, jobState>>
             /\ calls' = [calls EXCEPT ![i] = Noted(i, k, [stored[k] EXCEPT !.payload = TRUE])]
    <3> DEFINE result == [stored[k] EXCEPT !.payload = TRUE]
               next   == Noted(i, k, result)
    <3>1. result \in AllCopies /\ calls' = [calls EXCEPT ![i] = Noted(i, k, result)]
      BY <2>5, FoundTypes
    <3> HIDE DEF result
    <3>2. /\ next \in Calls /\ next.kind = "setJobStates" /\ next.loads = k
          /\ next.map = [calls[i].map EXCEPT ![k] = result]
          /\ calls' = [calls EXCEPT ![i] = next]
      BY <2>1, <2>2, <3>1, NotedFits
    <3> HIDE DEF next
    <3>3. Leaves(next, h)
      BY <1>1, <1>2, <2>1, <3>2 DEF Leaves, Maps
    <3> QED
      BY <2>3, <2>5, <3>2, <3>3, ReplacedStands
  <2> QED
    BY <1>7, <2>4, <2>5, FoundTypes DEF Answered, Saved, Noted
<1>8. ASSUME NEW k \in Hash, DeletesEntry(i, k)
      PROVE  CancelStands(h)'
  <2>1. /\ calls[i].kind = "setJobStates" /\ IsFinishedFor(calls[i].map[k], {"Deleted"})
        /\ Processed(i, k, calls[i].map[k]) /\ cache' = [cache EXCEPT ![k] = NoJob]
    BY <1>8 DEF DeletesEntry, IsProcessing
  <2>2. IsDeleted(calls[i].map[k])
    BY <2>1 DEF IsDeleted, IsFinishedFor, Exists, NoJob
  <2>3. k # h
    BY <1>1, <2>2 DEF Leaves
  <2>4. cache'[h] = cache[h]
    BY <1>2, <2>1, <2>3 DEF Maps
  <2> QED
    BY <1>5, <2>1, <2>3, <2>4, FoundTypes
<1> QED
  BY <1>4, <1>6, <1>7, <1>8 DEF SetJobStatesGoesOn


LEMMA CallGoesOnStands ==
  ASSUME IInv, NEW i \in DOMAIN calls, CallGoesOn(i) \/ DownloadThrows(i),
         NEW h \in Hash, CancelStands(h)
  PROVE  CancelStands(h)'
<1> DEFINE id == calls[i].id
<1>1. calls[i] \in Calls /\ Leaves(calls[i], h) /\ Fit(calls[i]) /\ h # None
  BY CallUnderWay, Stands, ClientAssumption
<1>2. /\ jobStates \in Maps /\ cache \in Maps /\ newJobDefinition \in Hash \cup {None}
      /\ Empty \in Maps /\ ~IsDeleted(Empty[h])
  BY DEF IInv, TypeOK, Maps, Empty, IsDeleted, Exists
<1>3. CASE SetJobStatesGoesOn(i)
  BY <1>3, SetJobStatesStands
<1>4. CASE RefreshGoesOn(i)
  BY <1>4, RemovedStands DEF RefreshGoesOn
\* What the cache has is set: a cancelled job is no deleted one.
<1>5. ASSUME id \in Hash, Continue(i, SetJobStates([jobStates EXCEPT ![id] = cache[id]])), cache' = cache
      PROVE  CancelStands(h)'
  <2> DEFINE map == [jobStates EXCEPT ![id] = cache[id]]
  <2> HIDE DEF id
  <2>1. map \in Maps
    BY <1>2, <1>5 DEF Maps
  <2>2. ~IsDeleted(map[h])
    <3>1. map[h] = IF id = h THEN cache[h] ELSE jobStates[h]
      BY <1>2, <1>5 DEF Maps
    <3> QED
      BY <3>1, Stands
  <2>3. Continue(i, SetJobStates(map))
    BY <1>5
  <2> HIDE DEF map
  <2> QED
    BY <1>5, <2>1, <2>2, <2>3, SetJobStatesLeaves, ContinueStands
<1>6. CASE QueryGoesOn(i)
  <2>1. calls[i].kind = "queryJob" /\ cache' = cache
    BY <1>6 DEF QueryGoesOn
  <2>2. id \in Hash
    BY <1>1, <2>1, CallTypes DEF Fit
  <2>3. \/ Continue(i, SetJobStates([jobStates EXCEPT ![id] = cache[id]]))
        \/ calls' = RemoveAt(calls, i) /\ jobStates' = jobStates
    BY <1>6 DEF QueryGoesOn
  <2> QED
    BY <1>5, <2>1, <2>2, <2>3, RemovedStands
<1>7. CASE SubmitGoesOn(i)
  <2> DEFINE found == calls[i].at = "cache" /\ Exists(cache[id])
             next  == IF found THEN [calls[i] EXCEPT !.at = "delete"]
                      ELSE Begun("sendClientStateChange", id, Empty, clock + 1, None)
  <2>1. /\ calls[i].kind = "submitJob" /\ calls' = [calls EXCEPT ![i] = next]
        /\ cache' = IF calls[i].at = "delete" THEN [cache EXCEPT ![id] = NoJob] ELSE cache
        /\ jobStates' = jobStates
    BY <1>7 DEF SubmitGoesOn, store
  <2>2. id \in Hash /\ id # h
    BY <1>1, <2>1, CallTypes DEF Fit, Leaves
  <2>3. cache'[h] = cache[h]
    BY <1>2, <2>1, <2>2 DEF Maps
  <2>4. next \in Calls /\ Leaves(next, h)
    <3>1. CASE found
      <4> DEFINE deleting == [calls[i] EXCEPT !.at = "delete"]
      <4>1. /\ deleting \in Calls /\ deleting.kind = calls[i].kind /\ deleting.id = id
            /\ deleting.loads = calls[i].loads /\ deleting.map = calls[i].map
        BY <1>1 DEF Calls
      <4> HIDE DEF deleting
      <4>2. Leaves(deleting, h)
        BY <1>1, <4>1 DEF Leaves
      <4> QED
        BY <3>1, <4>1, <4>2 DEF deleting
    <3>2. CASE ~found
      <4> DEFINE sending == Begun("sendClientStateChange", id, Empty, clock + 1, None)
      <4> HIDE DEF id
      <4>1. clock + 1 \in Nat
        BY DEF IInv, TypeOK
      <4>2. /\ sending \in Calls /\ sending.kind = "sendClientStateChange"
            /\ sending.loads = None /\ sending.map = Empty
        BY <1>2, <2>2, <4>1, BegunFits DEF Kinds, Afterwards
      <4> HIDE DEF sending
      <4>3. Leaves(sending, h)
        BY <1>1, <1>2, <4>2 DEF Leaves
      <4> QED
        BY <3>2, <4>2, <4>3 DEF sending, id
    <3> QED
      BY <3>1, <3>2
  <2> HIDE DEF next
  <2> QED
    BY <2>1, <2>3, <2>4, ReplacedStands
<1>8. CASE SendClientStateChange(i)
  <2>1. calls[i].kind = "sendClientStateChange" /\ cache' = cache
    BY <1>8 DEF SendClientStateChange
  <2>2. id \in Hash
    BY <1>1, <2>1, CallTypes DEF Fit
  <2>3. \/ Continue(i, SetJobStates([jobStates EXCEPT ![id] = cache[id]]))
        \/ calls' = RemoveAt(calls, i) /\ jobStates' = jobStates
    BY <1>8 DEF SendClientStateChange
  <2> QED
    BY <1>5, <2>1, <2>2, <2>3, RemovedStands
\* It is cancelled again, or another job ends.
<1>9. CASE EndsJobGoesOn(i)
  <2> DEFINE why  == IF calls[i].kind = "cancelJob" THEN "Cancelled" ELSE "Deleted"
             copy == Copy("Finished", why, calls[i].time, TRUE)
             map  == [jobStates EXCEPT ![id] = copy]
  <2>1. /\ calls[i].kind \in {"cancelJob", "deleteJobCache"}
        /\ cache' = [cache EXCEPT ![id] = copy] /\ Continue(i, SetJobStates(map))
    BY <1>9 DEF EndsJobGoesOn
  <2>2. id \in Hash /\ calls[i].time \in Nat /\ (id = h => why = "Cancelled")
    BY <1>1, <2>1, CallTypes DEF Fit, Leaves
  <2>3. why \in Reasons
    BY DEF Reasons
  <2>4. copy \in AllCopies /\ (why = "Cancelled" => IsFinishedFor(copy, {"Cancelled"}) /\ ~IsDeleted(copy))
    BY <2>2, <2>3, CopyTypes DEF Copy, IsFinishedFor, IsDeleted
  <2> HIDE DEF copy, id, why
  <2>5. /\ map \in Maps /\ map[h] = (IF id = h THEN copy ELSE jobStates[h])
        /\ cache'[h] = (IF id = h THEN copy ELSE cache[h])
    BY <1>2, <2>1, <2>2, <2>4 DEF Maps
  <2>6. ~IsDeleted(map[h]) /\ IsFinishedFor(cache'[h], {"Cancelled"})
    BY <2>2, <2>4, <2>5, Stands
  <2> HIDE DEF map
  <2>7. SetJobStates(map) \in Calls /\ Leaves(SetJobStates(map), h) /\ SetJobStates(map).map = map
    BY <1>2, <2>5, <2>6, SetJobStatesLeaves, SetJobStatesFits
  <2>8. /\ Range(calls') \subseteq Range(calls) \cup {SetJobStates(map)}
        /\ jobStates' = jobStates \/ jobStates' = map
    BY <2>1, <2>7, Continued DEF IInv, TypeOK
  <2>9. ~IsDeleted(jobStates'[h])
    BY <2>6, <2>8, Stands
  <2> QED
    BY <2>6, <2>7, <2>8, <2>9, Stands, StandsStill
<1>10. CASE DownloadThrows(i)
  BY <1>10, RemovedStands DEF DownloadThrows, store
<1> QED
  BY <1>3, <1>4, <1>6, <1>7, <1>8, <1>9, <1>10 DEF CallGoesOn


\* Calls that begin leave it too, unless the user or a timer acts.
LEMMA BeginStands ==
  ASSUME IInv, NEW h \in Hash, CancelStands(h), UNCHANGED <<cache, net>>,
         NEW call \in Calls, Leaves(call, h), Begin(call)
  PROVE  CancelStands(h)'
BY ContinueStands DEF Begin

LEMMA SubmitJobIsDue ==
  ASSUME IInv, SubmitJob
  PROVE  due' # due
<1> DEFINE call == Begun("submitJob", newJobDefinition, Empty, 0, None)
<1>1. /\ "submitJob" \in due /\ newJobDefinition' = newJobDefinition /\ line' = line
      /\ IF newJobDefinition = None THEN UNCHANGED <<calls, jobStates, jobState>> ELSE Begin(call)
      /\ Effects(due \ {"submitJob"})
  BY DEF SubmitJob, net
<1>2. newJobDefinition \in Hash \cup {None} /\ Empty \in Maps
  BY DEF IInv, TypeOK, Empty, Maps
<1>3. call.at = "cache"
  BY <1>2, BegunFits DEF Kinds, Afterwards
<1> HIDE DEF call
<1>4. jobState' = jobState
  BY <1>1, <1>3 DEF Begin, Continue
<1> QED
  BY <1>1, <1>4, Effected

LEMMA CancelStep ==
  ASSUME IInv, [Next]_vars, NEW h \in Hash, CancelStands(h)
  PROVE  CancelStands(h)' \/ due' # due \/ acts' # acts
<1>1. ASSUME UNCHANGED <<cache, jobStates, calls>>
      PROVE  CancelStands(h)'
  BY <1>1 DEF CancelStands
<1>2. CASE UNCHANGED vars
  BY <1>1, <1>2 DEF vars, store
<1>3. CASE \E i \in DOMAIN calls : CallGoesOn(i) \/ DownloadThrows(i)
  BY <1>3, CallGoesOnStands
<1>4. CASE \/ ClickRun \/ ClickCancel \/ ClickDelete
           \/ \E k \in Hash : ChangeInputs(k) \/ SaveInputFileAndRun(k) \/ ClickCancelInTable(k)
  <2>1. Act
    BY <1>4 DEF ClickRun, ClickCancel, ClickDelete, ChangeInputs, SaveInputFileAndRun,
       ClickCancelInTable
  <2> QED
    BY <2>1, Acted
<1>5. CASE SubmitJob \/ ResubmitJob
  BY <1>5, SubmitJobIsDue DEF ResubmitJob
<1>6. CASE QueryJob
  <2> DEFINE call == Begun("queryJob", newJobDefinition, Empty, 0, None)
  <2>1. BeginsWith(call)
    BY <1>6 DEF BeginsWith
  <2>2. newJobDefinition \in Hash \cup {None} /\ Empty \in Maps /\ Empty[h] = NoJob /\ h # None
    BY ClientAssumption DEF IInv, TypeOK, Empty, Maps
  <2>3. call.kind = "queryJob" /\ call.loads = None /\ call.map = Empty
    BY <2>2, BegunFits DEF Kinds, Afterwards
  <2> HIDE DEF call
  <2>4. Leaves(call, h)
    BY <2>2, <2>3 DEF Leaves, IsDeleted, Exists
  <2>5. CASE call \in Calls /\ Begin(call)
    BY <2>1, <2>4, <2>5, BeginsCall, BeginStands
  <2>6. CASE UNCHANGED <<calls, jobStates>>
    BY <1>1, <1>6, <2>6 DEF QueryJob
  <2>7. (call \in Calls /\ Begin(call)) \/ UNCHANGED <<calls, jobStates>>
    <3>1. CASE newJobDefinition = None
      BY <1>6, <3>1 DEF QueryJob
    <3>2. CASE newJobDefinition # None
      BY <1>6, <2>2, <3>2, BegunFits DEF QueryJob, call, Kinds, Afterwards
    <3> QED
      BY <3>1, <3>2
  <2> QED
    BY <2>5, <2>6, <2>7
<1>7. CASE HearJobStates
  <2> DEFINE map == [k \in Hash |-> Sent(server[k])]
  <2>1. Begin(SetJobStates(map)) /\ UNCHANGED <<cache, net>>
    BY <1>7 DEF HearJobStates
  <2>2. map \in Maps /\ ~IsDeleted(map[h])
    BY SentTypes DEF IInv, TypeOK, Maps, IsDeleted
  <2> HIDE DEF map
  <2> QED
    BY <2>1, <2>2, SetJobStatesLeaves, BeginStands
<1>8. CASE \E k \in Hash : HearJobStateUpdates(k)
  <2>1. PICK k \in Hash : HearJobStateUpdates(k)
    BY <1>8
  <2>2. Begin(SetJobStates(Updated(k))) /\ UNCHANGED <<cache, net>>
    BY <2>1 DEF HearJobStateUpdates, Updated
  <2>3. Updated(k) \in Maps /\ ~IsDeleted(Updated(k)[h])
    BY UpdatedTypes, Stands DEF IsDeleted
  <2> QED
    BY <2>2, <2>3, SetJobStatesLeaves, BeginStands
<1>9. CASE \E k \in Hash : SetSameJobDefinition(k)
  <2>1. PICK k \in Hash : SetSameJobDefinition(k)
    BY <1>9
  <2> DEFINE call == Begun("setNewJobDefinition", k, jobStates, 0, None)
  <2>2. Begin(call) /\ UNCHANGED <<cache, net>>
    BY <2>1 DEF SetSameJobDefinition
  <2>3. jobStates \in Maps /\ h # None
    BY ClientAssumption DEF IInv, TypeOK, Maps
  <2>4. /\ call \in Calls /\ call.kind = "setNewJobDefinition" /\ call.loads = None
        /\ call.map = jobStates
    BY <2>3, BegunFits DEF Kinds, Afterwards
  <2> HIDE DEF call
  <2>5. Leaves(call, h)
    BY <2>3, <2>4, Stands DEF Leaves
  <2> QED
    BY <2>2, <2>4, <2>5, BeginStands
<1>10. CASE \/ Open \/ Cut \/ Close \/ TakeChange
            \/ \E k \in Hash : SetNewJobDefinition(k) \/ JobStarts(k) \/ JobEnds(k) \/ Swept(k)
  BY <1>1, <1>10 DEF Open, Cut, Close, TakeChange, SetNewJobDefinition, JobStarts, JobEnds, Swept,
     ServerChanges, store
<1> QED
  BY <1>2, <1>3, <1>4, <1>5, <1>6, <1>7, <1>8, <1>9, <1>10 DEF Next

\* Once no call under way would take a job cancelled here out of the cache, none
\* that begins does: nothing the server says, no late answer of a cache or of a
\* query, no change of the definition; it takes a timer that submits or deletes,
\* or the user.
THEOREM CancelledStays == Spec => CancelStandsUntilActedOn
<1> DEFINE Outcome == \A h \in Hash : CancelStands(h) => CancelStands(h)' \/ due' # due \/ acts' # acts
<1>1. IInv /\ [Next]_vars => Outcome
  BY CancelStep
<1>2. IInv /\ [Next]_vars => [Outcome]_vars
  BY <1>1
<1> QED
  BY <1>2, Always, PTL DEF Spec, CancelStandsUntilActedOn
=============================================================================
