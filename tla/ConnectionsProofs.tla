-------------------------- MODULE ConnectionsProofs --------------------------
(***************************************************************************)
(* Connections for any servers, objects, workers, sockets and bounds: the  *)
(* types, that no change of a list of workers goes untold, and that a job  *)
(* is declared lost only by a server that has not got the word.            *)
(*                                                                         *)
(* That what one object told another is what it lists now needs what was   *)
(* said in its server's name before it was made: nothing, which Silent     *)
(* says.  That only an object there is speaks needs that a socket open at  *)
(* the server leads to one, which Attended says.                           *)
(***************************************************************************)
EXTENDS Connections, SequenceTheorems, TLAPS

-----------------------------------------------------------------------------
(* The inductive invariant.                                                *)

Waits(end) == end.far \in {"awaited", "missed"} /\ end.by # Browser

\* A socket that its server has not closed leads to an object of a server that runs,
\* and a worker's that waits will find one in userJobQueues.
Attended ==
  \A n \in Socket :
    /\ sockets[n].far # "closed" => sockets[n].to \in Queue /\ Listening(sockets[n].to)
    /\ Waits(sockets[n]) => current[Home(sockets[n].to)] # None

\* userJobQueues has objects there are.
CurrentIsMade ==
  \A s \in servers : current[s] # None =>
    Home(current[s]) = s /\ object[current[s]] # "none"

\* Nobody has made an object of s.
Unmade(s) == \A r \in Queue : Home(r) = s => object[r] = "none"

\* An object that is not made hears nothing and, on a server that runs, has said
\* nothing; of a server that has made none nobody has heard.
Silent ==
  \A p, q \in Queue :
    /\ object[q] = "none" => news[p][q] = <<>> /\ others[q][Home(p)] = Unheard
    /\ object[p] = "none" /\ Home(p) \in servers => news[p][q] = <<>>
    /\ Unmade(Home(p)) /\ Home(p) \in servers => others[q][Home(p)] = Unheard

IInv == TypeOK /\ Attended /\ CurrentIsMade /\ Silent /\ ViewsCatchUp

-----------------------------------------------------------------------------
(* The ends of a socket.                                                   *)

\* What f may be when it takes the place of e, without the server's lists knowing.
EndKept(e, f) ==
  /\ f.far # "closed" => e.far # "closed" /\ f.to = e.to
  /\ Waits(f) => Waits(e)
  /\ e.far \in {"attached", "closing"} =>
       /\ f.by = e.by /\ f.to = e.to /\ (e.known => f.known)
       /\ f.far \in {"attached", "closing"}

EndsKept ==
  /\ sockets' \in [Socket -> End]
  /\ \A n \in Socket : EndKept(sockets[n], sockets'[n])

Message == {"PING", "REGISTER"}

LEMMA FreeIsEnd == Free \in End
BY EmptySeq DEF Free, End

LEMMA EndIsKept == ASSUME NEW e \in End PROVE EndKept(e, e)
BY DEF EndKept

LEMMA EndField ==
  ASSUME NEW e \in End
  PROVE  /\ \A up \in Seq(Message) : [e EXCEPT !.up = up] \in End /\ EndKept(e, [e EXCEPT !.up = up])
         /\ \A down \in {None, "PONG unknown"} :
              [e EXCEPT !.down = down] \in End /\ EndKept(e, [e EXCEPT !.down = down])
         /\ [e EXCEPT !.near = "closed"] \in End /\ EndKept(e, [e EXCEPT !.near = "closed"])
         /\ \A cut \in BOOLEAN : [e EXCEPT !.cut = cut] \in End /\ EndKept(e, [e EXCEPT !.cut = cut])
         /\ [e EXCEPT !.known = TRUE] \in End /\ EndKept(e, [e EXCEPT !.known = TRUE])
BY DEF EndKept, End, Message, Waits

LEMMA KeptIsTransitive ==
  ASSUME NEW e, NEW f, NEW g, EndKept(e, f), EndKept(f, g)
  PROVE  EndKept(e, g)
BY DEF EndKept

LEMMA ForgetKeeps ==
  ASSUME NEW e \in End
  PROVE  Forget(e) \in End /\ EndKept(e, Forget(e))
BY FreeIsEnd, EndIsKept DEF Forget, EndKept, Free, Waits

LEMMA OneEnd ==
  ASSUME sockets \in [Socket -> End], NEW n \in Socket,
         NEW f \in End, EndKept(sockets[n], f),
         sockets' = [sockets EXCEPT ![n] = f]
  PROVE  EndsKept
BY EndIsKept DEF EndsKept

-----------------------------------------------------------------------------
(* Lists.                                                                  *)

LEMMA EntriesType == \A entry : Entries(entry) \in SUBSET Worker
BY DEF Entries

LEMMA LastOfAppend ==
  ASSUME NEW s \in Seq(SUBSET Worker), NEW x \in SUBSET Worker
  PROVE  /\ Append(s, x) \in Seq(SUBSET Worker)
         /\ Append(s, x) # <<>>
         /\ Last(Append(s, x)) = x
BY AppendProperties DEF Last

LEMMA LastOfTail ==
  ASSUME NEW s \in Seq(SUBSET Worker), s # <<>>
  PROVE  /\ Tail(s) \in Seq(SUBSET Worker)
         /\ Head(s) \in SUBSET Worker
         /\ Tail(s) # <<>> => Last(Tail(s)) = Last(s)
         /\ Tail(s) = <<>> => Head(s) = Last(s)
<1> DEFINE k == Len(s)
           t == Tail(s)
           j == Len(t)
<1>1. k \in Nat /\ k # 0
  BY EmptySeq, LenProperties
<1>2. t \in Seq(SUBSET Worker) /\ j = k - 1 /\ \A i \in 1 .. j : t[i] = s[i + 1]
  BY HeadTailProperties
<1>3. Head(s) = s[1] /\ Head(s) \in SUBSET Worker
  BY HeadTailProperties
<1>4. Last(s) = s[k] /\ Last(t) = t[j]
  BY DEF Last
<1>5. t = <<>> => j = 0
  BY EmptySeq
<1>6. t # <<>> => j # 0
  BY <1>2, EmptySeq
<1> HIDE DEF k, j, t
<1>7. j = 0 => k = 1
  BY <1>1, <1>2
<1>8. j # 0 => t[j] = s[k]
  BY <1>1, <1>2
<1>9. t # <<>> => Last(t) = Last(s)
  BY <1>4, <1>6, <1>8
<1>10. t = <<>> => Head(s) = Last(s)
  BY <1>3, <1>4, <1>5, <1>7
<1> QED
  BY <1>2, <1>3, <1>9, <1>10 DEF t

\* Whoever was made is made, and the others' lists are as they were.
LEMMA ViewsKept ==
  ASSUME Silent, ViewsCatchUp, UNCHANGED <<servers, others, news, mine>>,
         \A q \in Queue : (object'[q] = "none") <=> (object[q] = "none")
  PROVE  Silent' /\ ViewsCatchUp'
<1>1. Silent'
  BY DEF Silent, Unmade
<1>2. ViewsCatchUp'
  BY DEF ViewsCatchUp, IsAlone, Listening, LastWord
<1> QED
  BY <1>1, <1>2

\* Everything of TypeOK that is not about sockets and lists.
OthersTyped ==
  /\ world \in World
  /\ servers \subseteq Server
  /\ current \in [Server -> Queue \cup {None}]
  /\ object \in [Queue -> {"none", "setup", "ready"}]
  /\ clients \in [Queue -> SUBSET Socket]
  /\ worker \in [Worker -> [alive : BOOLEAN, socket : Socket \cup {None}, periodic : BOOLEAN]]
  /\ running \subseteq Worker
  /\ troubles \in 0 .. MaxTrouble
  /\ visits \in 0 .. world.visits

ListsTyped ==
  /\ mine \in [Queue -> [Worker -> Socket \cup {None}]]
  /\ others \in [Queue -> [Server -> {Unheard} \cup SUBSET Worker]]
  /\ news \in [Queue -> [Queue -> Seq(SUBSET Worker)]]

LEMMA Types == TypeOK <=> OthersTyped /\ ListsTyped /\ sockets \in [Socket -> End] /\ ListedIsOpen
BY DEF TypeOK, OthersTyped, ListsTyped

LEMMA TypesNext ==
  (OthersTyped /\ ListsTyped /\ sockets \in [Socket -> End] /\ ListedIsOpen)' => TypeOK'
BY DEF TypeOK, OthersTyped, ListsTyped

LEMMA HomeIsServer == ASSUME NEW q \in Queue PROVE Home(q) \in Server
BY ConnectionsAssumption DEF ConnectionsAssumption, Home

\* Entries may go, and ends change as EndKept lets them.
LEMMA ListedKept ==
  ASSUME ListedIsOpen, Attended, ListsTyped, EndsKept,
         \A q \in Queue, w \in Worker : mine'[q][w] \in {None, mine[q][w]},
         \A q \in Queue : Listening(q) => Listening(q)', UNCHANGED current
  PROVE  ListedIsOpen' /\ Attended'
<1>1. ListedIsOpen'
  <2> SUFFICES ASSUME NEW q \in Queue, NEW w \in Worker, mine'[q][w] # None
               PROVE  LET end == sockets'[mine'[q][w]] IN
                      end.by = w /\ end.to = q /\ end.known /\ end.far \in {"attached", "closing"}
    BY DEF ListedIsOpen
  <2> DEFINE n == mine[q][w]
  <2>1. mine'[q][w] = n /\ n # None /\ n \in Socket
    BY DEF ListsTyped
  <2>2. /\ sockets[n].by = w /\ sockets[n].to = q /\ sockets[n].known
        /\ sockets[n].far \in {"attached", "closing"}
    BY <2>1 DEF ListedIsOpen
  <2>3. EndKept(sockets[n], sockets'[n])
    BY <2>1 DEF EndsKept
  <2> QED
    BY <2>1, <2>2, <2>3 DEF EndKept
<1>2. Attended'
  <2> SUFFICES ASSUME NEW n \in Socket
               PROVE  /\ sockets'[n].far # "closed" =>
                           /\ sockets'[n].to \in Queue /\ object'[sockets'[n].to] # "none"
                           /\ Home(sockets'[n].to) \in servers'
                      /\ Waits(sockets'[n]) => current[Home(sockets'[n].to)] # None
    BY DEF Attended, Listening, Waits
  <2>1. EndKept(sockets[n], sockets'[n])
    BY DEF EndsKept
  <2>2. sockets'[n].far # "closed" => sockets[n].far # "closed" /\ sockets'[n].to = sockets[n].to
    BY <2>1 DEF EndKept
  <2>3. Waits(sockets'[n]) => sockets'[n].far # "closed" /\ Waits(sockets[n])
    BY <2>1 DEF EndKept, Waits
  <2> QED
    BY <2>2, <2>3 DEF Attended, Listening
<1> QED
  BY <1>1, <1>2

\* A step of which the servers' lists know nothing.
LEMMA SoftStep ==
  ASSUME IInv, EndsKept, UNCHANGED <<world, made, lists>>, OthersTyped'
  PROVE  IInv'
<1>1. OthersTyped /\ ListsTyped /\ ListedIsOpen
  BY Types DEF IInv
<1>2. ListedIsOpen' /\ Attended'
  <2>1. \A q \in Queue, w \in Worker : mine'[q][w] \in {None, mine[q][w]}
    BY DEF lists
  <2>2. \A q \in Queue : Listening(q) => Listening(q)'
    BY DEF made, Listening
  <2> QED
    BY <1>1, <2>1, <2>2, ListedKept DEF IInv, made
<1>3. ListsTyped' /\ CurrentIsMade'
  BY <1>1 DEF IInv, lists, made, ListsTyped, CurrentIsMade
<1>4. Silent' /\ ViewsCatchUp'
  BY ViewsKept DEF IInv, lists, made
<1>5. TypeOK'
  BY <1>2, <1>3, TypesNext DEF EndsKept
<1> QED
  BY <1>2, <1>3, <1>4, <1>5 DEF IInv

-----------------------------------------------------------------------------
(* What an object tells the others.                                        *)

LEMMA TellType ==
  ASSUME ListsTyped, NEW p \in Queue, NEW q \in Queue, NEW list \in SUBSET Worker
  PROVE  Tell(p, q, list) \in Seq(SUBSET Worker)
BY LastOfAppend DEF ListsTyped, Tell

\* What q hears last from p is the list that p tells.
LEMMA LastWordIsTold ==
  ASSUME ListsTyped, NEW p \in Queue, NEW entry,
         BroadcastWorkersToChannel(p, entry), UNCHANGED <<servers, object, others>>
  PROVE  /\ news' \in [Queue -> [Queue -> Seq(SUBSET Worker)]]
         /\ \A q \in Queue : Listening(q) /\ Home(q) # Home(p) => LastWord(p, q)' = Entries(entry)
         /\ \A q \in Queue : ~Listening(q) => news'[p][q] = news[p][q]
         /\ \A a, q \in Queue : a # p => news'[a][q] = news[a][q]
<1> DEFINE list == Entries(entry)
<1>1. list \in SUBSET Worker
  BY EntriesType
<1> HIDE DEF list
<1>2. news' = [news EXCEPT ![p] = [q \in Queue |-> Tell(p, q, list)]]
  BY DEF BroadcastWorkersToChannel, list
<1>3. \A q \in Queue : Tell(p, q, list) \in Seq(SUBSET Worker)
  BY <1>1, TellType
<1>4. /\ \A q \in Queue : news'[p][q] = Tell(p, q, list)
      /\ \A a, q \in Queue : a # p => news'[a][q] = news[a][q]
  BY <1>2 DEF ListsTyped
<1>5. news' \in [Queue -> [Queue -> Seq(SUBSET Worker)]]
  BY <1>2, <1>3 DEF ListsTyped
<1>6. ASSUME NEW q \in Queue, Listening(q), Home(q) # Home(p)
      PROVE  LastWord(p, q)' = list
  <2>1. CASE LastWord(p, q) = list
    <3>1. news'[p][q] = news[p][q]
      BY <1>4, <1>6, <2>1 DEF Tell
    <3> QED
      BY <2>1, <3>1 DEF LastWord
  <2>2. CASE LastWord(p, q) # list
    <3>1. news'[p][q] = Append(news[p][q], list)
      BY <1>4, <1>6, <2>2 DEF Tell
    <3>2. news[p][q] \in Seq(SUBSET Worker)
      BY DEF ListsTyped
    <3>3. news'[p][q] # <<>> /\ Last(news'[p][q]) = list
      BY <1>1, <3>1, <3>2, LastOfAppend
    <3> QED
      BY <3>3 DEF LastWord
  <2> QED
    BY <2>1, <2>2
<1>7. \A q \in Queue : ~Listening(q) => news'[p][q] = news[p][q]
  BY <1>4 DEF Tell
<1> QED
  BY <1>4, <1>5, <1>6, <1>7 DEF list

\* The list of p changes, and p tells the others.
LEMMA ToldOfChange ==
  ASSUME ListsTyped, Silent, ViewsCatchUp, NEW p \in Queue, Listening(p),
         NEW entry, MyWorkersHaveChanged(p, entry), UNCHANGED <<servers, object, others>>
  PROVE  /\ news' \in [Queue -> [Queue -> Seq(SUBSET Worker)]]
         /\ Silent' /\ ViewsCatchUp'
<1>1. /\ news' \in [Queue -> [Queue -> Seq(SUBSET Worker)]]
      /\ \A q \in Queue : Listening(q) /\ Home(q) # Home(p) => LastWord(p, q)' = Entries(entry)
      /\ \A q \in Queue : ~Listening(q) => news'[p][q] = news[p][q]
      /\ \A a, q \in Queue : a # p => news'[a][q] = news[a][q]
  BY LastWordIsTold DEF MyWorkersHaveChanged
<1>2. mine'[p] = entry /\ \A a \in Queue : a # p => mine'[a] = mine[a]
  BY DEF MyWorkersHaveChanged, ListsTyped
<1>3. Silent'
  <2> SUFFICES ASSUME NEW a \in Queue, NEW q \in Queue
               PROVE  /\ object[q] = "none" => news'[a][q] = <<>> /\ others[q][Home(a)] = Unheard
                      /\ object[a] = "none" /\ Home(a) \in servers => news'[a][q] = <<>>
                      /\ Unmade(Home(a)) /\ Home(a) \in servers => others[q][Home(a)] = Unheard
    BY DEF Silent, Unmade
  <2>1. object[q] = "none" \/ object[a] = "none" => news'[a][q] = news[a][q]
    BY <1>1 DEF Listening
  <2> QED
    BY <2>1 DEF Silent
<1>4. ViewsCatchUp'
  <2> SUFFICES ASSUME NEW a \in Queue, NEW q \in Queue,
                      Listening(a), Listening(q), Home(a) # Home(q), IsAlone(a)
               PROVE  LastWord(a, q)' \in {Unheard, Entries(mine'[a])}
    BY DEF ViewsCatchUp, Listening, IsAlone
  <2>1. CASE a = p
    BY <1>1, <1>2, <2>1
  <2>2. CASE a # p
    <3>1. LastWord(a, q)' = LastWord(a, q) /\ mine'[a] = mine[a]
      BY <1>1, <1>2, <2>2 DEF LastWord
    <3> QED
      BY <3>1 DEF ViewsCatchUp
  <2> QED
    BY <2>1, <2>2
<1> QED
  BY <1>1, <1>3, <1>4

LEMMA HearWorkersStep ==
  ASSUME IInv, NEW q \in Queue, NEW p \in Queue, HearWorkers(q, p)
  PROVE  IInv'
<1>1. OthersTyped /\ ListsTyped /\ sockets \in [Socket -> End] /\ ListedIsOpen
  BY Types DEF IInv
<1> DEFINE s == news[p][q]
<1>2. s \in Seq(SUBSET Worker) /\ s # <<>>
  BY <1>1 DEF HearWorkers, ListsTyped
<1>3. /\ Tail(s) \in Seq(SUBSET Worker) /\ Head(s) \in SUBSET Worker
      /\ Tail(s) # <<>> => Last(Tail(s)) = Last(s)
      /\ Tail(s) = <<>> => Head(s) = Last(s)
  BY <1>2, LastOfTail
<1> HIDE DEF s
<1>4. Home(p) \in Server
  BY HomeIsServer
<1>5. /\ news' = [news EXCEPT ![p] = [news[p] EXCEPT ![q] = Tail(s)]]
      /\ others' = [others EXCEPT ![q] = [others[q] EXCEPT ![Home(p)] = Head(s)]]
      /\ UNCHANGED <<world, servers, current, object, mine, clients, sockets, worker, running,
                     troubles, visits>>
      /\ Listening(q)
  BY DEF HearWorkers, OtherWorkersHaveChanged, made, s
<1>6. ListsTyped'
  BY <1>1, <1>3, <1>4, <1>5 DEF ListsTyped
<1>7. /\ news'[p][q] = Tail(s) /\ others'[q][Home(p)] = Head(s)
      /\ \A a, b \in Queue : a # p \/ b # q => news'[a][b] = news[a][b]
      /\ \A a, b \in Queue : Home(a) # Home(p) \/ b # q => others'[b][Home(a)] = others[b][Home(a)]
  BY <1>1, <1>4, <1>5, HomeIsServer DEF ListsTyped
<1>8. object[q] # "none" /\ (Home(p) \in servers => object[p] # "none")
  BY <1>2, <1>5 DEF IInv, Silent, Listening, s
<1>9. Silent'
  <2> SUFFICES ASSUME NEW a \in Queue, NEW b \in Queue
               PROVE  /\ object[b] = "none" => news'[a][b] = <<>> /\ others'[b][Home(a)] = Unheard
                      /\ object[a] = "none" /\ Home(a) \in servers => news'[a][b] = <<>>
                      /\ Unmade(Home(a)) /\ Home(a) \in servers => others'[b][Home(a)] = Unheard
    BY <1>5 DEF Silent, Unmade
  <2>1. /\ object[b] = "none" => news[a][b] = <<>> /\ others[b][Home(a)] = Unheard
        /\ object[a] = "none" /\ Home(a) \in servers => news[a][b] = <<>>
        /\ Unmade(Home(a)) /\ Home(a) \in servers => others[b][Home(a)] = Unheard
    BY DEF IInv, Silent
  <2>2. Home(a) = Home(p) /\ Home(a) \in servers => ~Unmade(Home(a))
    BY <1>8 DEF Unmade
  <2> QED
    BY <1>7, <1>8, <2>1, <2>2
<1>10. ViewsCatchUp'
  <2> SUFFICES ASSUME NEW a \in Queue, NEW b \in Queue,
                      Listening(a), Listening(b), Home(a) # Home(b), IsAlone(a)
               PROVE  LastWord(a, b)' \in {Unheard, Entries(mine[a])}
    BY <1>5 DEF ViewsCatchUp, Listening, IsAlone
  <2>1. LastWord(a, b) \in {Unheard, Entries(mine[a])}
    BY DEF IInv, ViewsCatchUp
  <2>2. LastWord(a, b)' = LastWord(a, b)
    <3>1. CASE a = p /\ b = q
      <4>1. LastWord(a, b) = Last(s)
        BY <1>2, <3>1 DEF LastWord, s
      <4>2. LastWord(a, b)' = IF Tail(s) # <<>> THEN Last(Tail(s)) ELSE Head(s)
        BY <1>7, <3>1 DEF LastWord
      <4> QED
        BY <1>3, <4>1, <4>2
    <3>2. CASE a # p /\ b = q
      <4>1. Home(a) # Home(p)
        BY <1>8, <3>2 DEF IsAlone, Listening
      <4> QED
        BY <1>7, <3>2, <4>1 DEF LastWord
    <3>3. CASE b # q
      BY <1>7, <3>3 DEF LastWord
    <3> QED
      BY <3>1, <3>2, <3>3
  <2> QED
    BY <2>1, <2>2
<1>11. /\ OthersTyped' /\ sockets' \in [Socket -> End] /\ ListedIsOpen'
       /\ Attended' /\ CurrentIsMade'
  BY <1>1, <1>5 DEF IInv, OthersTyped, ListedIsOpen, Attended, CurrentIsMade, Listening, Waits
<1> QED
  BY <1>6, <1>9, <1>10, <1>11, TypesNext DEF IInv

\* An object of a server that runs is made.
LEMMA MadeViews ==
  ASSUME Silent, ViewsCatchUp, OthersTyped, UNCHANGED <<servers, others, news, mine>>,
         NEW q \in Queue, object[q] = "none", object' = [object EXCEPT ![q] = "setup"]
  PROVE  /\ Silent' /\ ViewsCatchUp'
         /\ \A p \in Queue : Listening(p) => Listening(p)'
<1>1. object'[q] = "setup" /\ \A p \in Queue : p # q => object'[p] = object[p]
  BY DEF OthersTyped
<1>2. Silent'
  <2>1. \A s : Unmade(s)' => Unmade(s)
    BY <1>1 DEF Unmade
  <2> QED
    BY <1>1, <2>1 DEF Silent
<1>3. ViewsCatchUp'
  <2> SUFFICES ASSUME NEW a \in Queue, NEW b \in Queue,
                      object'[a] # "none", Home(a) \in servers, object'[b] # "none",
                      Home(b) \in servers, Home(a) # Home(b), IsAlone(a)'
               PROVE  LastWord(a, b) \in {Unheard, Entries(mine[a])}
    BY DEF ViewsCatchUp, Listening, LastWord
  <2>1. CASE a = q
    <3>1. Unmade(Home(a))
      BY <1>1, <2>1 DEF IsAlone, Unmade
    <3> QED
      BY <2>1, <3>1 DEF Silent, LastWord
  <2>2. CASE b = q
    BY <2>2 DEF Silent, LastWord
  <2>3. CASE a # q /\ b # q
    <3>1. IsAlone(a)
      BY <1>1 DEF IsAlone
    <3> QED
      BY <1>1, <2>3, <3>1 DEF ViewsCatchUp, Listening
  <2> QED
    BY <2>1, <2>2, <2>3
<1> QED
  BY <1>1, <1>2, <1>3 DEF Listening

-----------------------------------------------------------------------------
(* Steps of which the lists know nothing.                                  *)

WorkerRecord == [alive : BOOLEAN, socket : Socket \cup {None}, periodic : BOOLEAN]

\* What an invariant says of one socket, one worker.
LEMMA Parts ==
  ASSUME IInv
  PROVE  /\ OthersTyped /\ ListsTyped /\ ListedIsOpen
         /\ sockets \in [Socket -> End]
         /\ \A n \in Socket : /\ sockets[n] \in End /\ sockets[n].up \in Seq(Message)
                              /\ sockets[n].by \in Worker \cup {Browser, None}
                              /\ sockets[n].cut \in BOOLEAN
         /\ \A w \in Worker : worker[w] \in WorkerRecord
         /\ \A w \in Worker : worker[w].socket # None => worker[w].socket \in Socket
<1>1. OthersTyped /\ ListsTyped /\ sockets \in [Socket -> End] /\ ListedIsOpen
  BY Types DEF IInv
<1>2. \A n \in Socket : /\ sockets[n] \in End /\ sockets[n].up \in Seq(Message)
                        /\ sockets[n].by \in Worker \cup {Browser, None}
                        /\ sockets[n].cut \in BOOLEAN
  BY <1>1 DEF End, Message
<1>3. /\ \A w \in Worker : worker[w] \in WorkerRecord
      /\ \A w \in Worker : worker[w].socket # None => worker[w].socket \in Socket
  BY <1>1 DEF OthersTyped, WorkerRecord
<1> QED
  BY <1>1, <1>2, <1>3

LEMMA UpChanges ==
  ASSUME IInv, NEW n \in Socket, NEW up \in Seq(Message),
         sockets' = [sockets EXCEPT ![n].up = up]
  PROVE  EndsKept
<1> DEFINE f == [sockets[n] EXCEPT !.up = up]
<1>1. f \in End /\ EndKept(sockets[n], f)
  BY Parts, EndField
<1>2. sockets' = [sockets EXCEPT ![n] = f]
  OBVIOUS
<1> HIDE DEF f
<1> QED
  BY <1>1, <1>2, OneEnd, Parts

LEMMA UpAndDownChange ==
  ASSUME IInv, NEW n \in Socket, NEW up \in Seq(Message), NEW down \in {None, "PONG unknown"},
         sockets' = [sockets EXCEPT ![n].up = up, ![n].down = down]
  PROVE  EndsKept
<1> DEFINE e == [sockets[n] EXCEPT !.up = up]
           f == [e EXCEPT !.down = down]
<1>1. e \in End /\ EndKept(sockets[n], e)
  BY Parts, EndField
<1>2. sockets' = [sockets EXCEPT ![n] = f]
  BY Parts
<1> HIDE DEF e
<1>3. f \in End /\ EndKept(e, f)
  BY <1>1, EndField
<1> HIDE DEF f
<1>4. EndKept(sockets[n], f)
  BY <1>1, <1>3, KeptIsTransitive
<1> QED
  BY <1>2, <1>3, <1>4, OneEnd, Parts

LEMMA SendType ==
  ASSUME NEW queued \in Seq(Message), NEW message \in Message
  PROVE  /\ Send(queued, message) \in Seq(Message)
         /\ Append(queued, message) \in Seq(Message)
         /\ queued # <<>> => Tail(queued) \in Seq(Message)
BY AppendProperties, HeadTailProperties DEF Send

LEMMA MessagesStep ==
  ASSUME IInv, NEW n \in Socket, Unlistened(n) \/ OnPing(n)
  PROVE  IInv'
<1>1. sockets[n].up # <<>> /\ Tail(sockets[n].up) \in Seq(Message)
  BY Parts, SendType DEF Unlistened, OnPing, OnMessage, Delivers, Message
<1>2. EndsKept
  <2>1. CASE Unlistened(n)
    BY <1>1, <2>1, UpChanges DEF Unlistened
  <2>2. CASE OnPing(n)
    <3> DEFINE down == IF sockets[n].known THEN None ELSE "PONG unknown"
    <3>1. sockets' = [sockets EXCEPT ![n].up = Tail(sockets[n].up), ![n].down = down]
      BY <2>2 DEF OnPing
    <3>2. down \in {None, "PONG unknown"}
      OBVIOUS
    <3> HIDE DEF down
    <3> QED
      BY <1>1, <3>1, <3>2, UpAndDownChange
  <2> QED
    BY <2>1, <2>2
<1>3. UNCHANGED <<world, made, lists, clients, worker, running, troubles, visits>>
  BY DEF Unlistened, OnPing
<1>4. OthersTyped'
  BY <1>3, Parts DEF OthersTyped, made
<1> QED
  BY <1>2, <1>3, <1>4, SoftStep

LEMMA WorkerSendsStep ==
  ASSUME IInv, NEW w \in Worker, OnPong(w) \/ Ping(w) \/ RegistrationInterval(w)
  PROVE  IInv'
<1> DEFINE n == worker[w].socket
<1>1. n \in Socket
  BY Parts DEF OnPong, Ping, RegistrationInterval
<1>2. EndsKept
  <2>1. CASE OnPong(w)
    <3>1. sockets' = [sockets EXCEPT ![n].up = Send(sockets[n].up, "REGISTER"), ![n].down = None]
      BY <1>1, <2>1, Parts DEF OnPong
    <3>2. Send(sockets[n].up, "REGISTER") \in Seq(Message)
      BY <1>1, Parts, SendType DEF Message
    <3> QED
      BY <1>1, <3>1, <3>2, UpAndDownChange
  <2>2. CASE Ping(w)
    <3>1. sockets' = [sockets EXCEPT ![n].up = Append(sockets[n].up, "PING")]
      BY <2>2 DEF Ping
    <3>2. Append(sockets[n].up, "PING") \in Seq(Message)
      BY <1>1, Parts, SendType DEF Message
    <3> QED
      BY <1>1, <3>1, <3>2, UpChanges
  <2>3. CASE RegistrationInterval(w)
    <3>1. sockets' = [sockets EXCEPT ![n].up = Append(sockets[n].up, "REGISTER")]
      BY <2>3 DEF RegistrationInterval
    <3>2. Append(sockets[n].up, "REGISTER") \in Seq(Message)
      BY <1>1, Parts, SendType DEF Message
    <3> QED
      BY <1>1, <3>1, <3>2, UpChanges
  <2> QED
    BY <2>1, <2>2, <2>3
<1>3. UNCHANGED <<world, made, lists, clients, worker, running, troubles, visits>>
  BY DEF OnPong, Ping, RegistrationInterval
<1>4. OthersTyped'
  BY <1>3, Parts DEF OthersTyped, made
<1> QED
  BY <1>2, <1>3, <1>4, SoftStep

LEMMA CloseNearKeeps ==
  ASSUME IInv, NEW n \in Socket, CloseNear(n)
  PROVE  EndsKept
<1> DEFINE e == [sockets[n] EXCEPT !.near = "closed"]
           f == [e EXCEPT !.down = None]
<1>1. e \in End /\ EndKept(sockets[n], e)
  BY Parts, EndField
<1>2. sockets' = [sockets EXCEPT ![n] = Forget(f)]
  BY Parts DEF CloseNear
<1> HIDE DEF e
<1>3. f \in End /\ EndKept(e, f)
  BY <1>1, EndField
<1> HIDE DEF f
<1>4. Forget(f) \in End /\ EndKept(f, Forget(f))
  BY <1>3, ForgetKeeps
<1>5. EndKept(sockets[n], Forget(f))
  BY <1>1, <1>3, <1>4, KeptIsTransitive
<1> QED
  BY <1>2, <1>4, <1>5, OneEnd, Parts

LEMMA ReconnectStep ==
  ASSUME IInv, NEW w \in Worker, Reconnect(w), troubles' \in 0 .. MaxTrouble
  PROVE  IInv'
<1>1. worker[w].socket \in Socket /\ EndsKept
  BY Parts, CloseNearKeeps DEF Reconnect
<1>2. [worker[w] EXCEPT !.socket = None, !.periodic = FALSE] \in WorkerRecord
  BY Parts DEF WorkerRecord
<1>3. worker' \in [Worker -> WorkerRecord]
  <2>1. worker' = [worker EXCEPT ![w] = [worker[w] EXCEPT !.socket = None, !.periodic = FALSE]]
    BY Parts DEF Reconnect, Hangs, OthersTyped
  <2> QED
    BY <1>2, <2>1, Parts DEF OthersTyped, WorkerRecord
<1>4. OthersTyped'
  BY <1>3, Parts DEF OthersTyped, made, Reconnect, WorkerRecord
<1> QED
  BY <1>1, <1>4, SoftStep DEF Reconnect

LEMMA ClosesStep ==
  ASSUME IInv, NEW w \in Worker, NoJobStates(w) \/ NoPong(w) \/ HearClose(w) \/ ReconnectInHaste(w)
  PROVE  IInv'
<1>1. troubles \in 0 .. MaxTrouble
  BY Parts DEF OthersTyped
<1>2. Reconnect(w)
  BY DEF NoJobStates, NoPong, HearClose, ReconnectInHaste
<1>3. troubles' \in 0 .. MaxTrouble
  BY <1>1, ConnectionsAssumption
     DEF NoJobStates, NoPong, HearClose, ReconnectInHaste, Trouble, ConnectionsAssumption
<1> QED
  BY <1>2, <1>3, ReconnectStep

LEMMA ClientLeavesStep ==
  ASSUME IInv, NEW n \in Socket, ClientLeaves(n)
  PROVE  IInv'
<1>1. OthersTyped'
  BY Parts DEF OthersTyped, made, ClientLeaves
<1> QED
  BY <1>1, CloseNearKeeps, SoftStep DEF ClientLeaves

LEMMA FarClosesStep ==
  ASSUME IInv, NEW n \in Socket, FarCloses(n)
  PROVE  IInv'
<1> DEFINE far == IF sockets[n].far = "awaited" THEN "missed" ELSE "closing"
           e == [sockets[n] EXCEPT !.up = <<>>]
           f == [e EXCEPT !.far = far]
<1>1. e \in End /\ EndKept(sockets[n], e)
  BY Parts, EmptySeq, EndField
<1>2. e.far = sockets[n].far
  BY Parts DEF End
<1>3. sockets' = [sockets EXCEPT ![n] = f]
  BY Parts DEF FarCloses, End
<1>4. /\ far \in {"missed", "closing"} /\ (e.far = "attached" => far = "closing")
      /\ e.far \in {"awaited", "attached"}
  BY <1>2 DEF FarCloses
<1> HIDE DEF e, far
<1>5. f \in End /\ EndKept(e, f)
  BY <1>1, <1>4 DEF End, EndKept, Waits
<1> HIDE DEF f
<1>6. EndKept(sockets[n], f)
  BY <1>1, <1>5, KeptIsTransitive
<1>7. OthersTyped'
  BY Parts DEF OthersTyped, made, FarCloses
<1> QED
  BY <1>3, <1>5, <1>6, <1>7, OneEnd, Parts, SoftStep DEF FarCloses

LEMMA CutStep ==
  ASSUME IInv, NEW n \in Socket, Cut(n)
  PROVE  IInv'
<1> DEFINE e == [sockets[n] EXCEPT !.cut = TRUE]
           f == [e EXCEPT !.up = <<>>]
           g == [f EXCEPT !.down = None]
<1>1. e \in End /\ EndKept(sockets[n], e)
  BY Parts, EndField
<1>2. sockets' = [sockets EXCEPT ![n] = g]
  BY Parts DEF Cut
<1> HIDE DEF e
<1>3. f \in End /\ EndKept(e, f)
  BY <1>1, EmptySeq, EndField
<1> HIDE DEF f
<1>4. g \in End /\ EndKept(f, g)
  BY <1>3, EndField
<1> HIDE DEF g
<1>5. EndKept(sockets[n], g)
  BY <1>1, <1>3, <1>4, KeptIsTransitive
<1>6. OthersTyped'
  BY Parts, ConnectionsAssumption DEF OthersTyped, made, Cut, Trouble, ConnectionsAssumption
<1> QED
  BY <1>2, <1>4, <1>5, <1>6, OneEnd, Parts, SoftStep DEF Cut

LEMMA WorkerGoesStep ==
  ASSUME IInv, NEW w \in Worker, WorkerGoes(w)
  PROVE  IInv'
<1>1. EndsKept
  <2>1. CASE worker[w].socket = None
    BY <2>1, Parts, EndIsKept DEF WorkerGoes, EndsKept
  <2>2. CASE worker[w].socket # None
    <3> DEFINE n == worker[w].socket
    <3>1. n \in Socket
      BY <2>2, Parts
    <3>2. PICK dead \in {TRUE, sockets[n].cut} :
            sockets' = [sockets EXCEPT ![n] = Abandoned(sockets[n], dead)]
      BY <2>2, <3>1, Parts DEF WorkerGoes
    <3> DEFINE up == IF dead THEN <<>> ELSE sockets[n].up
               e  == [sockets[n] EXCEPT !.near = "closed"]
               f  == [e EXCEPT !.down = None]
               g  == [f EXCEPT !.cut = dead]
               h  == [g EXCEPT !.up = up]
    <3>3. e \in End /\ EndKept(sockets[n], e)
      BY <3>1, Parts, EndField
    <3>4. up \in Seq(Message) /\ dead \in BOOLEAN
      BY <3>1, Parts, EmptySeq
    <3>5. sockets' = [sockets EXCEPT ![n] = Forget(h)]
      <4>1. Abandoned(sockets[n], dead) = Forget(h)
        <5>1. h = [sockets[n] EXCEPT !.near = "closed", !.down = None, !.cut = dead,
                                     !.up = IF dead THEN <<>> ELSE @]
          BY <3>1, Parts DEF End
        <5> HIDE DEF h
        <5> QED
          BY <5>1 DEF Abandoned
      <4> HIDE DEF h
      <4> QED
        BY <3>2, <4>1
    <3> HIDE DEF e, up
    <3>6. f \in End /\ EndKept(e, f)
      BY <3>3, EndField
    <3> HIDE DEF f
    <3>7. g \in End /\ EndKept(f, g)
      BY <3>4, <3>6, EndField
    <3> HIDE DEF g
    <3>8. h \in End /\ EndKept(g, h)
      BY <3>4, <3>7, EndField
    <3> HIDE DEF h
    <3>9. Forget(h) \in End /\ EndKept(h, Forget(h))
      BY <3>8, ForgetKeeps
    <3>10. EndKept(sockets[n], Forget(h))
      BY <3>3, <3>6, <3>7, <3>8, <3>9, KeptIsTransitive
    <3> QED
      BY <3>1, <3>5, <3>9, <3>10, OneEnd, Parts
  <2> QED
    BY <2>1, <2>2
<1>2. worker' \in [Worker -> WorkerRecord]
  <2>1. [worker[w] EXCEPT !.alive = FALSE, !.socket = None] \in WorkerRecord
    BY Parts DEF WorkerRecord
  <2>2. worker' = [worker EXCEPT ![w] = [worker[w] EXCEPT !.alive = FALSE, !.socket = None]]
    BY Parts DEF WorkerGoes, OthersTyped
  <2> QED
    BY <2>1, <2>2, Parts DEF OthersTyped, WorkerRecord
<1>3. OthersTyped'
  BY <1>2, Parts, ConnectionsAssumption
     DEF OthersTyped, made, WorkerGoes, Trouble, WorkerRecord, ConnectionsAssumption
<1> QED
  BY <1>1, <1>3, SoftStep DEF WorkerGoes

-----------------------------------------------------------------------------
(* Steps that change a list.                                               *)

\* The list of p changes and is told; what the sockets say is shown apart.
LEMMA ToldStep ==
  ASSUME IInv, NEW p \in Queue, Listening(p), NEW entry \in [Worker -> Socket \cup {None}],
         MyWorkersHaveChanged(p, entry), UNCHANGED <<servers, current, object, others>>,
         OthersTyped', sockets' \in [Socket -> End], ListedIsOpen', Attended'
  PROVE  IInv'
<1>1. ListsTyped
  BY Parts
<1>2. /\ news' \in [Queue -> [Queue -> Seq(SUBSET Worker)]]
      /\ Silent' /\ ViewsCatchUp'
  BY <1>1, ToldOfChange DEF IInv
<1>3. ListsTyped'
  BY <1>1, <1>2 DEF ListsTyped, MyWorkersHaveChanged
<1>4. CurrentIsMade'
  BY DEF IInv, CurrentIsMade
<1> QED
  BY <1>2, <1>3, <1>4, TypesNext DEF IInv

\* Entries of p go, and the sockets are as they were.
LEMMA EntriesGo ==
  ASSUME IInv, NEW p \in Queue, Listening(p), NEW entry \in [Worker -> Socket \cup {None}],
         \A w \in Worker : entry[w] \in {None, mine[p][w]},
         MyWorkersHaveChanged(p, entry), UNCHANGED <<servers, current, object, others, sockets>>,
         OthersTyped'
  PROVE  IInv'
<1>1. ListsTyped /\ ListedIsOpen /\ Attended /\ sockets \in [Socket -> End]
  BY Parts DEF IInv
<1>2. EndsKept
  BY <1>1, EndIsKept DEF EndsKept
<1>3. \A q \in Queue, w \in Worker : mine'[q][w] \in {None, mine[q][w]}
  BY <1>1 DEF MyWorkersHaveChanged, ListsTyped
<1>4. \A q \in Queue : Listening(q) => Listening(q)'
  BY DEF Listening
<1>5. ListedIsOpen' /\ Attended'
  BY <1>1, <1>2, <1>3, <1>4, ListedKept
<1> QED
  BY <1>1, <1>5, ToldStep

LEMMA WorkersIntervalStep ==
  ASSUME IInv, NEW q \in Queue, WorkersInterval(q)
  PROVE  IInv'
<1>1. mine[q] \in [Worker -> Socket \cup {None}]
  BY Parts DEF ListsTyped
<1>2. MyWorkersHaveChanged(q, mine[q])
  BY Parts DEF WorkersInterval, MyWorkersHaveChanged, ListsTyped
<1>3. OthersTyped'
  BY Parts DEF OthersTyped, made, WorkersInterval
<1> QED
  BY <1>1, <1>2, <1>3, EntriesGo DEF WorkersInterval, made

LEMMA StillOpenType ==
  ASSUME NEW entry \in [Worker -> Socket \cup {None}]
  PROVE  /\ StillOpen(entry) \in [Worker -> Socket \cup {None}]
         /\ \A w \in Worker : StillOpen(entry)[w] \in {None, entry[w]}
         /\ \A w \in Worker : StillOpen(entry)[w] # None => sockets[entry[w]].far = "attached"
BY DEF StillOpen

LEMMA JobsIntervalStep ==
  ASSUME IInv, NEW q \in Queue, JobsInterval(q)
  PROVE  IInv'
<1> DEFINE entry == StillOpen(mine[q])
<1>1. mine[q] \in [Worker -> Socket \cup {None}]
  BY Parts DEF ListsTyped
<1>2. /\ entry \in [Worker -> Socket \cup {None}]
      /\ \A w \in Worker : entry[w] \in {None, mine[q][w]}
  BY <1>1, StillOpenType
<1>3. MyWorkersHaveChanged(q, entry)
  BY DEF JobsInterval, BroadcastJobStates
<1>4. OthersTyped'
  <2>1. clients' \in [Queue -> SUBSET Socket]
    BY Parts DEF JobsInterval, BroadcastJobStates, StillOpenClients, OthersTyped
  <2> QED
    BY <2>1, Parts DEF OthersTyped, made, JobsInterval
<1> HIDE DEF entry
<1> QED
  BY <1>2, <1>3, <1>4, EntriesGo DEF JobsInterval, made

LEMMA OnRegisterStep ==
  ASSUME IInv, NEW n \in Socket, OnRegister(n)
  PROVE  IInv'
<1> DEFINE q     == sockets[n].to
           w     == sockets[n].by
           reg   == Registered(mine[q], w, n)
           entry == StillOpen(reg)
           up    == Tail(sockets[n].up)
           e     == [sockets[n] EXCEPT !.up = up]
           f     == [e EXCEPT !.known = TRUE]
<1>1. /\ w \in Worker /\ sockets[n].far = "attached" /\ sockets[n].up # <<>>
      /\ MyWorkersHaveChanged(q, entry)
      /\ clients' = [clients EXCEPT ![q] = StillOpenClients(clients[q])]
      /\ running' \in {running, running \cup {w}}
      /\ UNCHANGED <<world, servers, current, object, others, worker, troubles, visits>>
  BY DEF OnRegister, OnMessage, Delivers, BroadcastJobStates, made
<1>2. q \in Queue /\ Listening(q)
  BY <1>1 DEF IInv, Attended
<1>3. mine[q] \in [Worker -> Socket \cup {None}]
  BY <1>2, Parts DEF ListsTyped
<1>4. /\ reg \in [Worker -> Socket \cup {None}]
      /\ \A v \in Worker : reg[v] = mine[q][v] \/ (v = w /\ reg[v] = n)
  BY <1>1, <1>3 DEF Registered
<1> HIDE DEF reg
<1>5. /\ entry \in [Worker -> Socket \cup {None}]
      /\ \A v \in Worker : entry[v] \in {None, reg[v]}
  BY <1>4, StillOpenType
<1> HIDE DEF entry
<1>6. mine'[q] = entry /\ \A p \in Queue : p # q => mine'[p] = mine[p]
  BY <1>1, <1>2, Parts DEF MyWorkersHaveChanged, ListsTyped
<1>7. up \in Seq(Message)
  BY <1>1, Parts, SendType DEF Message
<1> HIDE DEF up
<1>8. e \in End /\ EndKept(sockets[n], e)
  BY <1>7, Parts, EndField
<1>9. sockets' = [sockets EXCEPT ![n] = f]
  BY Parts DEF OnRegister, up
<1> HIDE DEF e
<1>10. f \in End /\ EndKept(e, f) /\ f.known
  BY <1>8, EndField DEF End
<1> HIDE DEF f
<1>11. EndKept(sockets[n], f)
  BY <1>8, <1>10, KeptIsTransitive
<1>12. EndsKept
  BY <1>9, <1>10, <1>11, OneEnd, Parts
<1>13. ListedIsOpen'
  <2> SUFFICES ASSUME NEW p \in Queue, NEW v \in Worker, mine'[p][v] # None
               PROVE  LET end == sockets'[mine'[p][v]] IN
                      end.by = v /\ end.to = p /\ end.known /\ end.far \in {"attached", "closing"}
    BY DEF ListedIsOpen
  <2>1. CASE mine'[p][v] = mine[p][v]
    <3> DEFINE m == mine[p][v]
    <3>1. m # None /\ m \in Socket
      BY <2>1, Parts DEF ListsTyped
    <3>2. /\ sockets[m].by = v /\ sockets[m].to = p /\ sockets[m].known
          /\ sockets[m].far \in {"attached", "closing"}
      BY <3>1, Parts DEF ListedIsOpen
    <3>3. EndKept(sockets[m], sockets'[m])
      BY <1>12, <3>1 DEF EndsKept
    <3> HIDE DEF m
    <3> QED
      BY <2>1, <3>2, <3>3 DEF EndKept, m
  <2>2. CASE mine'[p][v] # mine[p][v]
    <3>1. p = q /\ v = w /\ mine'[p][v] = n
      BY <1>4, <1>5, <1>6, <2>2
    <3>2. sockets'[n] = f /\ f.by = w /\ f.to = q /\ f.far \in {"attached", "closing"}
      BY <1>1, <1>9, <1>11, Parts DEF EndKept
    <3> QED
      BY <1>10, <3>1, <3>2
  <2> QED
    BY <2>1, <2>2
<1>14. Attended'
  <2> SUFFICES ASSUME NEW m \in Socket
               PROVE  /\ sockets'[m].far # "closed" =>
                           sockets'[m].to \in Queue /\ Listening(sockets'[m].to)
                      /\ Waits(sockets'[m]) => current[Home(sockets'[m].to)] # None
    BY <1>1 DEF Attended, Listening, Waits
  <2>1. EndKept(sockets[m], sockets'[m])
    BY <1>12 DEF EndsKept
  <2>2. sockets'[m].far # "closed" => sockets[m].far # "closed" /\ sockets'[m].to = sockets[m].to
    BY <2>1 DEF EndKept
  <2>3. Waits(sockets'[m]) => sockets'[m].far # "closed" /\ Waits(sockets[m])
    BY <2>1 DEF EndKept, Waits
  <2> QED
    BY <2>2, <2>3 DEF IInv, Attended
<1>15. OthersTyped'
  <2>1. clients' \in [Queue -> SUBSET Socket]
    BY <1>1, Parts DEF StillOpenClients, OthersTyped
  <2> QED
    BY <1>1, <2>1, Parts DEF OthersTyped
<1> HIDE DEF q, w
<1> QED
  BY <1>1, <1>2, <1>5, <1>12, <1>13, <1>14, <1>15, ToldStep DEF EndsKept

\* The close listener of connectWorker or connectClient.
LEMMA OnCloseStep ==
  ASSUME IInv, NEW n \in Socket, OnClose(n)
  PROVE  IInv'
<1> DEFINE q     == sockets[n].to
           entry == WithoutSocket(mine[q], n)
           e     == [sockets[n] EXCEPT !.far = "closed"]
<1>1. /\ sockets[n].far = "closing" /\ sockets[n].by \in Worker \cup {Browser}
      /\ UNCHANGED <<world, servers, current, object, others, worker, running, troubles, visits>>
  BY DEF OnClose, made
<1>2. q \in Queue /\ Listening(q)
  BY <1>1 DEF IInv, Attended
<1>3. mine[q] \in [Worker -> Socket \cup {None}]
  BY <1>2, Parts DEF ListsTyped
<1>4. /\ entry \in [Worker -> Socket \cup {None}]
      /\ \A w \in Worker : entry[w] \in {None, mine[q][w]} /\ entry[w] # n
  BY <1>3, ConnectionsAssumption DEF WithoutSocket, ConnectionsAssumption
<1>5. e \in End /\ e.far = "closed"
  BY Parts DEF End
<1>6. sockets' = [sockets EXCEPT ![n] = Forget(e)]
  BY Parts DEF OnClose
<1> HIDE DEF e
<1>7. Forget(e) \in End /\ Forget(e).far = "closed"
  BY <1>5, ForgetKeeps DEF Forget, Free
<1>8. /\ sockets' \in [Socket -> End] /\ sockets'[n].far = "closed"
      /\ \A m \in Socket : m # n => sockets'[m] = sockets[m]
  BY <1>6, <1>7, Parts
<1>9. Attended'
  <2> SUFFICES ASSUME NEW m \in Socket, sockets'[m].far # "closed"
               PROVE  /\ sockets'[m].to \in Queue /\ Listening(sockets'[m].to)
                      /\ Waits(sockets'[m]) => current[Home(sockets'[m].to)] # None
    BY <1>1 DEF Attended, Listening, Waits
  <2> QED
    BY <1>8 DEF IInv, Attended
<1>10. /\ OthersTyped'
       /\ \/ sockets[n].by \in Worker /\ mine' = [mine EXCEPT ![q] = entry]
          \/ sockets[n].by = Browser /\ mine' = mine /\ news' = news
  <2>1. clients' \in [Queue -> SUBSET Socket]
    BY Parts DEF OnClose, OthersTyped
  <2>2. OthersTyped'
    BY <1>1, <2>1, Parts DEF OthersTyped
  <2>3. entry = mine[q] => mine = [mine EXCEPT ![q] = entry]
    BY Parts DEF ListsTyped
  <2> HIDE DEF entry
  <2>4. CASE sockets[n].by \in Worker
    BY <2>2, <2>3, <2>4, ConnectionsAssumption
       DEF OnClose, MyWorkersHaveChanged, entry, ConnectionsAssumption
  <2>5. CASE sockets[n].by = Browser
    BY <2>2, <2>5, ConnectionsAssumption DEF OnClose, ConnectionsAssumption
  <2> QED
    BY <1>1, <2>4, <2>5
<1> HIDE DEF entry
<1>11. ListedIsOpen'
  <2> SUFFICES ASSUME NEW p \in Queue, NEW w \in Worker, mine'[p][w] # None
               PROVE  LET end == sockets'[mine'[p][w]] IN
                      end.by = w /\ end.to = p /\ end.known /\ end.far \in {"attached", "closing"}
    BY DEF ListedIsOpen
  <2> DEFINE m == mine[p][w]
  <2>1. mine'[p][w] = m
    BY <1>2, <1>4, <1>10, Parts DEF ListsTyped
  <2>2. m # None /\ m \in Socket
    BY <2>1, Parts DEF ListsTyped
  <2>3. /\ sockets[m].by = w /\ sockets[m].to = p /\ sockets[m].known
        /\ sockets[m].far \in {"attached", "closing"}
    BY <2>2, Parts DEF ListedIsOpen
  <2>4. m # n
    <3>1. CASE sockets[n].by \in Worker
      <4>1. mine' = [mine EXCEPT ![q] = entry]
        BY <1>10, <3>1, ConnectionsAssumption DEF ConnectionsAssumption
      <4>2. m = n => p = q
        BY <2>3
      <4>3. p = q => m = entry[w]
        BY <1>2, <2>1, <4>1, Parts DEF ListsTyped
      <4> HIDE DEF m
      <4> QED
        BY <1>4, <4>2, <4>3
    <3>2. CASE sockets[n].by = Browser
      BY <2>3, <3>2, ConnectionsAssumption DEF ConnectionsAssumption
    <3> QED
      BY <1>1, <3>1, <3>2
  <2>5. sockets'[m] = sockets[m]
    BY <1>8, <2>2, <2>4
  <2> HIDE DEF m
  <2> QED
    BY <2>1, <2>3, <2>5
<1>12. CASE MyWorkersHaveChanged(q, entry)
  BY <1>1, <1>2, <1>4, <1>8, <1>9, <1>10, <1>11, <1>12, ToldStep
<1>13. CASE UNCHANGED <<mine, news>>
  <2>1. ListsTyped' /\ CurrentIsMade'
    BY <1>1, <1>13, Parts DEF ListsTyped, IInv, CurrentIsMade
  <2>2. Silent' /\ ViewsCatchUp'
    BY <1>1, <1>13, ViewsKept DEF IInv
  <2> QED
    BY <1>8, <1>9, <1>10, <1>11, <2>1, <2>2, TypesNext DEF IInv
<1>14. MyWorkersHaveChanged(q, entry) \/ UNCHANGED <<mine, news>>
  BY DEF OnClose, entry
<1> QED
  BY <1>12, <1>13, <1>14

-----------------------------------------------------------------------------
(* Objects are made, and servers go.                                       *)

\* A number that is free is given to a socket that leads to an object there is.
LEMMA OpenedStep ==
  ASSUME IInv, NEW n \in Socket, Forgotten(n),
         NEW by \in Worker \cup {Browser}, NEW q \in Queue,
         NEW far \in {"awaited", "attached"}, NEW sent \in Seq(Message),
         sockets' = [sockets EXCEPT ![n] = Opened(by, q, far, sent)],
         UNCHANGED <<servers, lists>>, Silent', ViewsCatchUp',
         Listening(q)', \A p \in Queue : Listening(p) => Listening(p)',
         OthersTyped', CurrentIsMade',
         \A s \in Server : current[s] # None => current'[s] # None,
         far = "awaited" /\ by # Browser => current'[Home(q)] # None
  PROVE  IInv'
<1> DEFINE f == Opened(by, q, far, sent)
<1>1. f \in End /\ f.to = q /\ f.far = far /\ f.by = by
  BY FreeIsEnd DEF Opened, Free, End, Message
<1> HIDE DEF f
<1>2. /\ sockets' \in [Socket -> End] /\ sockets'[n] = f
      /\ \A m \in Socket : m # n => sockets'[m] = sockets[m]
  BY <1>1, Parts DEF f
<1>3. ListedIsOpen'
  <2> SUFFICES ASSUME NEW p \in Queue, NEW w \in Worker, mine[p][w] # None
               PROVE  LET end == sockets'[mine[p][w]] IN
                      end.by = w /\ end.to = p /\ end.known /\ end.far \in {"attached", "closing"}
    BY DEF ListedIsOpen, lists
  <2>1. mine[p][w] \in Socket /\ mine[p][w] # n
    BY Parts DEF ListsTyped, Forgotten
  <2>2. sockets'[mine[p][w]] = sockets[mine[p][w]]
    BY <1>2, <2>1
  <2> QED
    BY <2>2, Parts DEF ListedIsOpen
<1>4. Attended'
  <2> SUFFICES ASSUME NEW m \in Socket, sockets'[m].far # "closed"
               PROVE  /\ sockets'[m].to \in Queue /\ object'[sockets'[m].to] # "none"
                      /\ Home(sockets'[m].to) \in servers'
                      /\ Waits(sockets'[m]) => current'[Home(sockets'[m].to)] # None
    BY DEF Attended, Listening, Waits
  <2>1. CASE m = n
    BY <1>1, <1>2, <2>1 DEF Listening, Waits
  <2>2. CASE m # n
    BY <1>2, <2>2, HomeIsServer DEF IInv, Attended, Listening
  <2> QED
    BY <2>1, <2>2
<1>5. ListsTyped'
  BY Parts DEF ListsTyped, lists
<1> QED
  BY <1>2, <1>3, <1>4, <1>5, TypesNext DEF IInv

LEMMA WorkerOpensStep ==
  ASSUME IInv, NEW w \in Worker, NEW s \in Server, NEW n \in Socket, WorkerOpens(w, s, n)
  PROVE  IInv'
<1>1. /\ Forgotten(n) /\ s \in servers
      /\ UNCHANGED <<world, servers, lists, clients, running, troubles, visits>>
  BY DEF WorkerOpens, Unused
<1>2. <<"REGISTER">> \in Seq(Message)
  BY DEF Message
<1>3. worker' \in [Worker -> WorkerRecord]
  <2>1. [worker[w] EXCEPT !.socket = n] \in WorkerRecord
    BY Parts DEF WorkerRecord
  <2>2. worker' = [worker EXCEPT ![w] = [worker[w] EXCEPT !.socket = n]]
    BY Parts DEF WorkerOpens, OthersTyped
  <2> QED
    BY <2>1, <2>2, Parts DEF OthersTyped, WorkerRecord
<1>4. CASE /\ current[s] # None
           /\ sockets' = [sockets EXCEPT ![n] = Opened(w, current[s], "attached", <<"REGISTER">>)]
           /\ UNCHANGED <<current, object>>
  <2> DEFINE q == current[s]
  <2>1. q \in Queue /\ Listening(q)
    BY <1>1, <1>4, Parts DEF IInv, CurrentIsMade, OthersTyped, Listening
  <2>2. Silent' /\ ViewsCatchUp'
    BY <1>1, <1>4, ViewsKept DEF IInv, lists
  <2>3. \A p \in Queue : Listening(p) => Listening(p)'
    BY <1>1, <1>4 DEF Listening
  <2>4. OthersTyped' /\ CurrentIsMade'
    BY <1>1, <1>3, <1>4, Parts DEF OthersTyped, IInv, CurrentIsMade, WorkerRecord
  <2> HIDE DEF q
  <2>5. sockets' = [sockets EXCEPT ![n] = Opened(w, q, "attached", <<"REGISTER">>)]
    BY <1>4 DEF q
  <2>6. \A t \in Server : current[t] # None => current'[t] # None
    BY <1>4
  <2> QED
    BY <1>1, <1>2, <2>1, <2>2, <2>3, <2>4, <2>5, <2>6, OpenedStep
<1>5. CASE \E q \in Fresh(s) :
             /\ object' = [object EXCEPT ![q] = "setup"]
             /\ current' = [current EXCEPT ![s] = q]
             /\ sockets' = [sockets EXCEPT ![n] = Opened(w, q, "awaited", <<"REGISTER">>)]
  <2> PICK q \in Fresh(s) :
             /\ object' = [object EXCEPT ![q] = "setup"]
             /\ current' = [current EXCEPT ![s] = q]
             /\ sockets' = [sockets EXCEPT ![n] = Opened(w, q, "awaited", <<"REGISTER">>)]
    BY <1>5
  <2>1. q \in Queue /\ Home(q) = s /\ object[q] = "none"
    BY DEF Fresh
  <2>2. /\ Silent' /\ ViewsCatchUp'
        /\ \A p \in Queue : Listening(p) => Listening(p)'
    BY <1>1, <2>1, Parts, MadeViews DEF IInv, lists
  <2>3. object'[q] = "setup" /\ \A p \in Queue : p # q => object'[p] = object[p]
    BY <2>1, Parts DEF OthersTyped
  <2>4. Listening(q)'
    BY <1>1, <2>1, <2>3 DEF Listening
  <2>5. OthersTyped'
    BY <1>1, <1>3, <2>1, Parts DEF OthersTyped, WorkerRecord
  <2>6. CurrentIsMade'
    <3>1. current'[s] = q /\ \A t \in Server : t # s => current'[t] = current[t]
      BY Parts DEF OthersTyped
    <3> QED
      BY <1>1, <2>1, <2>3, <3>1, Parts DEF IInv, CurrentIsMade, OthersTyped
  <2>7. /\ \A t \in Server : current[t] # None => current'[t] # None
        /\ current'[Home(q)] # None
    BY <2>1, Parts, ConnectionsAssumption DEF OthersTyped, ConnectionsAssumption
  <2> QED
    BY <1>1, <1>2, <2>1, <2>2, <2>4, <2>5, <2>6, <2>7, OpenedStep
<1> QED
  BY <1>4, <1>5 DEF WorkerOpens

LEMMA ClientOpensStep ==
  ASSUME IInv, NEW s \in Server, NEW n \in Socket, ClientOpens(s, n)
  PROVE  IInv'
<1>1. /\ Forgotten(n) /\ s \in servers
      /\ UNCHANGED <<world, servers, current, lists, worker, running, troubles>>
  BY DEF ClientOpens, Unused
<1>2. visits' \in 0 .. world'.visits
  <2>1. visits \in 0 .. world.visits /\ world.visits \in Nat
    BY Parts, ConnectionsAssumption DEF OthersTyped, ConnectionsAssumption
  <2> QED
    BY <1>1, <2>1 DEF ClientOpens
<1>3. CASE /\ current[s] # None
           /\ sockets' = [sockets EXCEPT ![n] = Opened(Browser, current[s], "attached", <<>>)]
           /\ clients' = [clients EXCEPT ![current[s]] = @ \cup {n}]
           /\ UNCHANGED object
  <2> DEFINE q == current[s]
  <2>1. q \in Queue /\ Listening(q)
    BY <1>1, <1>3, Parts DEF IInv, CurrentIsMade, OthersTyped, Listening
  <2>2. Silent' /\ ViewsCatchUp'
    BY <1>1, <1>3, ViewsKept DEF IInv, lists
  <2>3. \A p \in Queue : Listening(p) => Listening(p)'
    BY <1>1, <1>3 DEF Listening
  <2>4. OthersTyped' /\ CurrentIsMade'
    BY <1>1, <1>2, <1>3, Parts DEF OthersTyped, IInv, CurrentIsMade
  <2> HIDE DEF q
  <2>5. sockets' = [sockets EXCEPT ![n] = Opened(Browser, q, "attached", <<>>)]
    BY <1>3 DEF q
  <2> QED
    BY <1>1, <2>1, <2>2, <2>3, <2>4, <2>5, EmptySeq, OpenedStep
<1>4. CASE /\ UNCHANGED clients
           /\ \E q \in Fresh(s) :
                /\ object' = [object EXCEPT ![q] = "setup"]
                /\ sockets' = [sockets EXCEPT ![n] = Opened(Browser, q, "awaited", <<>>)]
  <2> PICK q \in Fresh(s) :
                /\ object' = [object EXCEPT ![q] = "setup"]
                /\ sockets' = [sockets EXCEPT ![n] = Opened(Browser, q, "awaited", <<>>)]
    BY <1>4
  <2>1. q \in Queue /\ Home(q) = s /\ object[q] = "none"
    BY DEF Fresh
  <2>2. /\ Silent' /\ ViewsCatchUp'
        /\ \A p \in Queue : Listening(p) => Listening(p)'
    BY <1>1, <2>1, Parts, MadeViews DEF IInv, lists
  <2>3. object'[q] = "setup" /\ \A p \in Queue : p # q => object'[p] = object[p]
    BY <2>1, Parts DEF OthersTyped
  <2>4. Listening(q)'
    BY <1>1, <2>1, <2>3 DEF Listening
  <2>5. OthersTyped' /\ CurrentIsMade'
    BY <1>1, <1>2, <1>4, <2>1, <2>3, Parts DEF OthersTyped, IInv, CurrentIsMade
  <2> QED
    BY <1>1, <2>1, <2>2, <2>4, <2>5, EmptySeq, OpenedStep
<1> QED
  BY <1>3, <1>4 DEF ClientOpens

LEMMA SetupEndsStep ==
  ASSUME IInv, NEW q \in Queue, SetupEnds(q)
  PROVE  IInv'
<1> DEFINE waits == {n \in Socket : sockets[n].to = q /\ sockets[n].far \in {"awaited", "missed"}}
           came  == {n \in waits : sockets[n].by = Browser}
           joined(n) == IF n \in came THEN q ELSE current[Home(q)]
           Found(n) == [sockets[n] EXCEPT !.to = joined(n),
                          !.far = IF @ = "awaited" THEN "attached" ELSE "closed"]
<1>1. /\ object[q] = "setup" /\ Home(q) \in servers
      /\ object' = [object EXCEPT ![q] = "ready"]
      /\ sockets' = [n \in Socket |-> IF n \in waits THEN Forget(Found(n)) ELSE sockets[n]]
      /\ clients' = [clients EXCEPT ![q] = @ \cup came]
      /\ current' = IF came = {} THEN current ELSE [current EXCEPT ![Home(q)] = q]
      /\ UNCHANGED <<world, servers, lists, worker, running, troubles, visits>>
  BY DEF SetupEnds
<1>2. object'[q] = "ready" /\ \A p \in Queue : p # q => object'[p] = object[p]
  BY <1>1, Parts DEF OthersTyped
<1>3. came \in SUBSET Socket
  OBVIOUS
<1>4. \A n \in Socket : n \notin waits /\ Waits(sockets[n]) => current[Home(sockets[n].to)] # None
  BY DEF IInv, Attended
<1>5. ASSUME NEW n \in waits
      PROVE  joined(n) \in Queue /\ Listening(joined(n))
  <2>1. CASE n \in came
    BY <1>1, <2>1 DEF Listening
  <2>2. CASE n \notin came
    <3>1. current[Home(q)] # None
      BY <2>2 DEF IInv, Attended, Waits
    <3>2. current[Home(q)] \in Queue
      BY <3>1, Parts, HomeIsServer DEF OthersTyped
    <3> QED
      BY <1>1, <2>2, <3>1, <3>2 DEF IInv, CurrentIsMade, Listening
  <2> QED
    BY <2>1, <2>2
<1> HIDE DEF joined
<1>6. ASSUME NEW n \in waits
      PROVE  /\ Forget(Found(n)) \in End /\ ~Waits(Forget(Found(n)))
             /\ Forget(Found(n)).far # "closed" => Forget(Found(n)).to = joined(n)
  <2> DEFINE f == Found(n)
  <2>1. f \in End /\ f.to = joined(n) /\ f.far \in {"attached", "closed"}
    BY <1>5, Parts DEF End
  <2> HIDE DEF f
  <2>2. Forget(f) \in End
    BY <2>1, ForgetKeeps
  <2>3. Forget(f) = f \/ Forget(f) = Free
    BY DEF Forget
  <2>4. ~Waits(Forget(f)) /\ (Forget(f).far # "closed" => Forget(f).to = joined(n))
    BY <2>1, <2>3 DEF Free, Waits
  <2> QED
    BY <2>2, <2>4 DEF f
<1> HIDE DEF Found
<1>7. /\ sockets' \in [Socket -> End]
      /\ \A n \in Socket : n \notin waits => sockets'[n] = sockets[n]
      /\ \A n \in waits : sockets'[n] = Forget(Found(n))
  BY <1>1, <1>6, Parts
<1>8. \A n \in Socket : sockets[n].far \in {"attached", "closing"} => sockets'[n] = sockets[n]
  BY <1>7
<1> HIDE DEF came, waits
<1>9. \A p \in Queue : Listening(p) => Listening(p)'
  BY <1>1, <1>2 DEF Listening
<1>10. ListedIsOpen'
  <2> SUFFICES ASSUME NEW p \in Queue, NEW w \in Worker, mine[p][w] # None
               PROVE  LET end == sockets'[mine[p][w]] IN
                      end.by = w /\ end.to = p /\ end.known /\ end.far \in {"attached", "closing"}
    BY <1>1 DEF ListedIsOpen, lists
  <2>1. mine[p][w] \in Socket /\ sockets[mine[p][w]].far \in {"attached", "closing"}
    BY Parts DEF ListsTyped, ListedIsOpen
  <2>2. sockets'[mine[p][w]] = sockets[mine[p][w]]
    BY <1>8, <2>1
  <2> QED
    BY <2>2, Parts DEF ListedIsOpen
<1>11. \A s \in Server : current[s] # None => current'[s] # None
  BY <1>1, Parts, ConnectionsAssumption DEF OthersTyped, ConnectionsAssumption
<1>12. Attended'
  <2> SUFFICES ASSUME NEW n \in Socket, sockets'[n].far # "closed"
               PROVE  /\ sockets'[n].to \in Queue /\ object'[sockets'[n].to] # "none"
                      /\ Home(sockets'[n].to) \in servers'
                      /\ Waits(sockets'[n]) => current'[Home(sockets'[n].to)] # None
    BY DEF Attended, Listening, Waits
  <2>1. CASE n \in waits
    BY <1>5, <1>6, <1>7, <1>9, <2>1 DEF Listening
  <2>2. CASE n \notin waits
    <3>1. sockets'[n] = sockets[n] /\ sockets[n].to \in Queue /\ Listening(sockets[n].to)
      BY <1>7, <2>2 DEF IInv, Attended
    <3>2. Waits(sockets[n]) => current[Home(sockets[n].to)] # None
      BY <1>4, <2>2
    <3> QED
      BY <1>9, <1>11, <3>1, <3>2, HomeIsServer DEF Listening
  <2> QED
    BY <2>1, <2>2
<1>13. Silent' /\ ViewsCatchUp'
  BY <1>1, <1>2, ViewsKept DEF IInv, lists
<1>14. OthersTyped' /\ ListsTyped'
  BY <1>1, <1>3, Parts DEF OthersTyped, ListsTyped, lists
<1>15. CurrentIsMade'
  BY <1>1, <1>2, Parts, HomeIsServer DEF OthersTyped, IInv, CurrentIsMade
<1> QED
  BY <1>7, <1>10, <1>12, <1>13, <1>14, <1>15, TypesNext DEF IInv

LEMMA ServerCrashesStep ==
  ASSUME IInv, NEW s \in Server, ServerCrashes(s)
  PROVE  IInv'
<1> DEFINE gone == {q \in Queue : Home(q) = s}
           Dropped(n) == [sockets[n] EXCEPT !.far = "closed", !.up = <<>>]
<1>1. /\ servers' = servers \ {s}
      /\ mine' = [q \in Queue |-> IF q \in gone THEN [w \in Worker |-> None] ELSE mine[q]]
      /\ clients' = [q \in Queue |-> IF q \in gone THEN {} ELSE clients[q]]
      /\ news' = [p \in Queue |-> [q \in Queue |-> IF q \in gone THEN <<>> ELSE news[p][q]]]
      /\ sockets' = [n \in Socket |-> IF sockets[n].to \in gone
           THEN Forget(Dropped(n)) ELSE sockets[n]]
      /\ object' = [q \in Queue |-> IF q \in gone THEN "none" ELSE object[q]]
      /\ others' = [q \in Queue |-> IF q \in gone THEN [t \in Server |-> Unheard] ELSE others[q]]
      /\ current' = [current EXCEPT ![s] = None]
      /\ UNCHANGED <<world, worker, running, troubles, visits>>
  BY DEF ServerCrashes
<1>2. \A q \in Queue : q \in gone <=> Home(q) \notin servers' /\ Home(q) = s
  BY <1>1
<1> HIDE DEF gone
<1>3. \A q \in Queue : q \notin gone /\ Home(q) \in servers <=> Home(q) \in servers'
  BY <1>1 DEF gone
<1>4. ASSUME NEW n \in Socket
      PROVE  Forget(Dropped(n)) \in End /\ Forget(Dropped(n)).far = "closed"
  <2> DEFINE e == Dropped(n)
  <2>1. e \in End /\ e.far = "closed"
    BY Parts, EmptySeq DEF End
  <2> HIDE DEF e
  <2>2. Forget(e) \in End /\ Forget(e).far = "closed"
    BY <2>1, ForgetKeeps DEF Forget, Free
  <2> QED
    BY <2>2 DEF e
<1> HIDE DEF Dropped
<1>5. /\ sockets' \in [Socket -> End]
      /\ \A n \in Socket : sockets'[n].far # "closed" =>
           sockets[n].to \notin gone /\ sockets'[n] = sockets[n]
      /\ \A n \in Socket : sockets[n].to \notin gone => sockets'[n] = sockets[n]
  BY <1>1, <1>4, Parts
<1>6. \A q \in Queue : Listening(q)' <=> Listening(q) /\ q \notin gone
  BY <1>1, <1>3 DEF Listening
<1>7. OthersTyped'
  <2>1. /\ servers' \subseteq Server
        /\ current' \in [Server -> Queue \cup {None}]
        /\ object' \in [Queue -> {"none", "setup", "ready"}]
        /\ clients' \in [Queue -> SUBSET Socket]
    BY <1>1, Parts DEF OthersTyped
  <2> QED
    BY <1>1, <2>1, Parts DEF OthersTyped
<1>8. ListsTyped'
  <2>1. mine' \in [Queue -> [Worker -> Socket \cup {None}]]
    BY <1>1, Parts DEF ListsTyped
  <2>2. others' \in [Queue -> [Server -> {Unheard} \cup SUBSET Worker]]
    BY <1>1, Parts DEF ListsTyped
  <2>3. news' \in [Queue -> [Queue -> Seq(SUBSET Worker)]]
    BY <1>1, Parts, EmptySeq DEF ListsTyped
  <2> QED
    BY <2>1, <2>2, <2>3 DEF ListsTyped
<1>9. ListedIsOpen'
  <2> SUFFICES ASSUME NEW q \in Queue, NEW w \in Worker, mine'[q][w] # None
               PROVE  LET end == sockets'[mine'[q][w]] IN
                      end.by = w /\ end.to = q /\ end.known /\ end.far \in {"attached", "closing"}
    BY DEF ListedIsOpen
  <2>1. q \notin gone /\ mine'[q][w] = mine[q][w]
    BY <1>1
  <2>2. mine[q][w] \in Socket /\ sockets[mine[q][w]].to = q
    BY <2>1, Parts DEF ListsTyped, ListedIsOpen
  <2>3. sockets'[mine[q][w]] = sockets[mine[q][w]]
    BY <1>5, <2>1, <2>2
  <2> QED
    BY <2>1, <2>3, Parts DEF ListedIsOpen
<1>10. Attended'
  <2> SUFFICES ASSUME NEW n \in Socket, sockets'[n].far # "closed"
               PROVE  /\ sockets'[n].to \in Queue /\ object'[sockets'[n].to] # "none"
                      /\ Home(sockets'[n].to) \in servers'
                      /\ Waits(sockets'[n]) => current'[Home(sockets'[n].to)] # None
    BY DEF Attended, Listening, Waits
  <2>1. sockets'[n] = sockets[n] /\ sockets[n].to \notin gone
    BY <1>5
  <2>2. /\ sockets[n].to \in Queue /\ Listening(sockets[n].to)
        /\ Waits(sockets[n]) => current[Home(sockets[n].to)] # None
    BY <2>1 DEF IInv, Attended
  <2>3. current'[Home(sockets[n].to)] = current[Home(sockets[n].to)]
    BY <1>1, <1>2, <2>1, <2>2, Parts, HomeIsServer DEF gone, OthersTyped
  <2> QED
    BY <1>6, <2>1, <2>2, <2>3 DEF Listening
<1>11. CurrentIsMade'
  <2> SUFFICES ASSUME NEW t \in servers', current'[t] # None
               PROVE  Home(current'[t]) = t /\ object'[current'[t]] # "none"
    BY DEF CurrentIsMade
  <2>1. t \in servers /\ t # s /\ t \in Server /\ current'[t] = current[t] /\ current[t] \in Queue
    BY <1>1, Parts DEF OthersTyped
  <2>2. Home(current[t]) = t /\ object[current[t]] # "none"
    BY <2>1 DEF IInv, CurrentIsMade
  <2> QED
    BY <1>1, <1>2, <2>1, <2>2
<1>12. Silent'
  <2> SUFFICES ASSUME NEW p \in Queue, NEW q \in Queue
               PROVE  /\ object'[q] = "none" => news'[p][q] = <<>> /\ others'[q][Home(p)] = Unheard
                      /\ object'[p] = "none" /\ Home(p) \in servers' => news'[p][q] = <<>>
                      /\ Unmade(Home(p))' /\ Home(p) \in servers' => others'[q][Home(p)] = Unheard
    BY DEF Silent, Unmade
  <2>1. CASE q \in gone
    BY <1>1, <2>1, HomeIsServer
  <2>2. CASE q \notin gone
    <3>1. /\ object'[q] = object[q] /\ news'[p][q] = news[p][q]
          /\ others'[q] = others[q]
      BY <1>1, <2>2
    <3>2. Home(p) \in servers' => Home(p) \in servers /\ object'[p] = object[p]
      BY <1>1, <1>3
    <3>3. Unmade(Home(p))' /\ Home(p) \in servers' => Unmade(Home(p))
      <4> SUFFICES ASSUME Home(p) \in servers', NEW r \in Queue, Home(r) = Home(p), object'[r] = "none"
                   PROVE  object[r] = "none"
        BY DEF Unmade
      <4> QED
        BY <1>1, <1>3
    <3> QED
      BY <3>1, <3>2, <3>3 DEF IInv, Silent
  <2> QED
    BY <2>1, <2>2
<1>13. ViewsCatchUp'
  <2> SUFFICES ASSUME NEW p \in Queue, NEW q \in Queue,
                      Listening(p)', Listening(q)', Home(p) # Home(q), IsAlone(p)'
               PROVE  LastWord(p, q)' \in {Unheard, Entries(mine'[p])}
    BY DEF ViewsCatchUp
  <2>1. Listening(p) /\ p \notin gone /\ Listening(q) /\ q \notin gone
    BY <1>6
  <2>2. IsAlone(p)
    <3> SUFFICES ASSUME NEW r \in Queue, Home(r) = Home(p), object[r] # "none"
                 PROVE  r = p
      BY DEF IsAlone
    <3>1. r \notin gone
      BY <1>2, <2>1
    <3> QED
      BY <1>1, <3>1 DEF IsAlone
  <2>3. LastWord(p, q)' = LastWord(p, q) /\ mine'[p] = mine[p]
    BY <1>1, <2>1 DEF LastWord
  <2> QED
    BY <2>1, <2>2, <2>3 DEF IInv, ViewsCatchUp
<1> QED
  BY <1>5, <1>7, <1>8, <1>9, <1>10, <1>11, <1>12, <1>13, TypesNext DEF IInv

-----------------------------------------------------------------------------
(* The invariant.                                                          *)

LEMMA InitInv == Init => IInv
<1> SUFFICES ASSUME Init PROVE IInv
  OBVIOUS
<1>1. OthersTyped
  <2>1. world.servers \subseteq Server /\ world.visits \in Nat
    BY ConnectionsAssumption DEF Init, ConnectionsAssumption
  <2> QED
    BY <2>1, ConnectionsAssumption DEF Init, OthersTyped, ConnectionsAssumption
<1>2. ListsTyped
  BY EmptySeq DEF Init, ListsTyped
<1>3. sockets \in [Socket -> End] /\ \A n \in Socket : sockets[n].far = "closed"
  BY FreeIsEnd DEF Init, Free
<1>4. ListedIsOpen
  BY DEF Init, ListedIsOpen
<1>5. Attended
  BY <1>3 DEF Attended, Waits
<1>6. CurrentIsMade
  BY <1>1 DEF Init, CurrentIsMade, OthersTyped
<1>7. Silent
  BY HomeIsServer DEF Init, Silent
<1>8. ViewsCatchUp
  BY DEF Init, ViewsCatchUp, Listening
<1> QED
  BY <1>1, <1>2, <1>3, <1>4, <1>5, <1>6, <1>7, <1>8, Types DEF IInv

LEMMA StepInv == IInv /\ [Next]_vars => IInv'
<1> SUFFICES ASSUME IInv, [Next]_vars PROVE IInv'
  OBVIOUS
<1>1. ASSUME NEW w \in Worker, OfWorker(w) \/ RegistrationInterval(w)
      PROVE  IInv'
  BY <1>1, WorkerOpensStep, WorkerSendsStep, ClosesStep DEF OfWorker
<1>2. ASSUME NEW n \in Socket, OfSocket(n)
      PROVE  IInv'
  BY <1>2, MessagesStep, OnRegisterStep, FarClosesStep, OnCloseStep DEF OfSocket
<1>3. ASSUME NEW q \in Queue, OfQueue(q) \/ JobsInterval(q)
      PROVE  IInv'
  BY <1>3, SetupEndsStep, WorkersIntervalStep, HearWorkersStep, JobsIntervalStep DEF OfQueue
<1>4. CASE BrowserSteps
  BY <1>4, ClientOpensStep, ClientLeavesStep DEF BrowserSteps
<1>5. CASE Troubles
  BY <1>5, ClosesStep, WorkerGoesStep, CutStep, ServerCrashesStep DEF Troubles
<1>6. CASE UNCHANGED vars
  <2>1. EndsKept
    BY <1>6, Parts, EndIsKept DEF vars, EndsKept
  <2>2. UNCHANGED <<world, made, lists>> /\ OthersTyped'
    BY <1>6, Parts DEF vars, made, lists, OthersTyped
  <2> QED
    BY <2>1, <2>2, SoftStep
<1> QED
  BY <1>1, <1>2, <1>3, <1>4, <1>5, <1>6 DEF Next

LEMMA Invariance == Spec => []IInv
<1>1. Init => IInv
  BY InitInv
<1>2. IInv /\ [Next]_vars => IInv'
  BY StepInv
<1> QED
  BY <1>1, <1>2, PTL DEF Spec

\* Every variable keeps to its type, and no entry of a list of workers outlives
\* its socket: an entry is a socket of that worker, on which it registered, and
\* of which the object has not seen the end (jobqueue.ts connectWorker).
THEOREM TypeCorrect == Spec => []TypeOK
<1>1. IInv => TypeOK
  BY DEF IInv
<1> QED
  BY <1>1, Invariance, PTL

\* However sockets, objects and servers come and go, what a server has heard of
\* another, or will when all that is under way has come, is what that one lists
\* now (jobqueue.ts myWorkersHaveChanged, broadcastWorkersToChannel).
THEOREM ViewsAlwaysCatchUp == Spec => []ViewsCatchUp
<1>1. IInv => ViewsCatchUp
  BY DEF IInv
<1> QED
  BY <1>1, Invariance, PTL

-----------------------------------------------------------------------------
(* Jobs declared lost.                                                     *)

\* Only the interval of an object declares jobs lost.
LEMMA OnlyTheInterval ==
  ASSUME [Next]_vars, NEW w \in running, w \notin running'
  PROVE  \E q \in Queue : WorkersInterval(q)
<1>1. ASSUME NEW v \in Worker, OfWorker(v) \/ RegistrationInterval(v)
      PROVE  running' = running
  BY <1>1 DEF OfWorker, RegistrationInterval, WorkerOpens, OnPong, Ping, NoJobStates, NoPong,
              HearClose, Reconnect
<1>2. ASSUME NEW n \in Socket, OfSocket(n)
      PROVE  running \subseteq running'
  BY <1>2 DEF OfSocket, Unlistened, OnPing, OnRegister, FarCloses, OnClose
<1>3. ASSUME NEW q \in Queue, OfQueue(q) \/ JobsInterval(q)
      PROVE  running' = running \/ WorkersInterval(q)
  BY <1>3 DEF OfQueue, SetupEnds, HearWorkers, JobsInterval
<1>4. CASE BrowserSteps
  BY <1>4 DEF BrowserSteps, ClientOpens, ClientLeaves
<1>5. CASE Troubles
  BY <1>5 DEF Troubles, ReconnectInHaste, Reconnect, WorkerGoes, Cut, ServerCrashes
<1>6. CASE UNCHANGED vars
  BY <1>6 DEF vars
<1> QED
  BY <1>1, <1>2, <1>3, <1>4, <1>5, <1>6 DEF Next

\* A server that declares the job of a worker lost has not got the last word of
\* any server that lists the worker (jobqueue.ts requeueJobsFromMissingWorkers).
THEOREM LostOnlyByTheUntold == Spec => LostOnlyIfUnlisted
<1> DEFINE Told ==
      \A w \in running \ running' : \E q \in Queue : Listening(q) /\ \A p \in Queue :
         Listening(p) /\ IsAlone(p) /\ mine[p][w] # None
           => p # q /\ (news[p][q] # <<>> \/ others[q][Home(p)] = Unheard)
<1>1. IInv /\ [Next]_vars => Told
  <2> SUFFICES ASSUME IInv, [Next]_vars, NEW w \in running, w \notin running'
               PROVE  \E q \in Queue : Listening(q) /\ \A p \in Queue :
                        Listening(p) /\ IsAlone(p) /\ mine[p][w] # None
                          => p # q /\ (news[p][q] # <<>> \/ others[q][Home(p)] = Unheard)
    OBVIOUS
  <2>1. PICK q \in Queue : WorkersInterval(q)
    BY OnlyTheInterval
  <2>2. Listening(q) /\ w \in MissingWorkers(q)
    BY <2>1 DEF WorkersInterval
  <2>3. w \notin Heard(q) /\ mine[q][w] = None /\ w \in Worker
    BY <2>2, Parts DEF MissingWorkers, OthersTyped
  <2>4. ASSUME NEW p \in Queue, Listening(p), IsAlone(p), mine[p][w] # None
        PROVE  p # q /\ (news[p][q] # <<>> \/ others[q][Home(p)] = Unheard)
    <3>1. p # q /\ Home(p) # Home(q)
      BY <2>2, <2>3, <2>4 DEF IsAlone, Listening
    <3>2. LastWord(p, q) \in {Unheard, Entries(mine[p])}
      BY <2>2, <2>4, <3>1 DEF IInv, ViewsCatchUp
    <3>3. others[q][Home(p)] # Entries(mine[p])
      <4> SUFFICES ASSUME others[q][Home(p)] = Entries(mine[p])
                   PROVE  FALSE
        OBVIOUS
      <4>1. w \in Entries(mine[p])
        BY <2>3, <2>4 DEF Entries
      <4>2. Entries(mine[p]) # Unheard
        BY EntriesType, ConnectionsAssumption DEF ConnectionsAssumption
      <4>3. w \in Heard(q)
        BY <4>1, <4>2, HomeIsServer DEF Heard
      <4> QED
        BY <2>3, <4>3
    <3> QED
      BY <3>1, <3>2, <3>3 DEF LastWord
  <2> QED
    BY <2>2, <2>4
<1> QED
  BY <1>1, Invariance, PTL DEF Spec, LostOnlyIfUnlisted

=============================================================================
