----------------------------- MODULE Connections -----------------------------
(***************************************************************************)
(* Who is connected to a queue, and who the servers believe is: the        *)
(* sockets of workers and browsers, the lists of workers that servers keep *)
(* and tell each other, and the jobs declared lost on the strength of them *)
(* (jobqueue.ts connectWorker to otherWorkersHaveChanged, websocket.ts;    *)
(* run.ts connectToServer and DockerJobQueue.ts register on the worker).   *)
(*                                                                         *)
(* A socket has two ends that learn of its end at different times.  Both   *)
(* are kept in one record, with the messages under way.  A server is one   *)
(* process: started again it is another server, and one that is not yet    *)
(* started is one nobody has connected to.  It makes the object of the     *)
(* queue when somebody connects, and it may come to make two.  Every       *)
(* worker has one job, or, when world.jobs is FALSE, nobody has any.       *)
(*                                                                         *)
(* Time is left out: a timer of some seconds may fire whenever what it     *)
(* waits for is not under way, and, as one of the troubles, at any moment. *)
(***************************************************************************)
EXTENDS Naturals, Sequences, FiniteSets, SequencesExt

CONSTANTS Server, Worker,
          Browser,     \* who a socket that is no worker's belongs to
          Queue,       \* the objects of the queue, by the server that may make them
          Socket,      \* bound: sockets not yet forgotten by both ends
          World,       \* who there is, and what may happen
          MaxTrouble,  \* bound: how often something goes wrong
          MaxNews,     \* bound: lists under way from one object to another
          None, Unheard

Home(q) == q[1]

ASSUME ConnectionsAssumption ==
  /\ None \notin Worker \cup {Browser} /\ Browser \notin Worker /\ None \notin Socket /\ None \notin Queue
  /\ Queue \subseteq Server \X Nat
  /\ \A list \in SUBSET Worker : list # Unheard
  /\ MaxTrouble \in Nat /\ MaxNews \in Nat \ {0}
  /\ Socket \subseteq Nat
  /\ World \subseteq [servers : SUBSET Server, sockets : SUBSET Socket,
                      visits : Nat, jobs : BOOLEAN, twins : BOOLEAN]

VARIABLES
  world,     \* who there is in this behaviour
  servers,   \* the servers that run
  current,   \* current[s]: userJobQueues[address]
  object,    \* object[q]: "none", "setup" (its jobs are being loaded) or "ready"
  mine,      \* mine[q][w]: the socket of w's entry in workers.myWorkers
  others,    \* others[q][s]: workers.otherWorkers[s], or Unheard
  clients,   \* clients[q]: the sockets of browsers
  news,      \* news[p][q]: lists of workers that p has sent and q not yet heard
  sockets,   \* the sockets, both ends
  worker,    \* the workers
  running,   \* the workers whose job the servers say is running
  troubles,
  visits     \* how many browsers have connected, world.visits at most

lists == <<mine, others, news>>
made  == <<servers, current, object>>
vars  == <<world, servers, current, object, mine, others, clients, news, sockets, worker,
           running, troubles, visits>>

\* near: the end of the worker or browser.  far: the server's, "awaited" while
\* the handler has not yet set its listeners and "missed" when the socket was
\* closed by then; "closing" is a readyState, "closed" the event.
\* known: workerRegistration is set.  up, down: messages under way.
End == [by : Worker \cup {Browser, None}, to : Queue \cup {None},
        near : {"open", "closed"}, far : {"awaited", "missed", "attached", "closing", "closed"},
        known : BOOLEAN, cut : BOOLEAN,
        up : Seq({"PING", "REGISTER"}), down : {None, "PONG unknown"}]

Free == [by |-> None, to |-> None, near |-> "closed", far |-> "closed",
         known |-> FALSE, cut |-> FALSE, up |-> <<>>, down |-> None]

\* A listed worker has a socket of its own, on which it registered, and which the
\* server has not seen closed: no entry outlives its socket, although an entry
\* keeps the socket of an earlier connection.
ListedIsOpen ==
  \A q \in Queue, w \in Worker : mine[q][w] # None =>
    LET end == sockets[mine[q][w]] IN
    end.by = w /\ end.to = q /\ end.known /\ end.far \in {"attached", "closing"}

\* A socket that both ends have closed is forgotten, and its number is free.
Forget(end) == IF end.near = "closed" /\ end.far = "closed" THEN Free ELSE end

TypeOK ==
  /\ world \in World
  /\ servers \subseteq Server
  /\ current \in [Server -> Queue \cup {None}]
  /\ object \in [Queue -> {"none", "setup", "ready"}]
  /\ mine \in [Queue -> [Worker -> Socket \cup {None}]]
  /\ others \in [Queue -> [Server -> {Unheard} \cup SUBSET Worker]]
  /\ clients \in [Queue -> SUBSET Socket]
  /\ news \in [Queue -> [Queue -> Seq(SUBSET Worker)]]
  /\ sockets \in [Socket -> End]
  /\ worker \in [Worker -> [alive : BOOLEAN, socket : Socket \cup {None}, periodic : BOOLEAN]]
  /\ running \subseteq Worker
  /\ troubles \in 0 .. MaxTrouble
  /\ visits \in 0 .. world.visits
  /\ ListedIsOpen

Init ==
  /\ world \in World
  /\ servers = world.servers
  /\ current = [s \in Server |-> None]
  /\ object = [q \in Queue |-> "none"]
  /\ mine = [q \in Queue |-> [w \in Worker |-> None]]
  /\ others = [q \in Queue |-> [s \in Server |-> Unheard]]
  /\ clients = [q \in Queue |-> {}]
  /\ news = [p \in Queue |-> [q \in Queue |-> <<>>]]
  /\ sockets = [n \in Socket |-> Free]
  /\ worker = [w \in Worker |-> [alive |-> TRUE, socket |-> None, periodic |-> TRUE]]
  /\ running = {} /\ troubles = 0 /\ visits = 0

-----------------------------------------------------------------------------
(* What an object tells the others.                                        *)

\* The workers in a list of entries.
Entries(entry) == {w \in Worker : entry[w] # None}

Listening(q) == object[q] # "none" /\ Home(q) \in servers

\* The last list that q has heard from p, or that is on its way.
LastWord(p, q) == IF news[p][q] # <<>> THEN Last(news[p][q]) ELSE others[q][Home(p)]

\* The same list twice in a row changes nothing, and is sent once here.
Tell(p, q, list) ==
  IF Listening(q) /\ Home(q) # Home(p) /\ LastWord(p, q) # list
  THEN Append(news[p][q], list) ELSE news[p][q]

\* broadcastWorkersToChannel, with entry as the new myWorkers of p.  An object
\* ignores what comes from its own server.
BroadcastWorkersToChannel(p, entry) ==
  /\ \A q \in Queue : Len(news[p][q]) < MaxNews
  /\ news' = [news EXCEPT ![p] = [q \in Queue |-> Tell(p, q, Entries(entry))]]

\* Mutant: the others are not told.
HaveChangedQuietly(p, entry) ==
  /\ mine' = [mine EXCEPT ![p] = entry]
  /\ UNCHANGED news

\* myWorkers of p becomes entry: myWorkersHaveChanged.  What it tells workers
\* and browsers is shown to the user and changes nothing here.
MyWorkersHaveChanged(p, entry) ==
  /\ mine' = [mine EXCEPT ![p] = entry]
  /\ BroadcastWorkersToChannel(p, entry)

\* otherWorkersHaveChanged
OtherWorkersHaveChanged(q, s, list) == others' = [others EXCEPT ![q][s] = list]

HearWorkers(q, p) ==
  /\ Listening(q) /\ news[p][q] # <<>>
  /\ OtherWorkersHaveChanged(q, Home(p), Head(news[p][q]))
  /\ news' = [news EXCEPT ![p][q] = Tail(@)]
  /\ UNCHANGED <<world, made, mine, clients, sockets, worker, running, troubles, visits>>

\* The workers q has heard of.  A server that is gone stays in the list.
Heard(q) == UNION {others[q][s] : s \in {t \in Server : others[q][t] # Unheard}}

\* Mutant: a server knows only its own workers.
MissingOwnWorkers(q) == {w \in running : mine[q][w] = None}

\* Mutant: a server with no workers of its own does not look.
MissingIfInUse(q) ==
  {w \in running : w \notin Heard(q) /\ mine[q][w] = None /\ Entries(mine[q]) # {}}

\* requeueJobsFromMissingWorkers: their jobs are declared lost.
MissingWorkers(q) == {w \in running : w \notin Heard(q) /\ mine[q][w] = None}

\* _intervalWorkerBroadcast.  The object has the jobs once they are loaded.
WorkersInterval(q) ==
  /\ Listening(q) /\ object[q] = "ready"
  /\ BroadcastWorkersToChannel(q, mine[q])
  /\ running' = running \ MissingWorkers(q)
  /\ <<news', running'>> # <<news, running>>
  /\ UNCHANGED <<world, made, mine, others, clients, sockets, worker, troubles, visits>>

-----------------------------------------------------------------------------
(* Messages.                                                               *)

InFlight(n, message) == message \in Range(sockets[n].up)
Send(queued, message) == IF message \in Range(queued) THEN queued ELSE Append(queued, message)

Delivers(n) == ~sockets[n].cut /\ sockets[n].up # <<>>

\* A socket without listeners: the message is lost.
Unlistened(n) ==
  /\ Delivers(n) /\ sockets[n].far \in {"awaited", "missed"}
  /\ sockets' = [sockets EXCEPT ![n].up = Tail(@)]
  /\ UNCHANGED <<world, made, lists, clients, worker, running, troubles, visits>>

OnMessage(n, message) ==
  /\ Delivers(n) /\ sockets[n].far = "attached" /\ Head(sockets[n].up) = message

OnPing(n) ==
  /\ OnMessage(n, "PING")
  /\ sockets' = [sockets EXCEPT ![n].up = Tail(@),
       ![n].down = IF sockets[n].known THEN None ELSE "PONG unknown"]
  /\ UNCHANGED <<world, made, lists, clients, worker, running, troubles, visits>>

\* The entries left after a message was tried on each: broadcastToLocalWorkers.
StillOpen(entry) ==
  [w \in Worker |-> IF entry[w] # None /\ sockets[entry[w]].far # "attached" THEN None ELSE entry[w]]

\* Mutant: a browser whose socket is not open stays in the list.
KeepClients(socks) == socks

\* broadcastToLocalClients
StillOpenClients(socks) == {n \in socks : sockets[n].far = "attached"}

\* broadcastJobStatesToWebsockets, to entry as the new myWorkers of q.
BroadcastJobStates(q, entry) ==
  /\ MyWorkersHaveChanged(q, StillOpen(entry))
  /\ clients' = [clients EXCEPT ![q] = StillOpenClients(@)]

\* An entry that is there keeps its socket, whichever socket this came from.
Registered(entry, w, n) == [entry EXCEPT ![w] = IF @ = None THEN n ELSE @]

\* WorkerRegistration, and the runningMessageToServer that follows it.
OnRegister(n) ==
  /\ OnMessage(n, "REGISTER") /\ sockets[n].by \in Worker
  /\ LET q == sockets[n].to
         w == sockets[n].by
     IN /\ BroadcastJobStates(q, Registered(mine[q], w, n))
        /\ running' = IF world.jobs THEN running \cup {w} ELSE running
  /\ sockets' = [sockets EXCEPT ![n].up = Tail(@), ![n].known = TRUE]
  /\ UNCHANGED <<world, made, others, worker, troubles, visits>>

\* _intervalJobsBroadcast, when it finds somebody gone.
JobsInterval(q) ==
  /\ Listening(q)
  /\ BroadcastJobStates(q, mine[q])
  /\ <<mine', clients'>> # <<mine, clients>>
  /\ UNCHANGED <<world, made, others, sockets, worker, running, troubles, visits>>

\* The answer to a PING names somebody else: register.
OnPong(w) ==
  LET n == worker[w].socket IN
  /\ n # None /\ sockets[n].down = "PONG unknown"
  /\ sockets' = [sockets EXCEPT ![n].down = None, ![n].up = Send(@, "REGISTER")]
  /\ UNCHANGED <<world, made, lists, clients, worker, running, troubles, visits>>

\* A PING that finds the worker's id gets it for an answer, and nobody does
\* anything: those are left out, and so is such an answer.
Ping(w) ==
  LET n == worker[w].socket IN
  /\ n # None /\ ~sockets[n].cut /\ sockets[n].far # "closed" /\ ~sockets[n].known
  /\ ~InFlight(n, "PING") /\ sockets[n].down = None
  /\ sockets' = [sockets EXCEPT ![n].up = Append(@, "PING")]
  /\ UNCHANGED <<world, made, lists, clients, worker, running, troubles, visits>>

\* startPeriodicRegistration.  What is sent before the socket is open waits, and
\* then goes with the registration of the open listener.
RegistrationInterval(w) ==
  LET n == worker[w].socket IN
  /\ worker[w].periodic
  /\ n # None /\ ~sockets[n].cut /\ sockets[n].far # "closed"
  /\ ~InFlight(n, "REGISTER")
  /\ sockets' = [sockets EXCEPT ![n].up = Append(@, "REGISTER")]
  /\ UNCHANGED <<world, made, lists, clients, worker, running, troubles, visits>>

-----------------------------------------------------------------------------
(* A socket opens.                                                         *)

Forgotten(n) ==
  /\ sockets[n] = Free
  /\ \A q \in Queue : n \notin clients[q] /\ \A w \in Worker : mine[q][w] # n

\* A new socket takes the first number that is free.
Unused(n) == n \in world.sockets /\ Forgotten(n) /\ \A m \in world.sockets : m < n => ~Forgotten(m)

Fresh(s) == {q \in Queue : Home(q) = s /\ object[q] = "none"}

\* Somebody awaits the setup of an object of s.
Loading(s) == \E q \in Queue : Home(q) = s /\ object[q] = "setup"

Opened(by, q, far, sent) ==
  [Free EXCEPT !.by = by, !.to = q, !.near = "open", !.far = far, !.up = sent]

\* wsHandlerWorker: the object is there, or is made, put in userJobQueues, and
\* then awaited.  The worker registers when its end is open.
WorkerOpens(w, s, n) ==
  /\ worker[w].alive /\ worker[w].socket = None
  /\ s \in servers /\ Unused(n)
  /\ \/ /\ current[s] # None
        /\ sockets' = [sockets EXCEPT ![n] = Opened(w, current[s], "attached", <<"REGISTER">>)]
        /\ UNCHANGED <<current, object>>
     \/ /\ current[s] = None /\ (Loading(s) => world.twins)
        /\ \E q \in Fresh(s) :
             /\ object' = [object EXCEPT ![q] = "setup"]
             /\ current' = [current EXCEPT ![s] = q]
             /\ sockets' = [sockets EXCEPT ![n] = Opened(w, q, "awaited", <<"REGISTER">>)]
  /\ worker' = [worker EXCEPT ![w].socket = n]
  /\ UNCHANGED <<world, servers, lists, clients, running, troubles, visits>>

\* wsHandlerClient: the same, but userJobQueues is set after the await.
ClientOpens(s, n) ==
  /\ visits < world.visits /\ visits' = visits + 1
  /\ s \in servers /\ Unused(n)
  /\ \/ /\ current[s] # None
        /\ sockets' = [sockets EXCEPT ![n] = Opened(Browser, current[s], "attached", <<>>)]
        /\ clients' = [clients EXCEPT ![current[s]] = @ \cup {n}]
        /\ UNCHANGED object
     \/ /\ current[s] = None /\ (Loading(s) => world.twins)
        /\ \E q \in Fresh(s) :
             /\ object' = [object EXCEPT ![q] = "setup"]
             /\ sockets' = [sockets EXCEPT ![n] = Opened(Browser, q, "awaited", <<>>)]
        /\ UNCHANGED clients
  /\ UNCHANGED <<world, servers, current, lists, worker, running, troubles>>

\* setup() has ended: connectWorker or connectClient for the socket that made the
\* object.  A browser joins the object it awaited, and its socket goes into the
\* list even if it was closed by then; a worker joins the one that is in
\* userJobQueues by now, and that may be a twin that a browser put there.
SetupEnds(q) ==
  /\ object[q] = "setup" /\ Home(q) \in servers
  /\ object' = [object EXCEPT ![q] = "ready"]
  /\ LET waits == {n \in Socket : sockets[n].to = q /\ sockets[n].far \in {"awaited", "missed"}}
         came  == {n \in waits : sockets[n].by = Browser}
         joined(n) == IF n \in came THEN q ELSE current[Home(q)]
     IN /\ sockets' = [n \in Socket |-> IF n \in waits
             THEN Forget([sockets[n] EXCEPT !.to = joined(n),
                            !.far = IF @ = "awaited" THEN "attached" ELSE "closed"])
             ELSE sockets[n]]
        /\ clients' = [clients EXCEPT ![q] = @ \cup came]
        /\ current' = IF came = {} THEN current ELSE [current EXCEPT ![Home(q)] = q]
  /\ UNCHANGED <<world, servers, lists, worker, running, troubles, visits>>

-----------------------------------------------------------------------------
(* A socket closes.                                                        *)

\* The worker's end closes, and its close listener stops the periodic
\* registration.  The next connection does not start it again.
Hangs(w) == worker' = [worker EXCEPT ![w].socket = None, ![w].periodic = FALSE]

\* What was under way to this end is lost.
CloseNear(n) == sockets' = [sockets EXCEPT ![n] = Forget([@ EXCEPT !.near = "closed", !.down = None])]

Reconnect(w) ==
  /\ worker[w].socket # None
  /\ CloseNear(worker[w].socket) /\ Hangs(w)
  /\ UNCHANGED <<world, made, lists, clients, running, visits>>

\* The broadcasts of job states reach w.
IsServed(w) ==
  LET n == worker[w].socket IN
  n # None /\ sockets[n].far = "attached" /\ ~sockets[n].cut /\ mine[sockets[n].to][w] = n

\* Something under way that may still get w into the list.
IsRegistering(n) ==
  /\ ~sockets[n].cut
  /\ \/ InFlight(n, "REGISTER") \/ sockets[n].down = "PONG unknown"
     \/ InFlight(n, "PING") /\ ~sockets[n].known

\* Mutant: any message counts, a PONG too.
NoMessages(w) ==
  /\ worker[w].socket # None
  /\ ~sockets[worker[w].socket].known /\ ~IsRegistering(worker[w].socket)
  /\ Reconnect(w)
  /\ UNCHANGED troubles

\* No job states for 20 seconds.  A message without jobs does not count.
NoJobStates(w) ==
  /\ worker[w].socket # None
  /\ ~(IsServed(w) /\ world.jobs) /\ ~IsRegistering(worker[w].socket)
  /\ Reconnect(w)
  /\ UNCHANGED troubles

\* reconnectCheck: no PONG for 10 seconds.
NoPong(w) ==
  /\ worker[w].socket # None /\ sockets[worker[w].socket].cut
  /\ Reconnect(w)
  /\ UNCHANGED troubles

\* The server's end was closed, or never had its listeners set.
HearClose(w) ==
  LET n == worker[w].socket IN
  /\ n # None /\ ~sockets[n].cut /\ sockets[n].far = "closed"
  /\ Reconnect(w)
  /\ UNCHANGED troubles

ClientLeaves(n) ==
  /\ sockets[n].by = Browser /\ sockets[n].near = "open"
  /\ CloseNear(n)
  /\ UNCHANGED <<world, made, lists, clients, worker, running, troubles, visits>>

\* The server's end gets to know, after all that was sent, or by a timeout.
FarCloses(n) ==
  /\ \/ sockets[n].near = "closed" /\ (sockets[n].up = <<>> \/ sockets[n].far = "awaited")
     \/ sockets[n].cut
  /\ sockets[n].far \in {"awaited", "attached"}
  /\ sockets' = [sockets EXCEPT ![n].up = <<>>,
       ![n].far = IF @ = "awaited" THEN "missed" ELSE "closing"]
  /\ UNCHANGED <<world, made, lists, clients, worker, running, troubles, visits>>

\* Mutant: the close listener leaves the list alone.
Untouched(entry, n) == entry

\* The entry whose socket this is, if there is one.
WithoutSocket(entry, n) == [w \in Worker |-> IF entry[w] = n THEN None ELSE entry[w]]

\* The close listeners of connectWorker and connectClient.
OnClose(n) ==
  /\ sockets[n].far = "closing"
  /\ sockets' = [sockets EXCEPT ![n] = Forget([@ EXCEPT !.far = "closed"])]
  /\ LET q     == sockets[n].to
         entry == WithoutSocket(mine[q], n)
     IN \/ /\ sockets[n].by \in Worker
           /\ IF entry = mine[q] THEN UNCHANGED <<mine, news>> ELSE MyWorkersHaveChanged(q, entry)
           /\ UNCHANGED clients
        \/ /\ sockets[n].by = Browser
           /\ clients' = [clients EXCEPT ![q] = @ \ {n}]
           /\ UNCHANGED <<mine, news>>
  /\ UNCHANGED <<world, made, others, worker, running, troubles, visits>>

-----------------------------------------------------------------------------
(* Troubles.                                                               *)

Trouble == troubles < MaxTrouble /\ troubles' = troubles + 1

\* A timer fires early, an answer is late, three errors in a row.
ReconnectInHaste(w) == Trouble /\ Reconnect(w)

\* The end of a worker that is gone; when it is dead nothing more comes from it.
Abandoned(end, dead) ==
  Forget([end EXCEPT !.near = "closed", !.down = None, !.cut = dead,
                     !.up = IF dead THEN <<>> ELSE @])

\* The machine of a worker, or its process, is gone for good.
WorkerGoes(w) ==
  /\ Trouble
  /\ worker[w].alive
  /\ worker' = [worker EXCEPT ![w].alive = FALSE, ![w].socket = None]
  /\ IF worker[w].socket = None THEN UNCHANGED sockets
     ELSE \E dead \in {TRUE, sockets[worker[w].socket].cut} :
            sockets' = [sockets EXCEPT ![worker[w].socket] = Abandoned(@, dead)]
  /\ UNCHANGED <<world, made, lists, clients, running, visits>>

\* The network between the two ends is gone, and no end knows.
Cut(n) ==
  /\ Trouble
  /\ sockets[n].near = "open" /\ ~sockets[n].cut
  /\ sockets' = [sockets EXCEPT ![n].cut = TRUE, ![n].up = <<>>, ![n].down = None]
  /\ UNCHANGED <<world, made, lists, clients, worker, running, visits>>

\* A server process ends; another is there, or takes over.
ServerCrashes(s) ==
  /\ s \in servers /\ servers # {s}
  /\ servers' = servers \ {s}
  /\ LET gone == {q \in Queue : Home(q) = s} IN
     /\ mine' = [q \in Queue |-> IF q \in gone THEN [w \in Worker |-> None] ELSE mine[q]]
     /\ clients' = [q \in Queue |-> IF q \in gone THEN {} ELSE clients[q]]
     /\ news' = [p \in Queue |-> [q \in Queue |-> IF q \in gone THEN <<>> ELSE news[p][q]]]
     /\ sockets' = [n \in Socket |-> IF sockets[n].to \in gone
          THEN Forget([sockets[n] EXCEPT !.far = "closed", !.up = <<>>]) ELSE sockets[n]]
     /\ object' = [q \in Queue |-> IF q \in gone THEN "none" ELSE object[q]]
     /\ others' = [q \in Queue |-> IF q \in gone THEN [t \in Server |-> Unheard] ELSE others[q]]
  /\ current' = [current EXCEPT ![s] = None]
  /\ UNCHANGED <<world, worker, running, troubles, visits>>

-----------------------------------------------------------------------------
OfWorker(w) ==
  \/ \E s \in Server, n \in Socket : WorkerOpens(w, s, n)
  \/ OnPong(w) \/ Ping(w)
  \/ NoJobStates(w) \/ NoPong(w) \/ HearClose(w)

OfSocket(n) == Unlistened(n) \/ OnPing(n) \/ OnRegister(n) \/ FarCloses(n) \/ OnClose(n)

OfQueue(q) == SetupEnds(q) \/ WorkersInterval(q) \/ \E p \in Queue : HearWorkers(q, p)

BrowserSteps ==
  \/ \E s \in Server, n \in Socket : ClientOpens(s, n)
  \/ \E n \in Socket : ClientLeaves(n)

Troubles ==
  \/ \E w \in Worker : ReconnectInHaste(w) \/ WorkerGoes(w)
  \/ \E n \in Socket : Cut(n)
  \/ \E s \in Server : ServerCrashes(s)

Next ==
  \/ \E w \in Worker : OfWorker(w) \/ RegistrationInterval(w)
  \/ \E n \in Socket : OfSocket(n)
  \/ \E q \in Queue : OfQueue(q) \/ JobsInterval(q)
  \/ BrowserSteps \/ Troubles

\* Messages arrive, awaits end, timers fire, a closed socket is noticed, and a
\* worker that has no connection makes one: some server is always up.
Fairness ==
  /\ \A w \in Worker : WF_vars(OfWorker(w))
  /\ \A n \in Socket : WF_vars(OfSocket(n))
  /\ \A q \in Queue : WF_vars(OfQueue(q)) /\ WF_vars(JobsInterval(q))

Spec == Init /\ [][Next]_vars /\ Fairness

-----------------------------------------------------------------------------
\* p is the only object its server has made: nobody else speaks in its name.
IsAlone(p) == \A q \in Queue : Home(q) = Home(p) /\ object[q] # "none" => q = p

\* When all that is under way has arrived, every server that has heard of another
\* one lists exactly the workers that one lists now: no change of a list goes
\* untold, so a job is declared lost by mistake only while news is late.
ViewsCatchUp ==
  \A p, q \in Queue :
    Listening(p) /\ Listening(q) /\ Home(p) # Home(q) /\ IsAlone(p)
      => LastWord(p, q) \in {Unheard, Entries(mine[p])}

\* A job is declared lost only by a server that has not got the word of a server
\* that lists the worker: never while all servers have heard of each other.
LostOnlyIfUnlisted ==
  [][\A w \in running \ running' : \E q \in Queue : Listening(q) /\ \A p \in Queue :
       Listening(p) /\ IsAlone(p) /\ mine[p][w] # None
         => p # q /\ (news[p][q] # <<>> \/ others[q][Home(p)] = Unheard)]_vars

\* A worker that stays is listed again and again with the socket it uses, and for
\* good once there are jobs, whatever became of its sockets and of the servers.
KnownAgain == \A w \in Worker : []<>(IsServed(w) \/ ~worker[w].alive)

\* The job of a worker that is gone for good is declared lost, if no server
\* crashes: the others keep the list of a server that is gone.
LostIsNoticed ==
  \A w \in Worker :
    [](~worker[w].alive => <>[](w \notin running)) \/ <>(servers # world.servers)

\* A browser's closed socket leaves the list, even if it was closed before the
\* list had it.
ClientsAreSwept == <>[](\A q \in Queue : \A n \in clients[q] : sockets[n].near = "open")
==============================================================================
