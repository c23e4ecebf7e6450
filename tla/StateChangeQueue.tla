--------------------------- MODULE StateChangeQueue ---------------------------
(***************************************************************************)
(* How a server makes the changes of one job wait for each other           *)
(* (jobsStateChangesInternalQueue, stateChange and                         *)
(* processJobStateChangeQueue of jobqueue.ts).                             *)
(*                                                                         *)
(* The waiting changes are in an array that a map has under the job's id.  *)
(* A processor keeps the array it found there while it awaits the change,  *)
(* then shifts it, and either sets a timer for the next one or deletes the *)
(* key of the map, whatever array is there by then: arrays have an         *)
(* identity here, and nothing says there is only one processor.            *)
(*                                                                         *)
(* Changes are numbered in the order they are asked for.  A change may ask *)
(* for another one (the subsequentStateChange of a finished job), as       *)
(* anybody may at any time.                                                *)
(***************************************************************************)
EXTENDS Naturals, Sequences, FiniteSets

CONSTANT MaxAsked   \* bound: the changes asked for

ASSUME StateChangeQueueAssumption == MaxAsked \in Nat

VARIABLES
  arrays,   \* every array made, by its number; the ones thrown away stay
  current,  \* the number of the array the map has, or 0
  running,  \* the processors: the array each one found, its change and its own number
  timers,   \* timers set for processJobStateChangeQueue
  asked,    \* how many changes were asked for
  done      \* how many changes were made, well or with an error

vars == <<arrays, current, running, timers, asked, done>>

Processor == [array : Nat \ {0}, change : Nat \ {0}, nr : Nat]

TypeOK ==
  /\ arrays \in Seq(Seq(Nat \ {0}))
  /\ current \in 0..Len(arrays)
  /\ running \in SUBSET Processor
  /\ \A p \in running : p.array \in 1..Len(arrays)
  /\ timers \in Nat
  /\ asked \in 0..MaxAsked
  /\ done \in Nat

Init ==
  /\ arrays = <<>> /\ current = 0
  /\ running = {} /\ timers = 0
  /\ asked = 0 /\ done = 0

\* processJobStateChangeQueue up to its await, for the first change of array a.
\* Its number, how many there were before, tells two of one change apart.
Process(a, change) ==
  running \cup {[array |-> a, change |-> change, nr |-> done + Cardinality(running)]}

\* Mutant: a change is processed at once, whatever waits.
StateChangeEager ==
  /\ asked < MaxAsked
  /\ asked' = asked + 1
  /\ IF current = 0
     THEN /\ arrays' = Append(arrays, <<asked'>>)
          /\ current' = Len(arrays')
     ELSE /\ arrays' = [arrays EXCEPT ![current] = Append(@, asked')]
          /\ UNCHANGED current
  /\ running' = Process(current', Head(arrays'[current']))
  /\ UNCHANGED <<timers, done>>

\* A change is pushed; it is processed if it is the only one.
StateChange ==
  /\ asked < MaxAsked
  /\ asked' = asked + 1
  /\ IF current = 0
     THEN /\ arrays' = Append(arrays, <<asked'>>)
          /\ current' = Len(arrays')
     ELSE /\ arrays' = [arrays EXCEPT ![current] = Append(@, asked')]
          /\ UNCHANGED current
  /\ running' = IF Len(arrays'[current']) = 1 THEN Process(current', asked') ELSE running
  /\ UNCHANGED <<timers, done>>

\* Mutants: the next change is left to whoever asks next; the key is deleted
\* although changes wait.
FinallyNoTimer(p) ==
  /\ running' = running \ {p}
  /\ done' = done + 1
  /\ arrays' = [arrays EXCEPT ![p.array] = Tail(@)]
  /\ current' = IF arrays'[p.array] # <<>> THEN current ELSE 0
  /\ UNCHANGED <<timers, asked>>

FinallyForgets(p) ==
  /\ running' = running \ {p}
  /\ done' = done + 1
  /\ arrays' = [arrays EXCEPT ![p.array] = Tail(@)]
  /\ timers' = IF arrays'[p.array] # <<>> THEN timers + 1 ELSE timers
  /\ current' = 0
  /\ UNCHANGED asked

\* The change is made or has thrown.  A shift of an empty array changes nothing.
Finally(p) ==
  /\ running' = running \ {p}
  /\ done' = done + 1
  /\ arrays' = [arrays EXCEPT ![p.array] = IF @ = <<>> THEN @ ELSE Tail(@)]
  /\ IF arrays'[p.array] # <<>>
     THEN timers' = timers + 1 /\ UNCHANGED current
     ELSE current' = 0 /\ UNCHANGED timers
  /\ UNCHANGED asked

\* The timer calls processJobStateChangeQueue, which finds the array of the map.
Timer ==
  /\ timers > 0
  /\ timers' = timers - 1
  /\ running' = IF current = 0 \/ arrays[current] = <<>> THEN running
                ELSE Process(current, Head(arrays[current]))
  /\ UNCHANGED <<arrays, current, asked, done>>

Next == StateChange \/ (\E p \in running : Finally(p)) \/ Timer

\* The change in hand ends and timers fire; nobody has to ask.
Fairness == WF_vars(\E p \in running : Finally(p)) /\ WF_vars(Timer)

Spec == Init /\ [][Next]_vars /\ Fairness
-----------------------------------------------------------------------------
(* Properties.                                                             *)

\* The changes of one job are never made side by side on a server: what a
\* change finds in memory stays as it is until the change is made (the reason
\* why jobqueue.ts, 746 takes the first change only).
OneAtATime == Cardinality(running) <= 1

Waits == IF current = 0 THEN <<>> ELSE arrays[current]

\* The changes are made one after the other, in the order they came, each of
\* them: the queue does what InTurn says.
Active == IF running = {} THEN 0 ELSE (CHOOSE p \in running : TRUE).change

Turn == INSTANCE InTurn WITH
  pending <- IF running = {} \/ Waits = <<>> THEN Waits ELSE Tail(Waits),
  active  <- Active,
  made    <- done

ImplementsInTurn == Turn!Spec

\* A change asked for is made, although no other one comes after it.
EveryChangeIsMade == \A n \in 1..MaxAsked : asked = n ~> done >= n
===============================================================================
