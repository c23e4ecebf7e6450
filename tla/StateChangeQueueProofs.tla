------------------------ MODULE StateChangeQueueProofs ------------------------
(***************************************************************************)
(* StateChangeQueue for any number of changes: never two of them at once,  *)
(* and every step is one of InTurn or invisible to it.                     *)
(*                                                                         *)
(* The array a processor holds is the one of the map, and the change it    *)
(* makes the first of it, because the key is deleted only when nothing     *)
(* waits and a change is pushed onto the array the map has; and there is   *)
(* a timer exactly when changes wait that nobody makes.                    *)
(***************************************************************************)
EXTENDS StateChangeQueue, FiniteSetTheorems, TLAPS

USE StateChangeQueueAssumption

\* Only the array of the map has changes, the next ones in order.
ArraysInv ==
  /\ \A a \in 1..Len(arrays) : a # current => arrays[a] = <<>>
  /\ current # 0 => arrays[current] # <<>>
  /\ asked = done + Len(Waits)
  /\ \A i \in 1..Len(Waits) : Waits[i] = done + i

RunningInv ==
  \/ running = {}
  \/ current # 0 /\ running = {[array |-> current, change |-> done + 1, nr |-> done]}

TimersInv == timers = IF current # 0 /\ running = {} THEN 1 ELSE 0

IInv == TypeOK /\ ArraysInv /\ RunningInv /\ TimersInv

-----------------------------------------------------------------------------
(* What each action does to the changes that wait.                         *)

LEMMA FirstProcessor ==
  ASSUME TypeOK, running = {}
  PROVE  \A a, c : Process(a, c) = {[array |-> a, change |-> c, nr |-> done]}
<1>1. done + Cardinality({}) = done
  BY FS_EmptySet DEF TypeOK
<1> QED
  BY <1>1 DEF Process

LEMMA WaitsType ==
  ASSUME TypeOK
  PROVE  Waits \in Seq(Nat \ {0})
BY DEF TypeOK, Waits

\* A change waits in the one array there is, which is made if there is none.
LEMMA StateChangeWaits ==
  ASSUME IInv, StateChange
  PROVE  /\ Waits' = Append(Waits, asked + 1)
         /\ current' \in 1..Len(arrays') /\ current' = IF current = 0 THEN Len(arrays') ELSE current
         /\ arrays' \in Seq(Seq(Nat \ {0}))
         /\ Len(arrays') >= Len(arrays)
         /\ \A a \in 1..Len(arrays') : a # current' => arrays'[a] = <<>>
         /\ running' = IF current = 0 THEN Process(current', asked + 1) ELSE running
<1>1. /\ arrays \in Seq(Seq(Nat \ {0})) /\ current \in 0..Len(arrays)
      /\ asked + 1 \in Nat \ {0} /\ asked' = asked + 1
  BY DEF IInv, TypeOK, StateChange
<1>2. CASE current = 0
  <2> DEFINE new == <<asked + 1>>
  <2>1. new \in Seq(Nat \ {0}) /\ Len(new) = 1 /\ new = Append(<<>>, asked + 1)
    BY <1>1
  <2>2. arrays' = Append(arrays, new) /\ current' = Len(arrays')
    BY <1>1, <1>2 DEF StateChange
  <2> HIDE DEF new
  <2>3. /\ arrays' \in Seq(Seq(Nat \ {0})) /\ Len(arrays') = Len(arrays) + 1
        /\ arrays'[Len(arrays) + 1] = new
        /\ \A a \in 1..Len(arrays) : arrays'[a] = arrays[a]
    BY <1>1, <2>1, <2>2
  <2>4. Waits' = new /\ Waits = <<>>
    BY <1>1, <1>2, <2>2, <2>3 DEF Waits
  <2>5. \A a \in 1..Len(arrays') : a # current' => arrays'[a] = <<>>
    BY <1>1, <1>2, <2>2, <2>3 DEF IInv, ArraysInv
  <2>6. running' = Process(current', asked + 1)
    BY <1>1, <2>1, <2>2, <2>3 DEF StateChange
  <2> QED
    BY <1>1, <1>2, <2>1, <2>2, <2>3, <2>4, <2>5, <2>6
<1>3. CASE current # 0
  <2> DEFINE longer == Append(arrays[current], asked + 1)
  <2>1. arrays' = [arrays EXCEPT ![current] = longer] /\ current' = current
    BY <1>1, <1>3 DEF StateChange
  <2>2. /\ arrays[current] \in Seq(Nat \ {0}) /\ arrays[current] # <<>>
        /\ current \in 1..Len(arrays)
    BY <1>1, <1>3 DEF IInv, ArraysInv
  <2>3. longer \in Seq(Nat \ {0}) /\ Len(longer) # 1
    BY <1>1, <2>2
  <2> HIDE DEF longer
  <2>4. /\ arrays' \in Seq(Seq(Nat \ {0})) /\ Len(arrays') = Len(arrays)
        /\ arrays'[current] = longer
        /\ \A a \in 1..Len(arrays) : a # current => arrays'[a] = arrays[a]
    BY <1>1, <2>1, <2>2, <2>3
  <2>5. Waits' = Append(Waits, asked + 1)
    BY <1>3, <2>1, <2>4 DEF Waits, longer
  <2>6. running' = running
    <3>1. Len(arrays'[current']) # 1
      BY <2>1, <2>3, <2>4
    <3> QED
      BY <3>1 DEF StateChange
  <2> QED
    BY <1>1, <1>3, <2>1, <2>2, <2>4, <2>5, <2>6 DEF IInv, ArraysInv
<1> QED
  BY <1>2, <1>3

\* The processor's array is the map's, and loses its first change.
LEMMA FinallyWaits ==
  ASSUME IInv, NEW p \in running, Finally(p)
  PROVE  /\ p = [array |-> current, change |-> done + 1, nr |-> done] /\ current # 0 /\ Waits # <<>>
         /\ Waits' = Tail(Waits)
         /\ current' = IF Tail(Waits) = <<>> THEN 0 ELSE current
         /\ timers' = IF Tail(Waits) = <<>> THEN timers ELSE timers + 1
         /\ running' = {}
         /\ arrays' \in Seq(Seq(Nat \ {0})) /\ Len(arrays') = Len(arrays)
         /\ \A a \in 1..Len(arrays') : a # current' => arrays'[a] = <<>>
<1>1. p = [array |-> current, change |-> done + 1, nr |-> done] /\ current # 0 /\ running = {p}
  BY DEF IInv, RunningInv
<1>2. /\ arrays \in Seq(Seq(Nat \ {0})) /\ current \in 1..Len(arrays)
      /\ arrays[current] \in Seq(Nat \ {0}) /\ arrays[current] # <<>>
  BY <1>1 DEF IInv, TypeOK, ArraysInv
<1> DEFINE rest == Tail(arrays[current])
<1>3. rest \in Seq(Nat \ {0})
  BY <1>2
<1>4. arrays' = [arrays EXCEPT ![current] = rest]
  BY <1>1, <1>2 DEF Finally
<1>5. Waits = arrays[current]
  BY <1>1 DEF Waits
<1> HIDE DEF rest
<1>6. /\ arrays' \in Seq(Seq(Nat \ {0})) /\ Len(arrays') = Len(arrays)
      /\ arrays'[current] = rest
      /\ \A a \in 1..Len(arrays) : a # current => arrays'[a] = <<>>
  BY <1>2, <1>3, <1>4 DEF IInv, ArraysInv
<1>7. /\ current' = IF rest = <<>> THEN 0 ELSE current
      /\ timers' = IF rest = <<>> THEN timers ELSE timers + 1
      /\ running' = {}
  BY <1>1, <1>6 DEF Finally
<1>8. Waits' = rest
  BY <1>1, <1>6, <1>7 DEF Waits
<1> QED
  BY <1>1, <1>2, <1>5, <1>6, <1>7, <1>8 DEF rest

\* A timer finds changes that wait and nobody makes.
LEMMA TimerWaits ==
  ASSUME IInv, Timer
  PROVE  /\ current # 0 /\ running = {} /\ timers = 1 /\ timers' = 0
         /\ Waits \in Seq(Nat \ {0}) /\ Waits # <<>> /\ Head(Waits) = done + 1
         /\ running' = {[array |-> current, change |-> done + 1, nr |-> done]}
         /\ Waits' = Waits
<1>1. current # 0 /\ running = {} /\ timers = 1 /\ timers' = 0
  BY DEF IInv, TimersInv, Timer
<1>2. Waits = arrays[current] /\ Waits # <<>> /\ Waits' = Waits
  BY <1>1 DEF IInv, ArraysInv, Waits, Timer
<1>3. Waits \in Seq(Nat \ {0}) /\ Head(Waits) = Waits[1] /\ Len(Waits) >= 1
  BY <1>2, WaitsType DEF IInv
<1>4. Head(Waits) = done + 1
  BY <1>3 DEF IInv, ArraysInv, TypeOK
<1> QED
  BY <1>1, <1>2, <1>3, <1>4, FirstProcessor DEF Timer, IInv

-----------------------------------------------------------------------------
(* The invariant.                                                          *)

LEMMA Begins == Init => IInv
<1> SUFFICES ASSUME Init
             PROVE  IInv
  OBVIOUS
<1>1. Len(<<>>) = 0 /\ <<>> \in Seq(Seq(Nat \ {0}))
  OBVIOUS
<1>2. TypeOK
  BY <1>1 DEF Init, TypeOK
<1>3. ArraysInv /\ RunningInv /\ TimersInv
  BY <1>1 DEF Init, ArraysInv, RunningInv, TimersInv, Waits
<1> QED
  BY <1>2, <1>3 DEF IInv

LEMMA StateChangeKeeps ==
  ASSUME IInv, StateChange
  PROVE  IInv'
<1>1. /\ Waits \in Seq(Nat \ {0}) /\ asked \in Nat /\ done \in Nat
      /\ asked' = asked + 1 /\ asked' \in 0..MaxAsked /\ done' = done /\ timers' = timers
  BY WaitsType DEF IInv, TypeOK, StateChange
<1>2. /\ Len(Waits') = Len(Waits) + 1 /\ Waits'[Len(Waits) + 1] = asked + 1
      /\ \A i \in 1..Len(Waits) : Waits'[i] = Waits[i]
  <2>1. Waits' = Append(Waits, asked + 1)
    BY StateChangeWaits
  <2> QED
    BY <1>1, <2>1
<1>3. asked = done + Len(Waits) /\ \A i \in 1..Len(Waits) : Waits[i] = done + i
  BY DEF IInv, ArraysInv
<1>4. \A i \in 1..Len(Waits') : Waits'[i] = done + i
  <2> TAKE i \in 1..Len(Waits')
  <2>1. i \in 1..Len(Waits) \/ i = Len(Waits) + 1
    BY <1>1, <1>2
  <2> QED
    BY <1>1, <1>2, <1>3, <2>1
<1>5. current' # 0 /\ arrays'[current'] # <<>>
  <2>1. current' # 0
    BY StateChangeWaits
  <2>2. Waits' = arrays'[current']
    BY <2>1 DEF Waits
  <2>3. Waits' # <<>>
    BY <1>1, StateChangeWaits
  <2> QED
    BY <2>1, <2>2, <2>3
<1>6. ArraysInv'
  BY <1>1, <1>2, <1>3, <1>4, <1>5, StateChangeWaits DEF ArraysInv
<1>7. current = 0 => running = {} /\ timers = 0 /\ asked = done
  <2>1. current = 0 => Len(Waits) = 0
    BY DEF Waits
  <2> QED
    BY <1>1, <1>3, <2>1 DEF IInv, RunningInv, TimersInv
<1>8. RunningInv' /\ TimersInv'
  <2>1. CASE current = 0
    <3>1. running' = {[array |-> current', change |-> done' + 1, nr |-> done']}
      BY <1>1, <1>7, <2>1, StateChangeWaits, FirstProcessor DEF IInv
    <3>2. running' # {} /\ timers' = 0
      BY <1>1, <1>7, <2>1, <3>1
    <3> QED
      BY <1>5, <3>1, <3>2 DEF RunningInv, TimersInv
  <2>2. CASE current # 0
    BY <1>1, <2>2, StateChangeWaits DEF IInv, RunningInv, TimersInv
  <2> QED
    BY <2>1, <2>2
<1>9. TypeOK'
  <2>1. running' \in SUBSET Processor /\ \A p \in running' : p.array \in 1..Len(arrays')
    <3>1. CASE current = 0
      <4>1. /\ running' = {[array |-> current', change |-> asked + 1, nr |-> done]}
            /\ current' \in 1..Len(arrays') /\ Len(arrays') \in Nat
        BY <1>7, <3>1, StateChangeWaits, FirstProcessor DEF IInv
      <4> QED
        BY <1>1, <4>1 DEF Processor
    <3>2. CASE current # 0
      <4>1. \A a \in 1..Len(arrays) : a \in 1..Len(arrays')
        BY StateChangeWaits DEF IInv, TypeOK
      <4> QED
        BY <3>2, <4>1, StateChangeWaits DEF IInv, TypeOK
    <3> QED
      BY <3>1, <3>2
  <2> QED
    BY <1>1, <2>1, StateChangeWaits DEF IInv, TypeOK
<1> QED
  BY <1>6, <1>8, <1>9 DEF IInv

LEMMA FinallyKeeps ==
  ASSUME IInv, NEW p \in running, Finally(p)
  PROVE  IInv'
<1>1. /\ Waits \in Seq(Nat \ {0}) /\ Waits # <<>> /\ asked \in Nat /\ done \in Nat
      /\ asked' = asked /\ asked \in 0..MaxAsked /\ done' = done + 1
      /\ timers = 0 /\ current \in 1..Len(arrays)
  <2>1. current # 0 /\ Waits # <<>>
    BY FinallyWaits
  <2>2. asked' = asked /\ done' = done + 1
    BY DEF Finally
  <2> QED
    BY <2>1, <2>2, WaitsType DEF IInv, TypeOK, TimersInv
<1>2. /\ Tail(Waits) \in Seq(Nat \ {0}) /\ Len(Tail(Waits)) = Len(Waits) - 1
      /\ \A i \in 1..Len(Tail(Waits)) : Tail(Waits)[i] = Waits[i + 1]
      /\ Len(Waits) \in Nat \ {0}
  BY <1>1
<1>3. /\ Waits' = Tail(Waits) /\ running' = {}
      /\ current' = IF Tail(Waits) = <<>> THEN 0 ELSE current
      /\ timers' = IF Tail(Waits) = <<>> THEN 0 ELSE 1
  <2>1. timers' = IF Tail(Waits) = <<>> THEN timers ELSE timers + 1
    BY FinallyWaits
  <2>2. timers' = IF Tail(Waits) = <<>> THEN 0 ELSE 1
    BY <1>1, <2>1
  <2>3. /\ Waits' = Tail(Waits) /\ running' = {}
        /\ current' = IF Tail(Waits) = <<>> THEN 0 ELSE current
    BY FinallyWaits
  <2> QED
    BY <2>2, <2>3
<1>4. ArraysInv'
  <2>1. asked' = done' + Len(Waits')
    BY <1>1, <1>2, <1>3 DEF IInv, ArraysInv
  <2>2. \A i \in 1..Len(Waits') : Waits'[i] = done' + i
    <3> TAKE i \in 1..Len(Waits')
    <3>1. i + 1 \in 1..Len(Waits)
      BY <1>2, <1>3
    <3>2. Waits'[i] = Waits[i + 1]
      BY <1>2, <1>3
    <3> QED
      BY <1>1, <3>1, <3>2 DEF IInv, ArraysInv
  <2>3. current' # 0 => arrays'[current'] # <<>>
    <3>1. current' # 0 => Waits' = arrays'[current']
      BY DEF Waits
    <3> QED
      BY <3>1, FinallyWaits
  <2> QED
    BY <2>1, <2>2, <2>3, FinallyWaits DEF ArraysInv
<1>5. RunningInv' /\ TimersInv'
  BY <1>1, <1>3 DEF RunningInv, TimersInv
<1>6. TypeOK'
  <2>1. arrays' \in Seq(Seq(Nat \ {0})) /\ Len(arrays') = Len(arrays)
    BY FinallyWaits
  <2>2. current' \in 0..Len(arrays') /\ timers' \in Nat
    BY <1>1, <1>3, <2>1
  <2> QED
    BY <1>1, <1>3, <2>1, <2>2 DEF TypeOK
<1> QED
  BY <1>4, <1>5, <1>6 DEF IInv

LEMMA TimerKeeps ==
  ASSUME IInv, Timer
  PROVE  IInv'
<1>1. UNCHANGED <<arrays, current, asked, done>> /\ current \in 1..Len(arrays) /\ done \in Nat
  BY TimerWaits DEF Timer, IInv, TypeOK
<1>2. ArraysInv'
  BY <1>1, TimerWaits DEF IInv, ArraysInv
<1>3. RunningInv' /\ TimersInv'
  BY <1>1, TimerWaits DEF RunningInv, TimersInv
<1>4. TypeOK'
  <2>1. running' = {[array |-> current, change |-> done + 1, nr |-> done]} /\ timers' = 0
    BY TimerWaits
  <2>2. running' \subseteq Processor /\ \A p \in running' : p.array = current
    <3>1. current \in Nat \ {0} /\ done + 1 \in Nat \ {0}
      BY <1>1 DEF IInv, TypeOK
    <3> QED
      BY <1>1, <2>1, <3>1 DEF Processor
  <2> QED
    BY <1>1, <2>1, <2>2 DEF IInv, TypeOK
<1> QED
  BY <1>2, <1>3, <1>4 DEF IInv

LEMMA Keeps == IInv /\ [Next]_vars => IInv'
<1> SUFFICES ASSUME IInv, [Next]_vars
             PROVE  IInv'
  OBVIOUS
<1>1. CASE UNCHANGED vars
  BY <1>1 DEF vars, IInv, TypeOK, ArraysInv, RunningInv, TimersInv, Waits
<1> QED
  BY <1>1, StateChangeKeeps, FinallyKeeps, TimerKeeps DEF Next

-----------------------------------------------------------------------------
\* The changes of one job are never made side by side on a server, however many
\* are asked for (jobqueue.ts, 727-777).
THEOREM NeverTwoAtOnce == Spec => []OneAtATime
<1>1. IInv => OneAtATime
  <2> SUFFICES ASSUME IInv
               PROVE  Cardinality(running) <= 1
    BY DEF OneAtATime
  <2>1. CASE running = {}
    BY <2>1, FS_EmptySet
  <2>2. CASE running = {[array |-> current, change |-> done + 1, nr |-> done]}
    <3>1. Cardinality(running) = 1
      BY <2>2, FS_Singleton
    <3> QED
      BY <3>1
  <2> QED
    BY <2>1, <2>2 DEF IInv, RunningInv
<1> QED
  BY <1>1, Begins, Keeps, PTL DEF Spec

-----------------------------------------------------------------------------
(* The refinement of InTurn.                                               *)

LEMMA OneChosen == \A e : (CHOOSE p \in {e} : TRUE) = e
OBVIOUS

\* What InTurn sees of a state.
LEMMA Seen ==
  ASSUME IInv
  PROVE  /\ running = {} => Active = 0
         /\ running # {} => Active = done + 1 /\ Waits # <<>> /\ done + 1 \in Nat \ {0}
<1>1. running # {} => Active = done + 1
  BY DEF IInv, RunningInv, Active
<1>2. running # {} => Waits # <<>>
  BY DEF IInv, RunningInv, ArraysInv, Waits
<1> QED
  BY <1>1, <1>2 DEF Active, IInv, TypeOK

LEMMA TurnBegins == Init => Turn!Init
BY DEF Init, Turn!Init, Waits, Active

LEMMA TurnAsked ==
  ASSUME IInv
  PROVE  Turn!Asked = asked
<1>1. /\ Waits \in Seq(Nat \ {0}) /\ asked = done + Len(Waits) /\ done \in Nat
  BY WaitsType DEF IInv, TypeOK, ArraysInv
<1>2. CASE running = {}
  BY <1>1, <1>2, Seen DEF Turn!Asked
<1>3. CASE running # {}
  <2>1. Active = done + 1 /\ Waits # <<>>
    BY <1>3, Seen
  <2>2. Len(Tail(Waits)) = Len(Waits) - 1 /\ Len(Waits) \in Nat \ {0}
    BY <1>1, <2>1
  <2>3. Turn!Asked = done + 1 + Len(Tail(Waits))
    <3>1. Active # 0
      BY <1>1, <2>1
    <3> QED
      BY <1>3, <2>1, <3>1 DEF Turn!Asked
  <2> QED
    BY <1>1, <2>2, <2>3
<1> QED
  BY <1>2, <1>3

\* A change asked for is one asked for in InTurn.
LEMMA StateChangeIsAsk ==
  ASSUME IInv, StateChange
  PROVE  Turn!Ask
<1>1. /\ Waits \in Seq(Nat \ {0}) /\ asked \in Nat \ {MaxAsked} /\ asked < MaxAsked
      /\ done \in Nat /\ done' = done /\ Turn!Asked = asked /\ asked = done + Len(Waits)
  BY WaitsType, TurnAsked DEF IInv, TypeOK, ArraysInv, StateChange
<1>2. Waits' = Append(Waits, asked + 1)
  BY StateChangeWaits
<1>3. CASE current = 0
  <2>1. Waits = <<>> /\ running = {} /\ asked = done
    <3>1. Waits = <<>> /\ running = {}
      BY <1>3 DEF Waits, IInv, RunningInv
    <3> QED
      BY <1>1, <3>1
  <2>2. running' # {} /\ Active' = asked + 1
    <3>1. running' = {[array |-> current', change |-> asked + 1, nr |-> done]}
      BY <1>3, <2>1, StateChangeWaits, FirstProcessor DEF IInv
    <3>2. running' # {}
      BY <3>1
    <3>3. (CHOOSE p \in running' : TRUE) = [array |-> current', change |-> asked + 1, nr |-> done]
      BY <3>1, OneChosen, Zenon
    <3>4. Active' = (CHOOSE p \in running' : TRUE).change
      BY <3>2, Zenon DEF Active
    <3>5. [array |-> current', change |-> asked + 1, nr |-> done].change = asked + 1
      OBVIOUS
    <3> QED
      BY <3>2, <3>3, <3>4, <3>5, Zenon
  <2>3. Waits' # <<>> /\ Tail(Waits') = <<>>
    BY <1>1, <1>2, <2>1
  <2> QED
    BY <1>1, <2>1, <2>2, <2>3, Seen DEF Turn!Ask
<1>4. CASE current # 0
  <2>1. running' = running /\ Waits # <<>>
    BY <1>4, StateChangeWaits DEF IInv, ArraysInv, Waits
  <2>2. Active' = Active /\ Waits' # <<>> /\ Tail(Waits') = Append(Tail(Waits), asked + 1)
    BY <1>1, <1>2, <2>1 DEF Active
  <2>3. running # {} => Active # 0
    BY <1>1, Seen
  <2> QED
    BY <1>1, <1>2, <2>1, <2>2, <2>3, Seen DEF Turn!Ask
<1> QED
  BY <1>3, <1>4

\* A change that ends has had its turn.
LEMMA FinallyIsEnd ==
  ASSUME IInv, NEW p \in running, Finally(p)
  PROVE  Turn!End
<1>1. Active = done + 1 /\ Waits # <<>> /\ done' = done + 1
  BY Seen DEF Finally
<1>2. running' = {} /\ Waits' = Tail(Waits)
  BY FinallyWaits
<1>3. Active' = 0
  BY <1>2 DEF Active
<1> QED
  BY <1>1, <1>2, <1>3 DEF Turn!End

\* The timer begins the turn of the next change.
LEMMA TimerIsBegin ==
  ASSUME IInv, Timer
  PROVE  Turn!Begin
<1>1. /\ running = {} /\ Waits # <<>> /\ Head(Waits) = done + 1 /\ Waits' = Waits
      /\ running' = {[array |-> current, change |-> done + 1, nr |-> done]}
  BY TimerWaits
<1>2. Active = 0 /\ running' # {} /\ done' = done
  BY <1>1 DEF Active, Timer
<1>3. Active' = done + 1
  <2>1. (CHOOSE p \in running' : TRUE) = [array |-> current, change |-> done + 1, nr |-> done]
    BY <1>1, OneChosen, Zenon
  <2>2. Active' = (CHOOSE p \in running' : TRUE).change
    BY <1>2, Zenon DEF Active
  <2>3. [array |-> current, change |-> done + 1, nr |-> done].change = done + 1
    OBVIOUS
  <2> QED
    BY <2>1, <2>2, <2>3, Zenon
<1> QED
  BY <1>1, <1>2, <1>3 DEF Turn!Begin

\* Every behaviour of the queue is, but for what has to happen some day, one of
\* InTurn: changes are made in the order they came (jobqueue.ts, 727-777).
THEOREM QueueIsInTurn == Spec => Turn!Init /\ [][Turn!Next]_Turn!vars
<1>1. IInv /\ [Next]_vars => [Turn!Next]_Turn!vars
  <2> SUFFICES ASSUME IInv, [Next]_vars
               PROVE  [Turn!Next]_Turn!vars
    OBVIOUS
  <2>1. CASE UNCHANGED vars
    BY <2>1 DEF vars, Turn!vars, Waits, Active
  <2> QED
    BY <2>1, StateChangeIsAsk, FinallyIsEnd, TimerIsBegin DEF Next, Turn!Next
<1> QED
  BY <1>1, Begins, TurnBegins, Keeps, PTL DEF Spec
===============================================================================
