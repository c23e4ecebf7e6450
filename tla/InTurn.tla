-------------------------------- MODULE InTurn --------------------------------
(* What stateChange of a server's queue (jobqueue.ts) promises for the       *)
(* changes of one job: they are made one after the other, in the order they  *)
(* were asked for, and each of them is made, whether it succeeds or throws.  *)
EXTENDS Naturals, Sequences

CONSTANT MaxAsked   \* bound: the changes asked for, numbered from 1

VARIABLES
  pending,  \* the changes whose turn has not come
  active,   \* the change being made, or 0
  made      \* how many changes have been made

vars == <<pending, active, made>>

Init == pending = <<>> /\ active = 0 /\ made = 0

Asked == made + (IF active = 0 THEN 0 ELSE 1) + Len(pending)

\* A change is asked for.  If none is being made or waits, its turn is at once.
Ask ==
  /\ Asked < MaxAsked
  /\ IF active = 0 /\ pending = <<>>
     THEN active' = Asked + 1 /\ UNCHANGED pending
     ELSE pending' = Append(pending, Asked + 1) /\ UNCHANGED active
  /\ UNCHANGED made

\* The turn of the next change comes.
Begin ==
  /\ active = 0 /\ pending # <<>>
  /\ active' = Head(pending)
  /\ pending' = Tail(pending)
  /\ UNCHANGED made

\* A change has been made.
End ==
  /\ active = made + 1
  /\ active' = 0
  /\ made' = active
  /\ UNCHANGED pending

Next == Ask \/ Begin \/ End

Spec == Init /\ [][Next]_vars /\ WF_vars(Begin) /\ WF_vars(End)
===============================================================================
