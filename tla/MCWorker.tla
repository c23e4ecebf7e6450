------------------------------- MODULE MCWorker -------------------------------
(* Model values for Worker: what the server may say of the jobs.           *)
EXTENDS Worker

Word(state, w) == [state |-> state, worker |-> w]

Absent    == Word("Absent", 0)
Queued    == Word("Queued", 0)
Ours      == Word("Running", Me)
Elsewhere == Word("Running", 1)    \* worker 1 is preferred to Me
Done      == Word("Finished", Me)

RunWords  == [Job -> {Absent, Queued, Ours, Done}]
SlotWords == [Job -> {Absent, Queued, Ours, Elsewhere}]

\* A constraint: runs end, well or not, before they come to docker.  What becomes
\* of slots is the same: a run that ends later frees its job's slot too.
NoDocker == \A n \in DOMAIN start : start[n].item = None
===============================================================================
