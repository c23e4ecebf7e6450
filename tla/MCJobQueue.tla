------------------------------ MODULE MCJobQueue ------------------------------
(* Model values and small sets for checking JobQueue with TLC.             *)
EXTENDS JobQueue, TLC

CONSTANTS s1, s2

OneServer      == {s1}
TwoServers     == {s1, s2}
ServerSymmetry == Permutations(TwoServers)

OneSpace  == {DefaultNamespace}
TwoSpaces == {DefaultNamespace, "n"}

Submit == Enqueue(DefaultNamespace)
Done   == Finish("Success", DefaultNamespace)
Cancel == Finish("Cancelled", DefaultNamespace)
Delete == Finish("Deleted", DefaultNamespace)

\* What clients and workers ask for over their sockets.
OneWorker    == {Submit, Run(1), Done}
TwoWorkers   == {Submit, Run(1), Run(2), Done, Finish("Error", DefaultNamespace),
                 Finish("TimedOut", DefaultNamespace)}
SharedSubmit == {Submit, Enqueue("n"), Run(1), Done}
Cancelling   == {Submit, Run(1), Done, Cancel}
SharedDelete == {Submit, Enqueue("n"), Run(1), Done, Delete, Finish("Cancelled", AllNamespaces)}

\* What reaches the functions directly.
Nothing      == {}
Submissions  == {Submit}
Joins        == {Enqueue("n")}
Replacements == {Finish("JobReplacedByClient", "n")}

\* A constraint: the second server only listens; on the first a change past the line
\* does not overlap one of the line.
OneSpeaks ==
  /\ At(s1, "direct", "idle") \/ At(s1, "line", "idle")
  /\ inbox[s1] = {} /\ Cardinality(inbox[s2]) <= 1
  /\ line[s2] = <<>> /\ At(s2, "line", "idle") /\ At(s2, "direct", "idle")
===============================================================================
