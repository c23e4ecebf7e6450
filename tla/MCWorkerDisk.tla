----------------------------- MODULE MCWorkerDisk -----------------------------
(* Model values for WorkerDisk: two runs.  In the settings about files the    *)
(* image is there; in those about images there are no files.                  *)
EXTENDS WorkerDisk

Apart == [r \in Run |-> r]
Same  == [r \in Run |-> 1]

Url(b, known) == [blob |-> b, hash |-> known]
BothKnown == [j \in Job |-> Url(1, TRUE)]
OneKnown  == [j \in Job |-> Url(1, j = 1)]
NoInputs  == [j \in Job |-> NoInput]

Calm(local, of, in) ==
  [local |-> local, rewrites |-> FALSE, refuses |-> FALSE, reuploads |-> FALSE, clears |-> FALSE,
   again |-> FALSE, writes |-> {1, 2}, of |-> of, input |-> in]

QuietWorlds == {Calm(local, Apart, in) : local \in BOOLEAN, in \in {BothKnown, OneKnown}}

\* One kind of trouble at a time.
NoisyWorlds ==
  {[Calm(FALSE, Same, BothKnown) EXCEPT !.writes = {2}],
   [Calm(TRUE, Apart, BothKnown) EXCEPT !.rewrites = TRUE],
   [Calm(FALSE, Apart, OneKnown) EXCEPT !.refuses = TRUE, !.writes = {2}],
   [Calm(TRUE, Apart, BothKnown) EXCEPT !.reuploads = TRUE],
   [Calm(FALSE, Apart, BothKnown) EXCEPT !.clears = TRUE, !.writes = {2}]}

Plan(first, second, present, cuts, removals) ==
  [want |-> [r \in Run |-> IF r = 1 THEN first ELSE second], there |-> present, known |-> FALSE, cuts |-> cuts, removals |-> removals]

ImageIsThere == [Plan("pull", "pull", TRUE, FALSE, 0) EXCEPT !.known = TRUE]

NoFiles == [Calm(FALSE, Apart, NoInputs) EXCEPT !.writes = {}]
Retries == [NoFiles EXCEPT !.again = TRUE]

FileSettings  == (QuietWorlds \cup NoisyWorlds) \X {ImageIsThere}
ImageSettings ==
  {Retries} \X {Plan("pull", "pull", FALSE, FALSE, 1), Plan("pull", "build", TRUE, FALSE, 1)}
    \cup {NoFiles} \X {Plan("build", "build", FALSE, FALSE, 1), Plan("build", "build", FALSE, TRUE, 0)}
Settings == FileSettings \cup ImageSettings
WorldsUsed == {s[1] : s \in Settings}
===============================================================================
