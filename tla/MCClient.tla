------------------------------- MODULE MCClient -------------------------------
(* Small sets for checking Client with TLC.                                *)
EXTENDS Client

CONSTANTS a, b

Empties == [h \in {a, b} |-> NoJob]
Only(job) == [Empties EXCEPT ![a] = job]

Success == Copy("Finished", "Success", 0, FALSE)
Running == Copy("Running", NoReason, 0, FALSE)
Seen    == [Success EXCEPT !.payload = TRUE]

\* A page that is opened where nobody has the job of its definition.
Page == [autostart |-> FALSE, inputs |-> a, loaded |-> FALSE, choices |-> {a},
         server |-> Empties, stored |-> Empties, cache |-> Empties,
         acts |-> 1, cuts |-> 1, heard |-> 1]

\* The same with the result shown.
Shown == [Page EXCEPT !.loaded = TRUE, !.choices = {}, !.cuts = 0, !.server = Only(Success),
                      !.stored = Only(Success), !.cache = Only(Seen)]

\* Opening the page, without and with autostart, while the connection fails, or
\* changing it before it has computed what it shows.
Opened  == [Page EXCEPT !.server = Only(Running)]
Started == [Page EXCEPT !.autostart = TRUE, !.acts = 0]
Hasty   == [Page EXCEPT !.choices = {b}, !.cuts = 0]

\* A job that runs and is cancelled while two calls overlap, one that is run,
\* cancelled and run again, deleted and run again by autostart, and another
\* definition, with autostart too.
Cancelling == [Shown EXCEPT !.server = Only(Running), !.stored = Empties, !.cache = Empties,
                            !.acts = 2, !.heard = 2]
RunAgain   == [Shown EXCEPT !.server = Empties, !.stored = Empties, !.cache = Empties, !.acts = 3]
Retrying   == [Shown EXCEPT !.autostart = TRUE, !.heard = 2]
Another    == [Shown EXCEPT !.choices = {b}, !.acts = 2]
AutoOther  == [Shown EXCEPT !.autostart = TRUE, !.choices = {b}]

Worlds == {Opened, Started, Hasty, Cancelling, RunAgain, Retrying, Another, AutoOther}
=============================================================================
