---------------------------- MODULE MCConnections ----------------------------
(* Model values for Connections: two servers with workers only; one server    *)
(* with an empty queue; one with a browser, and maybe two objects.            *)
EXTENDS Connections

CONSTANTS s1, s2

Objects == {<<s1, 1>>, <<s1, 2>>, <<s2, 1>>}

Pair  == [servers |-> {s1, s2}, sockets |-> {1, 2}, visits |-> 0, jobs |-> TRUE, twins |-> FALSE]
Idle  == [Pair EXCEPT !.servers = {s1}, !.sockets = Socket, !.jobs = FALSE]
Twins == [Pair EXCEPT !.servers = {s1}, !.visits = 1, !.twins = TRUE]

Worlds == {Pair, Idle, Twins}
===============================================================================
