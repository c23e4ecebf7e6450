----------------------------- MODULE MCJobGossip -----------------------------
(* Bounds for JobGossip.  Two clock values tell earlier, later and equal   *)
(* times apart and two workers give a preferred one.  JobGossipProofs is   *)
(* about any number of servers.                                            *)
EXTENDS JobGossip

CONSTANTS s1, s2

TwoServers == {s1, s2}
TwoWorkers == 1..2
TwoTimes   == 1..2

=============================================================================
