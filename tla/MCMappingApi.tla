---------------------------- MODULE MCMappingApi ----------------------------
(* Instances of MappingApi for TLC: the route sets of the runs. *)
EXTENDS MappingApi

CONSTANTS c1, c2, nobody

OneClient == {c1}
TwoClients == {c1, c2}

PauseRestart == {"pause", "restart"}
QueueRoutes == {"status", "go", "pause", "export", "config"}
=============================================================================
