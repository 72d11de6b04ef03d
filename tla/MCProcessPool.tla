---------------------------- MODULE MCProcessPool ----------------------------
(* Model values for PoolStages.                                             *)
EXTENDS PoolStages

CONSTANTS c1, c2, c3

TwoClients == {c1, c2}
ThreeClients == {c1, c2, c3}

AllStages == {"sendfile", "timeout", "server_exit"}
LastStage == {"server_exit"}
=============================================================================
