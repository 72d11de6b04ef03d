----------------------------- MODULE MCTaskQueue -----------------------------
(* Four heap cells, two descriptors and a queue of two: the queue fills,   *)
(* a node is turned away, and freed cells are handed out again.            *)
EXTENDS TaskQueue

CONSTANTS n1, n2, n3, n4, fd1, fd2

MCNodes == {n1, n2, n3, n4}
MCFds == {fd1, fd2}
=============================================================================
