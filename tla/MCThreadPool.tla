---------------------------- MODULE MCThreadPool -----------------------------
(* Model values for ThreadPool: two workers, one queue slot, two clients.    *)
EXTENDS ThreadPool

CONSTANTS c1, c2

TwoClients == {c1, c2}
=============================================================================
