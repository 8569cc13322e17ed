---------------------------- MODULE MCWorkerPool ----------------------------
(* One worker shared by two clients. *)
EXTENDS WorkerPool

CONSTANTS w1, c1, c2, a

MCWorkers == {w1}
MCClients == {c1, c2}
MCItems == {a}
=============================================================================
