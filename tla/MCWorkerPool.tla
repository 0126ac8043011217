---------------------------- MODULE MCWorkerPool ----------------------------
(***************************************************************************)
(* A small instance of WorkerPool for TLC.                                 *)
(***************************************************************************)
EXTENDS WorkerPool, TLC

CONSTANTS w1, w2, w3

MCWorkers == {w1, w2, w3}
=============================================================================
