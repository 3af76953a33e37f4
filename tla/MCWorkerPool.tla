---------------------------- MODULE MCWorkerPool ----------------------------
(* A small daemon. *)
EXTENDS WorkerPool
=============================================================================
