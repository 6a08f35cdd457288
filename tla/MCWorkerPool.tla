---------------------------- MODULE MCWorkerPool ----------------------------
(* Four jobs through a pool of two: Add blocks, and errors queue up.       *)
EXTENDS WorkerPool
CONSTANTS j1, j2, j3, j4
MCJobs == {j1, j2, j3, j4}
=============================================================================
