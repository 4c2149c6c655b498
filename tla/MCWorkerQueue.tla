--------------------------- MODULE MCWorkerQueue ---------------------------
(* TLC instance of WorkerQueue: the constants are given in MCWorkerQueue.cfg. *)
EXTENDS WorkerQueue
=============================================================================
