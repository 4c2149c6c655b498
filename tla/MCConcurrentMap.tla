-------------------------- MODULE MCConcurrentMap --------------------------
(* TLC instance of ConcurrentMap: the constants are given in the .cfg file. *)
EXTENDS ConcurrentMap
=============================================================================
