------------------------------ MODULE MCServer ------------------------------
(* TLC instances of Server: the configuration the .cfg files use. *)
EXTENDS Server

\* One configured service, on any worker.
ConfigOne == <<0>>
=============================================================================
