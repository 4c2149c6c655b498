------------------------------ MODULE MCLogger ------------------------------
(* TLC instance of Logger: two threads log, one of them more often. *)
EXTENDS Logger, TLC

CONSTANTS p1, p2

MCProducers == {p1, p2}
MCMaxLines == p1 :> 3 @@ p2 :> 1
=============================================================================
