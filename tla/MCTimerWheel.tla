---------------------------- MODULE MCTimerWheel ----------------------------
(* TLC instance of TimerWheel: the constants are given in the .cfg files. *)
EXTENDS TimerWheel
=============================================================================
