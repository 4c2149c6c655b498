----------------------------- MODULE MCMessaging -----------------------------
(* TLC instance of Messaging. *)
EXTENDS Messaging

\* Two services on worker 1, one on worker 2, and an id that names no worker.
Placement == <<1, 1, 2, 3>>
==============================================================================
