------------------------------ MODULE Mailbox ------------------------------
(***************************************************************************)
(* What worker::send promises to the services of the server, with nothing  *)
(* of how it is done: a worker is an unbounded FIFO mailbox.  A message is *)
(* accepted at the moment it is put, the worker thread handles accepted    *)
(* messages one at a time in the order of acceptance, and goes on until    *)
(* the mailbox is empty or the worker has exited.  A message put after the *)
(* exit is accepted and never handled.                                     *)
(*                                                                         *)
(* WorkerQueue implements this specification with two queues, two locks    *)
(* and a wake-up task.                                                     *)
(***************************************************************************)
EXTENDS Sequences

CONSTANT Message            \* the messages that can be sent to this worker

VARIABLES
    pending,                \* accepted and not yet handled, oldest first
    handled,                \* handled so far, oldest first
    open                    \* FALSE once the worker has exited

vars == <<pending, handled, open>>

Init ==
    /\ pending = <<>>
    /\ handled = <<>>
    /\ open = TRUE

Put(m) ==
    /\ pending' = Append(pending, m)
    /\ UNCHANGED <<handled, open>>

Take ==
    /\ open
    /\ pending # <<>>
    /\ handled' = Append(handled, Head(pending))
    /\ pending' = Tail(pending)
    /\ UNCHANGED open

Close ==
    /\ open' = FALSE
    /\ UNCHANGED <<pending, handled>>

Next == (\E m \in Message : Put(m)) \/ Take \/ Close

\* Safety alone, the part of the promise TLAPS can reach.
SafeSpec == Init /\ [][Next]_vars

\* A mailbox that stays open does not sit on a message.
Spec == SafeSpec /\ WF_vars(Take)
=============================================================================
