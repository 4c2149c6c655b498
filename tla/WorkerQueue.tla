---------------------------- MODULE WorkerQueue ----------------------------
(***************************************************************************)
(* The message pump of one worker (core/worker.cpp): the task queue queue_ *)
(* under mutex_, the message queue mq_ under its spin lock, and the worker *)
(* thread that pops tasks and drains messages.                             *)
(*                                                                         *)
(* Posting a message takes two critical sections: push_back on mq_, and,   *)
(* only when that push made the size 1, emplace_back of a drain task on    *)
(* queue_.  Draining takes two more, mq_.size() and mq_.swap(), and then   *)
(* handles the swapped messages with no lock held.  Every critical section *)
(* is one step here and everything between two of them can interleave.     *)
(*                                                                         *)
(* Data abstracted: a message is its sender and a per-sender number; an    *)
(* add, remove, start or stop task is a "command", of which all that       *)
(* matters here is that it may send messages and may set state_ to exited. *)
(***************************************************************************)
EXTENDS Integers, Sequences

CONSTANTS
    Senders,        \* other threads that send to this worker or post commands to it
    Main,           \* the thread of server::run, the only one that calls update()
    Self,           \* the worker's own thread
    MaxSend,        \* bound: messages one thread sends
    MaxCommands     \* bound: commands posted

ASSUME ThreadsAssumption ==
    /\ Main \notin Senders
    /\ Self \notin Senders
    /\ Main # Self

ASSUME BoundsAssumption == MaxSend \in Nat /\ MaxCommands \in Nat

Threads == Senders \cup {Main, Self}

Message == [from : Threads, n : 1..MaxSend]

Task == {"drain", "update", "command"}

VARIABLES
    queue_,         \* the task queue (std::deque<task_t>), guarded by mutex_
    mq_,            \* the message queue (concurrent_queue), guarded by its spin lock
    swapmq_,        \* the messages taken by the drain task and not yet handled
    update_state_,  \* the atomic flag that holds back update events
    state_,         \* "ready" until a command exits the worker
    pc,             \* where each sending thread is inside send() or update()
    wpc,            \* where the worker thread is in its loop or in its task
    sent,           \* history and bound: how many messages each thread has sent
    commands,       \* bound: commands posted so far
    handled         \* history: the messages passed to handle_one, in order

vars == <<queue_, mq_, swapmq_, update_state_, state_, pc, wpc, sent, commands, handled>>

Init ==
    /\ queue_ = <<>>
    /\ mq_ = <<>>
    /\ swapmq_ = <<>>
    /\ update_state_ = FALSE
    /\ state_ = "ready"
    /\ pc = [t \in Threads |-> "idle"]
    /\ wpc = "loop"
    /\ sent = [t \in Threads |-> 0]
    /\ commands = 0
    /\ handled = <<>>

-----------------------------------------------------------------------------
(* The threads that call into the worker. *)

\* The worker's own thread runs service code, and so may send, only inside a task.
MaySend(t) ==
    /\ pc[t] = "idle"
    /\ t = Self => wpc \in {"handling", "updating", "commanding"}

\* send(): mq_.push_back returns the new size under the spin lock.
SendPush(t) ==
    /\ MaySend(t)
    /\ sent[t] < MaxSend
    /\ sent' = [sent EXCEPT ![t] = @ + 1]
    /\ mq_' = Append(mq_, [from |-> t, n |-> sent[t] + 1])
    /\ pc' = [pc EXCEPT ![t] = IF Len(mq_) + 1 = 1 THEN "post_drain" ELSE "idle"]
    /\ UNCHANGED <<queue_, swapmq_, update_state_, state_, wpc, commands, handled>>

\* Faulty variant: the size is read again after the push, in a second critical section.
SendPostRereads(t) ==
    /\ pc[t] = "post_drain"
    /\ queue_' = IF Len(mq_) = 1 THEN Append(queue_, "drain") ELSE queue_
    /\ pc' = [pc EXCEPT ![t] = "idle"]
    /\ UNCHANGED <<mq_, swapmq_, update_state_, state_, wpc, sent, commands, handled>>

\* send(): the push that found the queue empty posts the drain task.
SendPost(t) ==
    /\ pc[t] = "post_drain"
    /\ queue_' = Append(queue_, "drain")
    /\ pc' = [pc EXCEPT ![t] = "idle"]
    /\ UNCHANGED <<mq_, swapmq_, update_state_, state_, wpc, sent, commands, handled>>

\* Faulty variant: update() does not look at the flag.
UpdateSet ==
    /\ pc[Main] = "idle"
    /\ Len(queue_) < 2
    /\ update_state_' = TRUE
    /\ pc' = [pc EXCEPT ![Main] = "post_update"]
    /\ UNCHANGED <<queue_, mq_, swapmq_, state_, wpc, sent, commands, handled>>

\* update(): test_and_set; the thread returns at once when the flag was set.
UpdateTestAndSet ==
    /\ pc[Main] = "idle"
    /\ ~update_state_
    /\ update_state_' = TRUE
    /\ pc' = [pc EXCEPT ![Main] = "post_update"]
    /\ UNCHANGED <<queue_, mq_, swapmq_, state_, wpc, sent, commands, handled>>

UpdatePost ==
    /\ pc[Main] = "post_update"
    /\ queue_' = Append(queue_, "update")
    /\ pc' = [pc EXCEPT ![Main] = "idle"]
    /\ UNCHANGED <<mq_, swapmq_, update_state_, state_, wpc, sent, commands, handled>>

\* add_service(), remove_service(), start() and stop() post one task each.
PostCommand(t) ==
    /\ MaySend(t)
    /\ commands < MaxCommands
    /\ commands' = commands + 1
    /\ queue_' = Append(queue_, "command")
    /\ UNCHANGED <<mq_, swapmq_, update_state_, state_, pc, wpc, sent, handled>>

-----------------------------------------------------------------------------
(* The worker thread. *)

\* No step of the worker while its own thread is inside send().
WorkerAt(l) == wpc = l /\ pc[Self] = "idle"

TaskEntry(task) ==
    CASE task = "drain"   -> "drain_size"
      [] task = "update"  -> "updating"
      [] task = "command" -> "commanding"

\* The loop: not exited and queue_ not empty, so pop the front task under mutex_.
\* An empty queue is a millisecond of sleep.
PopTask ==
    /\ WorkerAt("loop")
    /\ state_ # "exited"
    /\ queue_ # <<>>
    /\ wpc' = TaskEntry(Head(queue_))
    /\ queue_' = Tail(queue_)
    /\ UNCHANGED <<mq_, swapmq_, update_state_, state_, pc, sent, commands, handled>>

\* The loop: state_ is exited, so leave the loop with whatever is still queued.
LeaveLoop ==
    /\ WorkerAt("loop")
    /\ state_ = "exited"
    /\ wpc' = "stopped"
    /\ UNCHANGED <<queue_, mq_, swapmq_, update_state_, state_, pc, sent, commands, handled>>

\* The drain task: mq_.size() != 0, under the spin lock.
DrainSize ==
    /\ WorkerAt("drain_size")
    /\ wpc' = IF Len(mq_) # 0 THEN "drain_swap" ELSE "loop"
    /\ UNCHANGED <<queue_, mq_, swapmq_, update_state_, state_, pc, sent, commands, handled>>

\* Faulty variant: the swap comes before the clear.
DrainSwapThenClear ==
    /\ WorkerAt("drain_swap")
    /\ swapmq_' = <<>>
    /\ mq_' = <<>>
    /\ wpc' = "handling"
    /\ UNCHANGED <<queue_, update_state_, state_, pc, sent, commands, handled>>

\* The drain task: swapmq_.clear() and mq_.swap(swapmq_), under the spin lock.
DrainSwap ==
    /\ WorkerAt("drain_swap")
    /\ swapmq_' = mq_
    /\ mq_' = <<>>
    /\ wpc' = "handling"
    /\ UNCHANGED <<queue_, update_state_, state_, pc, sent, commands, handled>>

\* The drain task: handle_one for the next swapped message.
DrainHandle ==
    /\ WorkerAt("handling")
    /\ swapmq_ # <<>>
    /\ handled' = Append(handled, Head(swapmq_))
    /\ swapmq_' = Tail(swapmq_)
    /\ UNCHANGED <<queue_, mq_, update_state_, state_, pc, wpc, sent, commands>>

DrainDone ==
    /\ WorkerAt("handling")
    /\ swapmq_ = <<>>
    /\ wpc' = "loop"
    /\ UNCHANGED <<queue_, mq_, swapmq_, update_state_, state_, pc, sent, commands, handled>>

\* The update task: timer_.update() has run, then update_state_.clear().
UpdateDone ==
    /\ WorkerAt("updating")
    /\ update_state_' = FALSE
    /\ wpc' = "loop"
    /\ UNCHANGED <<queue_, mq_, swapmq_, state_, pc, sent, commands, handled>>

\* A command ends; a stop task on a worker without services, and the removal of
\* the last service of a stopping worker, exit the worker.
CommandDone ==
    /\ WorkerAt("commanding")
    /\ state_' \in {"ready", "exited"}
    /\ wpc' = "loop"
    /\ UNCHANGED <<queue_, mq_, swapmq_, update_state_, pc, sent, commands, handled>>

WorkerStep ==
    \/ PopTask \/ LeaveLoop
    \/ DrainSize \/ DrainSwap \/ DrainHandle \/ DrainDone
    \/ UpdateDone \/ CommandDone

-----------------------------------------------------------------------------

Next ==
    \/ \E t \in Senders \cup {Self} : SendPush(t) \/ SendPost(t) \/ PostCommand(t)
    \/ UpdateTestAndSet \/ UpdatePost
    \/ WorkerStep

\* The operating system keeps running the worker thread, and a thread that is
\* between its push and its post is not abandoned there.  Nothing makes a thread
\* send or makes server::run call update().
Fairness ==
    /\ WF_vars(WorkerStep)
    /\ \A t \in Senders \cup {Self} : WF_vars(SendPost(t))
    /\ WF_vars(UpdatePost)

SafeSpec == Init /\ [][Next]_vars

Spec == SafeSpec /\ Fairness

-----------------------------------------------------------------------------
(* Properties. *)

Program == {"idle", "post_drain", "post_update"}

WorkerProgram ==
    {"loop", "drain_size", "drain_swap", "handling", "updating", "commanding", "stopped"}

\* Every variable has the type its declaration in core/worker.h gives it.
TypeOK ==
    /\ queue_ \in Seq(Task)
    /\ mq_ \in Seq(Message)
    /\ swapmq_ \in Seq(Message)
    /\ update_state_ \in BOOLEAN
    /\ state_ \in {"ready", "exited"}
    /\ pc \in [Threads -> Program]
    /\ wpc \in WorkerProgram
    /\ sent \in [Threads -> 0..MaxSend]
    /\ commands \in 0..MaxCommands
    /\ handled \in Seq(Message)

Queued(task) == \E i \in 1..Len(queue_) : queue_[i] = task

\* No lost wake-up: whenever mq_ holds a message, a drain task is queued, or a
\* sender is about to queue one, or the worker is inside the drain task before its
\* swap.  (send() posts a task only for the push that returned 1.)
NoLostWakeup ==
    mq_ # <<>> =>
        \/ Queued("drain")
        \/ \E t \in Threads : pc[t] = "post_drain"
        \/ wpc \in {"drain_size", "drain_swap"}

\* "To prevent post too many update event": at most one update event exists at a
\* time, counting the one being posted and the one being run, and the flag is set
\* as long as it exists.
AtMostOneUpdate ==
    /\ \A i, j \in 1..Len(queue_) :
           queue_[i] = "update" /\ queue_[j] = "update" => i = j
    /\ ~(Queued("update") /\ pc[Main] = "post_update")
    /\ ~(Queued("update") /\ wpc = "updating")
    /\ ~(pc[Main] = "post_update" /\ wpc = "updating")
    /\ Queued("update") \/ pc[Main] = "post_update" \/ wpc = "updating" => update_state_

\* The pump implements the abstract mailbox: what the drain task has swapped out,
\* followed by what is in mq_, is the pending content of the mailbox.
MB == INSTANCE Mailbox WITH
          pending <- swapmq_ \o mq_,
          handled <- handled,
          open    <- state_ # "exited"

\* Every accepted message is handled, in order of acceptance, unless the worker
\* exits: the liveness of Mailbox included.
ImplementsMailbox == MB!Spec
=============================================================================
