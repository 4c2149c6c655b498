------------------------------- MODULE Worker -------------------------------
(***************************************************************************)
(* The workers of the server (core/worker.cpp): each has a lifecycle       *)
(* state, a table of services and a queue of tasks that other threads post *)
(* and its own thread runs in order.                                       *)
(*                                                                         *)
(* A task is one step where nothing outside the worker's thread can see it *)
(* half done.  add_service is the exception: the script of the new service *)
(* runs in the middle of it, count_ is published before server_->get_state *)
(* is read, and so the task is three steps (AddBegin, AddFinish, AddStart).*)
(*                                                                         *)
(* Data abstracted: a service is the number that uuid() gave it; messages  *)
(* are left out, because delivering one only runs a callback of a script,  *)
(* and Server lets scripts act whenever their service is alive.  How mq_   *)
(* and queue_ pass messages and tasks is the subject of WorkerQueue.       *)
(***************************************************************************)
EXTENDS Integers, Sequences, FiniteSets

CONSTANTS
    NW,             \* the number of workers (worker_num)
    max_uuid,       \* service numbers are 1..max_uuid (65535 in the code)
    UintRange       \* uuid_ counts modulo UintRange (2^32 in the code, a uint32_t)

ASSUME WorkerAssumption ==
    /\ NW \in Nat \ {0}
    /\ max_uuid \in Nat \ {0}
    /\ UintRange \in Nat \ {0}

\* 2^32 % 65535 is 1: counting modulo UintRange misses at most one number.
ASSUME NumbersAssumption ==
    /\ UintRange >= max_uuid
    /\ UintRange % max_uuid \in {0, 1}

Workers == 1..NW

Uuid == 1..max_uuid

\* The tasks posted to queue_.  An add carries whether the script will initialise
\* and the configuration entry it creates (0 when a script asked for it); a remove
\* carries the number of the service.
Task == [op : {"add", "remove", "start", "stop", "update"}, arg : Nat, ok : BOOLEAN]

\* The service an add_service task is creating.
Adding == [id : Nat, cfg : Nat, ok : BOOLEAN]

AddTask(cfg, ok) == [op |-> "add", arg |-> cfg, ok |-> ok]

RemoveTask(id) == [op |-> "remove", arg |-> id, ok |-> TRUE]

SimpleTask(op) == [op |-> op, arg |-> 0, ok |-> TRUE]

VARIABLES
    server_state,   \* server::state_, which a worker reads through get_state()
    worker_state,   \* worker::state_ of each worker
    thread_,        \* the worker's std::thread: none, started, looping, ended
    queue_,         \* the tasks posted and not yet popped
    services_,      \* the numbers of the services in the table
    count_,         \* the atomic counter service_count() adds up
    shared_,        \* whether next_worker() may choose this worker
    update_state_,  \* whether an update event is outstanding
    uuid_,          \* the allocation counter
    wpc,            \* "loop", or where the worker is in an add_service task
    adding,         \* the service the running add_service task is creating
    started,        \* the services whose start() has run (service::start_)
    exiting,        \* services told to exit() whose script has not called remove_service yet
    created         \* history: the configuration entries whose service was created

NoService == [id |-> 0, cfg |-> 0, ok |-> FALSE]

workerVars == <<worker_state, thread_, queue_, services_, count_, shared_, update_state_,
                uuid_, wpc, adding, started, exiting, created>>

WorkerInit ==
    /\ worker_state = [w \in Workers |-> "init"]
    /\ thread_ = [w \in Workers |-> "none"]
    /\ queue_ = [w \in Workers |-> <<>>]
    /\ services_ = [w \in Workers |-> {}]
    /\ count_ = [w \in Workers |-> 0]
    /\ shared_ = [w \in Workers |-> TRUE]
    /\ update_state_ = [w \in Workers |-> FALSE]
    /\ uuid_ = [w \in Workers |-> 0]
    /\ wpc = [w \in Workers |-> "loop"]
    /\ adding = [w \in Workers |-> NoService]
    /\ started = [w \in Workers |-> {}]
    /\ exiting = [w \in Workers |-> {}]
    /\ created = {}

-----------------------------------------------------------------------------
(* Posting: every public operation locks mutex_ and appends one task. *)

Post(w, task) == queue_' = [queue_ EXCEPT ![w] = Append(@, task)]

-----------------------------------------------------------------------------
(* uuid() *)

\* The number the i-th call from now returns.
Candidate(w, i) == (((uuid_[w] + i - 1) % UintRange) % max_uuid) + 1

\* Faulty variant: the number is not compared with the table.
TriesOnce(w, n) == n = 1

\* add_service calls uuid() n times: until the number is free, at most max_uuid times.
Tries(w, n) ==
    /\ \A i \in 1..(n - 1) : Candidate(w, i) \in services_[w]
    /\ n = max_uuid \/ Candidate(w, n) \notin services_[w]

-----------------------------------------------------------------------------
(* The worker thread. *)

\* The thread function: state_.store(ready), then the loop.
ThreadStart(w) ==
    /\ thread_[w] = "started"
    /\ thread_' = [thread_ EXCEPT ![w] = "looping"]
    /\ worker_state' = [worker_state EXCEPT ![w] = "ready"]
    /\ UNCHANGED <<queue_, services_, count_, shared_, update_state_, uuid_, wpc, adding,
                   started, exiting, created>>

\* The loop: state_ is exited.  Tasks still queued are never run.
ThreadEnd(w) ==
    /\ thread_[w] = "looping"
    /\ wpc[w] = "loop"
    /\ worker_state[w] = "exited"
    /\ thread_' = [thread_ EXCEPT ![w] = "ended"]
    /\ UNCHANGED <<worker_state, queue_, services_, count_, shared_, update_state_, uuid_,
                   wpc, adding, started, exiting, created>>

\* The loop is about to run a task of kind op.
Pops(w, op) ==
    /\ thread_[w] = "looping"
    /\ wpc[w] = "loop"
    /\ worker_state[w] # "exited"
    /\ queue_[w] # <<>>
    /\ Head(queue_[w]).op = op

Popped(w) == queue_' = [queue_ EXCEPT ![w] = Tail(@)]

\* add_service, outside ready: break, shared(services_.empty()), answer 0.
AddRefused(w) ==
    /\ Pops(w, "add")
    /\ worker_state[w] # "ready"
    /\ Popped(w)
    /\ shared_' = [shared_ EXCEPT ![w] = services_[w] = {}]
    /\ UNCHANGED <<worker_state, thread_, services_, count_, update_state_, uuid_, wpc,
                   adding, started, exiting, created>>

\* Faulty variant: a stopping worker still accepts services.
AddBeginStopping(w) ==
    /\ Pops(w, "add")
    /\ Popped(w)
    /\ wpc' = [wpc EXCEPT ![w] = "init"]
    /\ \E n \in 1..max_uuid :
           /\ Tries(w, n)
           /\ uuid_' = [uuid_ EXCEPT ![w] = (@ + n) % UintRange]
           /\ adding' = [adding EXCEPT ![w] = [id |-> Candidate(w, n),
                                               cfg |-> Head(queue_[w]).arg,
                                               ok |-> Head(queue_[w]).ok]]
    /\ UNCHANGED <<worker_state, thread_, services_, count_, shared_, update_state_,
                   started, exiting, created>>

\* add_service: take a number and begin s->init(config), which runs the script.
\* When all numbers are taken the code reports it and goes on with the last one.
AddBegin(w) ==
    /\ Pops(w, "add")
    /\ worker_state[w] = "ready"
    /\ Popped(w)
    /\ wpc' = [wpc EXCEPT ![w] = "init"]
    /\ \E n \in 1..max_uuid :
           /\ Tries(w, n)
           /\ uuid_' = [uuid_ EXCEPT ![w] = (@ + n) % UintRange]
           /\ adding' = [adding EXCEPT ![w] = [id |-> Candidate(w, n),
                                               cfg |-> Head(queue_[w]).arg,
                                               ok |-> Head(queue_[w]).ok]]
    /\ UNCHANGED <<worker_state, thread_, services_, count_, shared_, update_state_,
                   started, exiting, created>>

\* Faulty variant: a failure does not give the worker back to round robin.
AddFailedUnshared(w) ==
    /\ wpc[w] = "init"
    /\ ~adding[w].ok \/ adding[w].id \in services_[w]
    /\ wpc' = [wpc EXCEPT ![w] = "loop"]
    /\ adding' = [adding EXCEPT ![w] = NoService]
    /\ UNCHANGED <<worker_state, thread_, queue_, services_, count_, shared_,
                   update_state_, uuid_, started, exiting, created>>

\* add_service: init failed, or emplace found the number taken.
AddFailed(w) ==
    /\ wpc[w] = "init"
    /\ ~adding[w].ok \/ adding[w].id \in services_[w]
    /\ shared_' = [shared_ EXCEPT ![w] = services_[w] = {}]
    /\ wpc' = [wpc EXCEPT ![w] = "loop"]
    /\ adding' = [adding EXCEPT ![w] = NoService]
    /\ UNCHANGED <<worker_state, thread_, queue_, services_, count_, update_state_, uuid_,
                   started, exiting, created>>

\* add_service: emplace and count_.fetch_add.
AddFinish(w) ==
    /\ wpc[w] = "init"
    /\ adding[w].ok
    /\ adding[w].id \notin services_[w]
    /\ services_' = [services_ EXCEPT ![w] = @ \cup {adding[w].id}]
    /\ count_' = [count_ EXCEPT ![w] = @ + 1]
    /\ created' = created \cup {adding[w].cfg}
    /\ wpc' = [wpc EXCEPT ![w] = "add_start"]
    /\ UNCHANGED <<worker_state, thread_, queue_, shared_, update_state_, uuid_, adding,
                   started, exiting>>

\* Faulty variant: only a ready server starts a late service.
AddStartReady(w) ==
    /\ wpc[w] = "add_start"
    /\ started' = IF server_state = "ready"
                  THEN [started EXCEPT ![w] = @ \cup {adding[w].id}]
                  ELSE started
    /\ wpc' = [wpc EXCEPT ![w] = "loop"]
    /\ adding' = [adding EXCEPT ![w] = NoService]
    /\ UNCHANGED <<worker_state, thread_, queue_, services_, count_, shared_,
                   update_state_, uuid_, exiting, created>>

\* add_service: start the service here unless server::run has not begun.
AddStart(w) ==
    /\ wpc[w] = "add_start"
    /\ started' = IF server_state # "init"
                  THEN [started EXCEPT ![w] = @ \cup {adding[w].id}]
                  ELSE started
    /\ wpc' = [wpc EXCEPT ![w] = "loop"]
    /\ adding' = [adding EXCEPT ![w] = NoService]
    /\ UNCHANGED <<worker_state, thread_, queue_, services_, count_, shared_,
                   update_state_, uuid_, exiting, created>>

\* start(): start() of every service; lua_service::start ignores a second call.
RunStart(w) ==
    /\ Pops(w, "start")
    /\ Popped(w)
    /\ started' = [started EXCEPT ![w] = services_[w]]
    /\ UNCHANGED <<worker_state, thread_, services_, count_, shared_, update_state_, uuid_,
                   wpc, adding, exiting, created>>

\* update(): timer_.update() and update_state_.clear().
RunUpdate(w) ==
    /\ Pops(w, "update")
    /\ Popped(w)
    /\ update_state_' = [update_state_ EXCEPT ![w] = FALSE]
    /\ UNCHANGED <<worker_state, thread_, services_, count_, shared_, uuid_, wpc, adding,
                   started, exiting, created>>

\* stop() when the worker is already stopping, or has nothing to stop.
RunStopEmpty(w) ==
    /\ Pops(w, "stop")
    /\ Popped(w)
    /\ worker_state[w] = "stopping" \/ services_[w] = {}
    /\ worker_state' = IF worker_state[w] = "stopping" THEN worker_state
                       ELSE [worker_state EXCEPT ![w] = "exited"]
    /\ UNCHANGED <<thread_, services_, count_, shared_, update_state_, uuid_, wpc, adding,
                   started, exiting, created>>

\* The orders in which an unordered_map can visit the services of S.
Orders(S) ==
    {f \in [1..Cardinality(S) -> S] : \A s \in S : \E i \in 1..Cardinality(S) : f[i] = s}

\* stop(): exit() of every service.  A service without an exit callback, or whose
\* callback says so, quits at once, which posts its removal to this very queue; the
\* others are left to call remove_service from a later callback.
RunStop(w) ==
    /\ Pops(w, "stop")
    /\ worker_state[w] # "stopping"
    /\ services_[w] # {}
    /\ worker_state' = [worker_state EXCEPT ![w] = "stopping"]
    /\ \E quits \in SUBSET services_[w] :
           /\ \E order \in Orders(quits) :
                  queue_' = [queue_ EXCEPT ![w] =
                      Tail(@) \o [i \in 1..Cardinality(quits) |-> RemoveTask(order[i])]]
           /\ exiting' = [exiting EXCEPT ![w] = services_[w] \ quits]
    /\ UNCHANGED <<thread_, services_, count_, shared_, update_state_, uuid_, wpc, adding,
                   started, created>>

\* remove_service: the service is not in the table (any more).
RemoveMissing(w) ==
    /\ Pops(w, "remove")
    /\ Head(queue_[w]).arg \notin services_[w]
    /\ Popped(w)
    /\ worker_state' = IF services_[w] = {} /\ worker_state[w] = "stopping"
                       THEN [worker_state EXCEPT ![w] = "exited"]
                       ELSE worker_state
    /\ UNCHANGED <<thread_, services_, count_, shared_, update_state_, uuid_, wpc, adding,
                   started, exiting, created>>

\* Faulty variant: whether the table is empty is asked before the erase.
RemoveFoundEarlyTest(w) ==
    LET id   == Head(queue_[w]).arg
        left == services_[w] \ {id}
    IN  /\ Pops(w, "remove")
        /\ id \in services_[w]
        /\ Popped(w)
        /\ count_' = [count_ EXCEPT ![w] = @ - 1]
        /\ services_' = [services_ EXCEPT ![w] = left]
        /\ started' = [started EXCEPT ![w] = @ \ {id}]
        /\ exiting' = [exiting EXCEPT ![w] = @ \ {id}]
        /\ UNCHANGED <<worker_state, shared_, thread_, update_state_, uuid_, wpc, adding,
                       created>>

\* remove_service: destroy() and erase; an emptied worker becomes shared again, and
\* exits when it was stopping.
RemoveFound(w) ==
    LET id   == Head(queue_[w]).arg
        left == services_[w] \ {id}
    IN  /\ Pops(w, "remove")
        /\ id \in services_[w]
        /\ Popped(w)
        /\ count_' = [count_ EXCEPT ![w] = @ - 1]
        /\ services_' = [services_ EXCEPT ![w] = left]
        /\ started' = [started EXCEPT ![w] = @ \ {id}]
        /\ exiting' = [exiting EXCEPT ![w] = @ \ {id}]
        /\ shared_' = IF left = {} THEN [shared_ EXCEPT ![w] = TRUE] ELSE shared_
        /\ worker_state' = IF left = {} /\ worker_state[w] = "stopping"
                           THEN [worker_state EXCEPT ![w] = "exited"]
                           ELSE worker_state
        /\ UNCHANGED <<thread_, update_state_, uuid_, wpc, adding, created>>

WorkerStep(w) ==
    \/ ThreadStart(w) \/ ThreadEnd(w)
    \/ AddRefused(w) \/ AddBegin(w) \/ AddFailed(w) \/ AddFinish(w) \/ AddStart(w)
    \/ RunStart(w) \/ RunUpdate(w) \/ RunStopEmpty(w) \/ RunStop(w)
    \/ RemoveMissing(w) \/ RemoveFound(w)
=============================================================================
