------------------------------- MODULE Server -------------------------------
(***************************************************************************)
(* The whole life of the server process: main() of happy.cpp, server::init *)
(* run, stop, wait and the destructor (core/server.cpp), composed with the *)
(* router and the workers, the scripts that create and remove services or  *)
(* abort the server, and the console handler that stops it.                *)
(*                                                                         *)
(* The threads are main, one thread per worker, and the handler threads.   *)
(* server::stop() may be called by a handler at any time after the server  *)
(* object exists, by a script on a worker ("abort"), and by the destructor *)
(* on main.  It is an exchange of state_ followed by one post per worker,  *)
(* and main overwrites state_ in init(), run() and wait().                 *)
(*                                                                         *)
(* Data abstracted: a configured service is the thread it asks for; any    *)
(* script may fail to initialise.  The logger and the clock are left out.  *)
(***************************************************************************)
EXTENDS Router

CONSTANTS
    Config,         \* the threads the configured services ask for, 0 for any
    Handlers,       \* the threads that run the console handler, one event each
    Aborters,       \* the workers whose scripts call abort, once each
    MaxSpawn,       \* bound: services created by scripts
    MaxRemove,      \* bound: services removed by scripts
    MaxCalls        \* bound: both together

ASSUME ServerAssumption ==
    /\ Config \in Seq(Nat)
    /\ Handlers \cap (Workers \cup {0}) = {}
    /\ Aborters \subseteq Workers
    /\ MaxSpawn \in Nat
    /\ MaxRemove \in Nat
    /\ MaxCalls \in Nat

\* The thread that runs main().
MainThread == 0

\* The threads that may be inside server::stop().
Callers == Handlers \cup Workers \cup {MainThread}

VARIABLES
    pc,             \* where main() is
    k,              \* the worker or service main's current loop is at
    acc,            \* what main's current loop has added up
    spc,            \* where each caller of server::stop() is
    next,           \* the worker a caller of stop() posts to next
    last,           \* the last worker of its loop, fixed when the loop begins
    spawned,        \* bound: services scripts have asked for
    removed         \* bound: removals scripts have asked for

mainVars == <<pc, k, acc>>
stopVars == <<spc, next, last>>
scriptVars == <<spawned, removed>>
vars == <<server_state, workerVars, next_workerid_, mainVars, stopVars, scriptVars>>

Init ==
    /\ WorkerInit
    /\ RouterInit
    /\ server_state = "unknown"
    /\ pc = "emplace"
    /\ k = 1
    /\ acc = 0
    /\ spc = [t \in Callers |-> "idle"]
    /\ next = [t \in Callers |-> 0]
    /\ last = [t \in Callers |-> 0]
    /\ spawned = 0
    /\ removed = 0

-----------------------------------------------------------------------------
(* main() *)

Goto(l) == pc' = l /\ k' = 1 /\ acc' = 0

\* The next round of main's loop over 1..n at l, or the first of what follows.
LoopTo(n, l) == IF k < n THEN pc' = pc /\ k' = k + 1 /\ acc' = acc ELSE Goto(l)

\* server::init: workers_.emplace_back.
Emplace ==
    /\ pc = "emplace"
    /\ LoopTo(NW, "spawn_thread")
    /\ UNCHANGED <<server_state, workerVars, next_workerid_, stopVars, scriptVars>>

\* worker::init: thread_ = std::thread(...).
SpawnThread ==
    /\ pc = "spawn_thread"
    /\ thread_' = [thread_ EXCEPT ![k] = "started"]
    /\ pc' = "await_ready"
    /\ UNCHANGED <<server_state, worker_state, queue_, services_, count_, shared_,
                   update_state_, uuid_, wpc, adding, started, exiting, created,
                   next_workerid_, k, acc, stopVars, scriptVars>>

\* worker::init: spin until state_ is ready; nothing else ends the spin.
AwaitReady ==
    /\ pc = "await_ready"
    /\ worker_state[k] = "ready"
    /\ IF k < NW THEN pc' = "spawn_thread" /\ k' = k + 1 /\ UNCHANGED acc
                 ELSE Goto("store_init")
    /\ UNCHANGED <<server_state, workerVars, next_workerid_, stopVars, scriptVars>>

\* server::init: state_.store(init), over whatever a stop() has left there.
StoreInit ==
    /\ pc = "store_init"
    /\ server_state' = "init"
    /\ Goto(IF Config = <<>> THEN "check_state" ELSE "place")
    /\ UNCHANGED <<workerVars, next_workerid_, stopVars, scriptVars>>

\* main(): new_service for the next configured service.
Place ==
    /\ pc = "place"
    /\ \E ok \in BOOLEAN : new_service(Config[k], AddTask(k, ok))
    /\ LoopTo(Len(Config), "check_state")
    /\ UNCHANGED <<server_state, stopVars, scriptVars>>

\* main(): the first half of the condition of the waiting loop.
CheckState ==
    /\ pc = "check_state"
    /\ Goto(IF server_state = "init" THEN "count" ELSE "store_ready")
    /\ UNCHANGED <<server_state, workerVars, next_workerid_, stopVars, scriptVars>>

\* Faulty variant: main waits for one service more than there are.
CountOneMore ==
    /\ pc = "count"
    /\ IF k < NW
       THEN pc' = pc /\ k' = k + 1 /\ acc' = acc + count_[k]
       ELSE Goto(IF acc + count_[k] <= Len(Config) THEN "check_state" ELSE "store_ready")
    /\ UNCHANGED <<server_state, workerVars, next_workerid_, stopVars, scriptVars>>

\* Faulty variant: main waits for one service less than there are.
CountOneLess ==
    /\ pc = "count"
    /\ IF k < NW
       THEN pc' = pc /\ k' = k + 1 /\ acc' = acc + count_[k]
       ELSE Goto(IF acc + count_[k] < Len(Config) - 1 THEN "check_state" ELSE "store_ready")
    /\ UNCHANGED <<server_state, workerVars, next_workerid_, stopVars, scriptVars>>

\* main(): the second half; service_count() reads one counter after the other.
Count ==
    /\ pc = "count"
    /\ IF k < NW
       THEN pc' = pc /\ k' = k + 1 /\ acc' = acc + count_[k]
       ELSE Goto(IF acc + count_[k] < Len(Config) THEN "check_state" ELSE "store_ready")
    /\ UNCHANGED <<server_state, workerVars, next_workerid_, stopVars, scriptVars>>

\* server::run: state_.store(ready), over whatever a stop() has left there.
StoreReady ==
    /\ pc = "store_ready"
    /\ server_state' = "ready"
    /\ Goto("start")
    /\ UNCHANGED <<workerVars, next_workerid_, stopVars, scriptVars>>

\* server::run: worker->start().
PostStart ==
    /\ pc = "start"
    /\ Post(k, SimpleTask("start"))
    /\ LoopTo(NW, "scan")
    /\ UNCHANGED <<server_state, worker_state, thread_, services_, count_, shared_,
                   update_state_, uuid_, wpc, adding, started, exiting, created,
                   next_workerid_, stopVars, scriptVars>>

\* server::run: stoped() and update() of one worker.  A pass over all the workers
\* that found each of them stopped ends the loop.
Scan ==
    /\ pc = "scan"
    /\ LET stoped == acc + (IF worker_state[k] = "exited" THEN 1 ELSE 0)
       IN  CASE k < NW      -> pc' = pc /\ k' = k + 1 /\ acc' = stoped
             [] stoped = NW -> pc' = "join" /\ k' = NW /\ acc' = 0
             [] OTHER       -> Goto("scan")
    /\ IF update_state_[k] THEN UNCHANGED <<queue_, update_state_>>
       ELSE /\ update_state_' = [update_state_ EXCEPT ![k] = TRUE]
            /\ Post(k, SimpleTask("update"))
    /\ UNCHANGED <<server_state, worker_state, thread_, services_, count_, shared_, uuid_,
                   wpc, adding, started, exiting, created, next_workerid_, stopVars,
                   scriptVars>>

\* server::wait: join the threads, last worker first.
Join ==
    /\ pc = "join"
    /\ thread_[k] = "ended"
    /\ IF k > 1 THEN pc' = pc /\ k' = k - 1 /\ acc' = acc ELSE Goto("store_exited")
    /\ UNCHANGED <<server_state, workerVars, next_workerid_, stopVars, scriptVars>>

\* server::wait: state_.store(exited), and run() returns.
StoreExited ==
    /\ pc = "store_exited"
    /\ server_state' = "exited"
    /\ Goto("release")
    /\ UNCHANGED <<workerVars, next_workerid_, stopVars, scriptVars>>

\* A handler holds the server from wk_server.lock() until it returns.
Holds(t) == t \in Handlers /\ spc[t] \notin {"idle", "returned"}

\* Faulty variant: handlers keep a bare pointer.
ReleaseAlways ==
    /\ pc = "release"
    /\ Goto("dtor_stop")
    /\ spc' = [spc EXCEPT ![MainThread] = "stop"]
    /\ UNCHANGED <<server_state, workerVars, next_workerid_, next, last, scriptVars>>

\* main() returns and drops its reference.  Without a handler that still holds one,
\* the destructor runs, beginning with stop(); otherwise the process ends around it.
Release ==
    /\ pc = "release"
    /\ IF \E t \in Handlers : Holds(t)
       THEN Goto("abandoned") /\ UNCHANGED spc
       ELSE Goto("dtor_stop") /\ spc' = [spc EXCEPT ![MainThread] = "stop"]
    /\ UNCHANGED <<server_state, workerVars, next_workerid_, next, last, scriptVars>>

\* The destructor: wait() has nothing left to join; state_.store(exited).
DtorWait ==
    /\ pc = "dtor_stop"
    /\ spc[MainThread] = "returned"
    /\ server_state' = "exited"
    /\ Goto("destroyed")
    /\ UNCHANGED <<workerVars, next_workerid_, stopVars, scriptVars>>

MainStep ==
    \/ Emplace \/ SpawnThread \/ AwaitReady \/ StoreInit
    \/ Place \/ CheckState \/ Count
    \/ StoreReady \/ PostStart \/ Scan
    \/ Join \/ StoreExited \/ Release \/ DtorWait

-----------------------------------------------------------------------------
(* server::stop() *)

\* The size of workers_ while main may still be filling it.
Emplaced == IF pc = "emplace" THEN k - 1 ELSE NW

\* Faulty variant: a ready server is left alone too.
StopExchangeReady(t) ==
    /\ spc[t] = "stop"
    /\ server_state' = "stopping"
    /\ IF server_state \in {"ready", "stopping", "exited"} \/ Emplaced = 0
       THEN spc' = [spc EXCEPT ![t] = "stopped"] /\ UNCHANGED <<next, last>>
       ELSE /\ spc' = [spc EXCEPT ![t] = "posting"]
            /\ next' = [next EXCEPT ![t] = 1]
            /\ last' = [last EXCEPT ![t] = Emplaced]
    /\ UNCHANGED <<workerVars, next_workerid_, mainVars, scriptVars>>

\* state_.exchange(stopping); a server past ready is left alone, except that its
\* state_ is stopping now.
StopExchange(t) ==
    /\ spc[t] = "stop"
    /\ server_state' = "stopping"
    /\ IF server_state \in {"stopping", "exited"} \/ Emplaced = 0
       THEN spc' = [spc EXCEPT ![t] = "stopped"] /\ UNCHANGED <<next, last>>
       ELSE /\ spc' = [spc EXCEPT ![t] = "posting"]
            /\ next' = [next EXCEPT ![t] = 1]
            /\ last' = [last EXCEPT ![t] = Emplaced]
    /\ UNCHANGED <<workerVars, next_workerid_, mainVars, scriptVars>>

\* worker->stop() of the next worker.
StopPost(t) ==
    /\ spc[t] = "posting"
    /\ Post(next[t], SimpleTask("stop"))
    /\ IF next[t] < last[t]
       THEN next' = [next EXCEPT ![t] = @ + 1] /\ UNCHANGED <<spc, last>>
       ELSE /\ spc' = [spc EXCEPT ![t] = "stopped"]
            /\ next' = [next EXCEPT ![t] = 0]
            /\ last' = [last EXCEPT ![t] = 0]
    /\ UNCHANGED <<server_state, worker_state, thread_, services_, count_, shared_,
                   update_state_, uuid_, wpc, adding, started, exiting, created,
                   next_workerid_, mainVars, scriptVars>>

\* The caller goes on after stop().  A handler of the closing of the console stays
\* until the server has exited, one of Ctrl-C returns at once, as does anyone else.
StopReturn(t) ==
    /\ spc[t] = "stopped"
    /\ \/ spc' = [spc EXCEPT ![t] = "returned"]
       \/ t \in Handlers /\ spc' = [spc EXCEPT ![t] = "closing"]
    /\ UNCHANGED <<server_state, workerVars, next_workerid_, mainVars, next, last, scriptVars>>

CloseReturn(t) ==
    /\ spc[t] = "closing"
    /\ server_state = "exited"
    /\ spc' = [spc EXCEPT ![t] = "returned"]
    /\ UNCHANGED <<server_state, workerVars, next_workerid_, mainVars, next, last, scriptVars>>

StopStep(t) == StopExchange(t) \/ StopPost(t) \/ StopReturn(t) \/ CloseReturn(t)

\* A console event arrives while the server object exists: wk_server.lock().
ConsoleEvent(t) ==
    /\ spc[t] = "idle"
    /\ pc \notin {"dtor_stop", "destroyed", "abandoned"}
    /\ spc' = [spc EXCEPT ![t] = "stop"]
    /\ UNCHANGED <<server_state, workerVars, next_workerid_, mainVars, next, last, scriptVars>>

-----------------------------------------------------------------------------
(* Scripts, which run on the worker thread inside a task. *)

\* The worker's thread is not inside server::stop().
Free(w) == spc[w] \in {"idle", "returned"}

\* The init script of a new service, or a callback of one of the services.
ScriptRuns(w) ==
    /\ thread_[w] = "looping"
    /\ Free(w)
    /\ wpc[w] = "init" \/ (wpc[w] = "loop" /\ services_[w] # {})

\* "new_service", on worker v or, when v is 0, anywhere; it may fail to initialise.
ScriptSpawn(w, v, ok) ==
    /\ ScriptRuns(w)
    /\ spawned < MaxSpawn /\ spawned + removed < MaxCalls
    /\ spawned' = spawned + 1
    /\ new_service(v, AddTask(0, ok))
    /\ UNCHANGED <<server_state, mainVars, stopVars, removed>>

\* "remove_service" of any service id, one that does not exist included.
ScriptRemove(w, v, id) ==
    /\ ScriptRuns(w)
    /\ removed < MaxRemove /\ spawned + removed < MaxCalls
    /\ removed' = removed + 1
    /\ remove_service(v, id)
    /\ UNCHANGED <<server_state, exiting, mainVars, stopVars, spawned>>

\* A service that was told to exit gets around to removing itself.
ScriptQuit(w, id) ==
    /\ ScriptRuns(w)
    /\ id \in exiting[w]
    /\ exiting' = [exiting EXCEPT ![w] = @ \ {id}]
    /\ remove_service(w, id)
    /\ UNCHANGED <<server_state, mainVars, stopVars, scriptVars>>

\* "abort".
ScriptAbort(w) ==
    /\ w \in Aborters
    /\ ScriptRuns(w)
    /\ spc[w] = "idle"
    /\ spc' = [spc EXCEPT ![w] = "stop"]
    /\ UNCHANGED <<server_state, workerVars, next_workerid_, mainVars, next, last, scriptVars>>

-----------------------------------------------------------------------------

\* A step of the worker's own loop.
RunWorker(w) ==
    /\ Free(w)
    /\ WorkerStep(w)
    /\ UNCHANGED <<server_state, next_workerid_, mainVars, stopVars, scriptVars>>

Next ==
    \/ MainStep
    \/ \E w \in Workers :
           \/ RunWorker(w)
           \/ \E v \in 0..NW, ok \in BOOLEAN : ScriptSpawn(w, v, ok)
           \/ \E v \in Workers, id \in Uuid : ScriptRemove(w, v, id)
           \/ \E id \in Uuid : ScriptQuit(w, id)
           \/ ScriptAbort(w)
    \/ \E t \in Handlers : ConsoleEvent(t)
    \/ \E t \in Callers : StopStep(t)

\* The operating system runs every thread: main, the workers (which run their loop,
\* or are inside stop()) and the handlers.  A service that was told to exit does
\* remove itself.  No event, abort, spawn or removal has to happen.
Fairness ==
    /\ WF_vars(MainStep \/ StopStep(MainThread))
    /\ \A w \in Workers :
           /\ WF_vars(RunWorker(w) \/ StopStep(w))
           /\ WF_vars(\E id \in Uuid : ScriptQuit(w, id))
    /\ \A t \in Handlers : WF_vars(StopStep(t))

SafeSpec == Init /\ [][Next]_vars

Spec == SafeSpec /\ Fairness

-----------------------------------------------------------------------------
(* Properties. *)

State == {"unknown", "init", "ready", "stopping", "exited"}

Phase ==
    {"emplace", "spawn_thread", "await_ready", "store_init", "place", "check_state",
     "count", "store_ready", "start", "scan", "join", "store_exited", "release",
     "dtor_stop", "destroyed", "abandoned"}

\* Every variable has its type.
TypeOK ==
    /\ server_state \in State
    /\ worker_state \in [Workers -> State]
    /\ thread_ \in [Workers -> {"none", "started", "looping", "ended"}]
    /\ queue_ \in [Workers -> Seq(Task)]
    /\ services_ \in [Workers -> SUBSET Uuid]
    /\ count_ \in [Workers -> Int]
    /\ shared_ \in [Workers -> BOOLEAN]
    /\ update_state_ \in [Workers -> BOOLEAN]
    /\ uuid_ \in [Workers -> Nat]
    /\ wpc \in [Workers -> {"loop", "init", "add_start"}]
    /\ adding \in [Workers -> Adding]
    /\ started \in [Workers -> SUBSET Uuid]
    /\ exiting \in [Workers -> SUBSET Uuid]
    /\ created \subseteq Nat
    /\ next_workerid_ \in Nat
    /\ pc \in Phase
    /\ k \in Nat \ {0}
    /\ acc \in Int
    /\ spc \in [Callers -> {"idle", "stop", "posting", "stopped", "closing", "returned"}]
    /\ next \in [Callers -> Nat]
    /\ last \in [Callers -> Nat]
    /\ spawned \in 0..MaxSpawn
    /\ removed \in 0..MaxRemove

HasTask(w, task) == \E i \in 1..Len(queue_[w]) : queue_[w][i] = task

\* A worker exits only without services, and a stopping worker, which accepts no new
\* service, still has one: otherwise no removal would ever move it to exited.
ExitOnlyWhenEmpty ==
    \A w \in Workers :
        /\ worker_state[w] = "exited" => services_[w] = {} /\ wpc[w] = "loop"
        /\ worker_state[w] = "stopping" => services_[w] # {} /\ wpc[w] = "loop"

\* Every service of a stopping worker is on its way out: its removal is queued, or its
\* script was told to exit and has not yet asked for the removal.
StoppingServicesLeave ==
    \A w \in Workers :
        worker_state[w] = "stopping" =>
            \A id \in services_[w] : id \in exiting[w] \/ HasTask(w, RemoveTask(id))

\* main has posted the start task of worker w.
StartPosted(w) ==
    \/ pc = "start" /\ w < k
    \/ pc \in {"scan", "join", "store_exited", "release", "dtor_stop", "destroyed", "abandoned"}

\* No service is left without its start(): a service that add_service saw too early
\* to start is started by a start task that is still to come.
NoServiceLeftUnstarted ==
    \A w \in Workers : \A id \in services_[w] :
        \/ id \in started[w]
        \/ ~StartPosted(w)
        \/ HasTask(w, SimpleTask("start"))
        \/ wpc[w] = "add_start" /\ adding[w].id = id

\* A worker without services and without a service to come is open to round robin:
\* reserving it for a service that then fails, or leaves, does not lose it.
EmptyWorkerIsShared ==
    \A w \in Workers :
        /\ services_[w] = {}
        /\ wpc[w] = "loop"
        /\ worker_state[w] # "exited"
        /\ \A i \in 1..Len(queue_[w]) : queue_[w][i].op # "add"
        => shared_[w]

\* service_count() counts what the tables hold.
CountIsTable == \A w \in Workers : count_[w] = Cardinality(services_[w])

\* Nobody is inside stop() and no worker thread runs once the server is destroyed.
NoUseAfterDestroy ==
    pc = "destroyed" =>
        /\ \A t \in Callers : spc[t] \in {"idle", "returned"}
        /\ \A w \in Workers : thread_[w] = "ended"

\* A worker creates a service under a number another one has only when its numbers
\* are used up, or one short of it: the counter's wrap at UintRange can hide one.
FreshNumber ==
    \A w \in Workers :
        wpc[w] = "init" /\ Cardinality(services_[w]) < max_uuid - 1 =>
            adding[w].id \notin services_[w]

Stopped == \E t \in Callers : spc[t] # "idle"

\* "wait all configured service is created" (happy.cpp): unless somebody stops the
\* server, run() begins after the creation of every configured service.  It is true of
\* init scripts that create no services themselves (MaxSpawn = 0): service_count()
\* counts those too.
AllCreatedBeforeRun ==
    pc = "start" /\ ~Stopped => \A i \in 1..Len(Config) : i \in created

\* main is past server::init.
Initialised == pc \notin {"emplace", "spawn_thread", "await_ready", "store_init"}

\* A stop() of the initialised server brings it down, however often state_ is then
\* overwritten and whatever else is queued: main returns with all the workers exited.
StopTerminates ==
    (Initialised /\ \E t \in Callers : spc[t] = "stop") ~> (pc \in {"destroyed", "abandoned"})

\* The init script of a configured service fails.
Failing(w) == wpc[w] = "init" /\ adding[w].cfg # 0 /\ ~adding[w].ok

\* Nothing but a stop, and a configured service that fails, keeps a server from
\* starting up: main does not wait for ever in init() or for the services.
StartupCompletes ==
    [](~Stopped /\ \A w \in Workers : ~Failing(w)) => <>(pc = "scan")

\* "wait for thread is created" (worker.cpp): worker::init comes back once the thread
\* of the worker runs.
WorkerInitReturns == (pc = "await_ready" /\ thread_[k] # "started") ~> (pc # "await_ready")
=============================================================================
