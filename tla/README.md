# NewHappyServer: a TLA+ verification project

NewHappyServer is an actor-style server: a process with a few worker threads, each of
which runs many *services* (Lua scripts) that talk to each other by messages. The C++
code under `src/` hands messages, tasks and timers to the services; the scripts are
written by its users. This directory holds TLA+ models of the C++ code, the
configurations that model-check them with TLC, and proofs checked by TLAPS.

Modules are written for three purposes: a module per component (`WorkerQueue`,
`Worker`, ...), `MC*` modules with `.cfg` files for TLC, and `*Proofs` modules.
`PROJECT.json` lists the runs, the source lines of every definition, a faulty variant
of the code for each property that is checked, the hazards, and the theorems.

## 1. The system

### Components

| Component | State | Operations | Hard behaviour |
|---|---|---|---|
| Server, `main` (`core/server.cpp`, `happy.cpp`) | `state_` (unknown, init, ready, stopping, exited), `workers_` | `init`, `run`, `stop`, `wait`, destructor; console handler; waiting for the configured services | `stop()` from a console thread, from a script or from main, at any time; main overwrites `state_` meanwhile |
| Worker (`core/worker.cpp`) | `state_`, service table, `count_`, `uuid_`, `shared_`, task queue | tasks: add, remove, start, stop, update; the thread's loop | a task publishes `count_` and then reads the server's state; scripts run inside tasks; exit when the last service leaves |
| Message pump (`worker::send`, `concurrent_queue`) | `queue_`, `mq_`, `swapmq_`, `update_state_` | push a message, post the drain task, swap and handle, post updates | two critical sections per message and two queues |
| Router (`core/router.cpp`) | `next_workerid_`, the environment, unique names | place a service, remove one, `send`, `broadcast`, `response` | reads the workers' flags without a lock |
| Services (`core/service.hpp`, `services/lua_service.cpp`) | the script, callbacks, memory used and its limit | `init`, `start`, `dispatch`, `exit`, `quit`, `destroy`, `lalloc` | errors are answered by the runtime; callbacks redirect and resend messages; services remove each other; `init` fails half way |
| Timers (`common/timer.hpp`, `core/worker_timer.hpp`) | four wheels of slots with heads, table of timers | `repeat`, `remove`, `update` | callbacks change the wheels inside a tick; cascades; overflow |
| Shared maps (`common/concurrent_map.hpp`, `rwlock.hpp`) | map, `read_`, `write_` | `set`, `try_set`, `try_get_value` | hand-made read-write lock on two atomics |
| Logger (`common/logger.hpp`, `concurrent_queue.hpp`) | queue of lines, `state_`, writer thread | construct, `init`, `logstring`, `wait` | the thread starts before the queue exists; exit races with going to sleep |
| Buffer (`common/buffer.hpp`) | memory, reading and writing position, reserved room | write at both ends, read, seek, cut, clear, init | growing and compacting |
| Serialisation (`magic/lua_serialize.cpp`) | a stream of bytes | `pack`, `unpack`, `unpack_one`, `concat` | widths, signs and cookies; nested tables |
| Object pool, spin lock (`common/object_pool.hpp`, `spinlock.hpp`) | stack of free buffers | `create`, `release` | any thread releases; the size is read without the lock |
| Configuration, utilities, Lua/buffer conversion | none that lasts | pure functions and I/O | not modelled |

### How they interact

*Main* creates the workers, starts their threads, asks the router to place the
configured services, polls `service_count()` until they are there, and then runs the
update loop, in which it posts update tasks to the workers and watches for their exit.
Everything between threads goes through a worker's `queue_` (tasks, under a mutex) or
`mq_` (messages, under a spin lock); a task of the first kind drains the second.
*Services* live in the table of one worker and are touched by its thread only. The
high bits of a service id are its worker, so any thread can route a message.
`server::stop()` exchanges `state_` and posts a stop task to every worker; a stop task
tells every service to exit, scripts are expected to remove themselves, and a worker
that stops exits when its table becomes empty. Main joins the threads in
`server::wait`. The console handler holds a shared pointer to the server while it is
inside `stop()`.

What makes each component correct:

* message pump: no message without a wake-up on its way; per-worker FIFO; update
  events do not pile up;
* worker: number, table, counter and flag agree after any sequence of additions,
  failures and (double) removals; a worker exits exactly when the last service of a
  stopping worker leaves; no service misses its start or its exit;
* server: a stop brings it down whatever it races with; nobody uses the server after its
  destruction; start-up comes to an end;
* messaging: one answer per request, nothing vanishes, errors do not multiply;
* timers: never late, one key per timer, no timer outlives its owner for ever;
* services: one service per unique name, and the name leads to it; every request for a
  service is answered once; memory is counted exactly;
* shared maps: every call is atomic; no starving writer;
* logger: no line lost, doubled or reordered; `wait()` returns and has flushed;
* pool: one user per buffer, no leak, a bounded number of free buffers;
* buffer, serialisation: what was written is what is read; `concat` writes arrays in order.

## 2. Modules

| Module | Models | Built on |
|---|---|---|
| `Mailbox` | what `worker::send` promises: an unbounded FIFO mailbox that closes when the worker exits | |
| `WorkerQueue` | the pump of one worker, every critical section a step | implements `Mailbox` |
| `Worker` | the tasks of all workers | |
| `Router` | `new_service`, `remove_service`, `next_worker` | `Worker` |
| `Server` | main, `stop()` and its callers, the scripts' effect on lifecycles | `Router` |
| `Messaging` | `send`, `broadcast`, `response`, `handle_one`, `handle_message`, `dispatch` | |
| `TimerWheel` | the wheel and the table of timers | |
| `AtomicMap` | what the shared maps promise: an entry whose `get`, `set` and `try_set` are atomic | |
| `ConcurrentMap` | one entry of a shared map under the read-write lock | implements `AtomicMap` |
| `LuaService` | `add_service` with the inside of `lua_service::init`, unique names, the answers to whoever asked, the allocator's limit | `Worker` |
| `Logger` | the logger, its blocking queue, its pool of shared buffers and the pool's spin lock | |
| `Tape` | what a buffer promises | |
| `Buffer` | class `buffer` | implements `Tape` |
| `LuaSerialize` | `pack`, `unpack`, `unpack_one` and `concat` with everything they call, over a heap of tables | |
| `WorkerQueueProofs`, `ConcurrentMapProofs`, `LuaServiceProofs`, `MessagingProofs`, `LoggerProofs`, `TimerWheelProofs`, `ServerProofs` | theorems | the module they are named for |
| `StreamProofs` | theorems about byte streams | `Buffer`, `LuaSerialize` |

### State and actions against the code

**WorkerQueue.** `queue_`, `mq_`, `swapmq_`, `update_state_`, `state_` are the
members of the same names; `pc[t]` is where a sending thread is between its two
critical sections, `wpc` where the worker's thread is. `SendPush` is the push on `mq_`;
`SendPost` posts the drain task if the push returned 1; `PopTask`, `DrainSize`,
`DrainSwap`, `DrainHandle`, `DrainDone` are the loop and the drain task;
`UpdateTestAndSet`, `UpdatePost` and `UpdateDone` are `worker::update`;
`PostCommand`, `CommandDone` stand for add, remove, start and stop tasks, of which
only the message they may send and the exit they may cause matter here. `handled`
is history.

**Worker, Router, Server.** One TLA+ function per member, indexed by worker:
`worker_state`, `services_` with `started` and `leaving` (what the script was told),
`count_`, `uuid_`, `shared_`, `queue_`, `thread_`; `adding` and `wpc` are the locals
of an `add_service` task, which takes three steps because its effects are seen by other
threads in the middle. `pc`, `k`, `acc` are main's program counter, loop index and
sum; `spc`, `next`, `last` those of each thread that may be inside `stop()`. Each
step of `main` is named for the statement (`StoreInit`, `CheckState`, `Count`,
`StoreReady`, `PostStart`, `Scan`, `Join`, `StoreExited`, `Release`, `DtorWait`).
Scripts act through `ScriptSpawn`, `ScriptRemove`, `ScriptQuit`, `ScriptAbort`,
whenever their worker runs a callback, which includes the inside of `init`.

**Messaging.** A message is its sender, receiver, session, whether it was forwarded and
whether it is the error for a request that had been taken up (`second`).
`Swap` is a drain task's swap; `Handle` one call of `handle_one`, with one disjunct
per outcome of the callback: success, failure before it has taken up a request (answered it or
kept it for later) and after that (`DispatchFailsLate`), redirection, redirection and failure,
no callback, no service, a broadcast, `resend` with and without failure. A broadcast
without a buffer is a message to nobody (`ScriptBroadcastNothing`), because the flag that
makes a broadcast is kept in the buffer. `RemoveTask` is the whole remove task of
a service, with the answers it makes the runtime send and the broadcast of its exit.
`owed`, `got`, `again`, `lost`, `heard`, `speakers` and `resent` are history: requests a script
has kept, answers that came, second errors that came, requests whose loss the code logs, who
heard which broadcast, and which broadcasts a callback resent.

**TimerWheel.** `head_`, `wheels_`, `timers_`, `uuid_` are the members; `pc`, `slot`,
`level`, `cur` say where `update()` is inside a tick; `due` is the history of when each
timer should expire, `lost` and `wrapped` mark the cases described below. The numbers of
timers start over behind `MAX_TIMER_NUM`, as in `create_timerid`, but not if a timer still
has that number: then the search steps over it and goes on as far as the width of a
`uint32_t`, which is the constant `IdRange`.

**ConcurrentMap.** One step per access to `read_`, `write_` or the map; a change of the map
is two, and `torn` in between, so that a reader inside would see it. In `AtomicMap` a call
takes effect between its beginning and its return; the refinement mapping takes the
lookup of a reader and the first half of a writer's change for that instant.

**LuaService.** The tasks of `Worker`, with the step of `add_service` that runs
`lua_service::init` taken apart: `ScriptFails` (configuration, file or script), `NameRefused`,
`NameSet` or `NoName`, then `Emplace` and `Finish`, or `Fail`. `unique_services_` is the
router's table; `answers` what `router::response` sent to whoever asked; `owner` and
`place` relate names and numbers to requests. `LimitRefuses`, `SystemRefuses` and
`Realloc` are the three ways through `lalloc`, `SetLimit` the assignment of `mem_limit`
between the first allocations and the script.

**Logger.** One step per access to `state_`, the queue and its condition variable, the pool,
its lock and the use counts. `objects_` and `flag_` are the members of the pool and of
its lock, `refs` the use counts of the shared pointers, `hand` the buffer a thread is working
on; `rel` says where a thread is in `release()`, which the last owner runs, and whose test of
the size comes before the lock.

**Buffer.** One action per method; `disturbed` is history.

**LuaSerialize.** The code recurs over tables; here `here` is the argument it is at and a
stack with a frame for each table it is inside of: which of its slots (the array part, then the
pairs), and whether the key is done. `WriteValue`, `EnterTable` and `Refuse` are a call of
`pack_one` or `concat_one`, `LeaveTable` the end of the loops of a table, `Return` that of the
arguments. `ReadTable`, `ReadValue` and `ReadFails` are a call of `push_value`; `reads` are the
tables the reader is inside of, `made` the pairs it has put into each table so far. `Seek` is what
`unpack_one` does to the buffer. `Cut` is a script that keeps only a part of the string
that `packs` gave it. Tables are references into `Heap`, so that they can be shared, be keys
and contain themselves. `cut`, `marks` and `opened` are history: `marks` says what had been
written at each step of the walk, `opened` which tables were written, in order.

## 3. Runs

All runs search their instance exhaustively. `CHECK_DEADLOCK FALSE` is set where the
program ends or where the bound on inputs is used up.

| Run | What it shows | Bounds, and why they are enough |
|---|---|---|
| `message_pump` | `NoLostWakeup`, `AtMostOneUpdate`, `ImplementsMailbox` (with liveness) | 2 senders, the worker itself and main; 2 messages each, so that a push can find `mq_` empty or not before, between and after size and swap; 1 command, which may close the worker |
| `server_life` | `NoUseAfterDestroy`, `AllCreatedBeforeRun`, `StopTerminates`, `StartupCompletes` | 2 workers, so that a stop can overtake the making, starting or joining of one of them; 1 configured service that may fail (`AllCreatedBeforeRun` with several, whose counters are read one after the other, is proved in section 4); 1 console event and 1 abort, so that three threads (with the destructor) are in `stop()` at once |
| `worker_table` | `ExitOnlyWhenEmpty`, `StoppingServicesLeave`, `FreshNumber`, `NoServiceLeftUnstarted`, `EmptyWorkerIsShared` | 1 worker (tables do not interact), 3 service numbers and a counter modulo 4 (4 % 3 = 1, as 2^32 % 65535), 1 configured service and 3 calls of scripts, of which 3 may create a service and 1 remove one, on top of those that remove themselves: the fourth creation takes the counter across its wrap. The stop comes from a script; `server_life` has the console's |
| `init_comment` | violation of `WorkerInitReturns`, see Findings | 1 worker, 1 console event |
| `lua_service` | `OnePerName`, `NameLeadsHome`, `AddsAnswered`, `MemoryAccounted` | 3 requests on 2 workers, two for the same name: their inits overlap on different workers or follow each other on one. A worker has 1 number, so that the second service finds the numbers used up, and draws the number again after a removal; a number that `emplace` refuses has then been drawn before, and `NameLeadsHome`, which is about the first round of a number, is at risk only in that the name is set after the script has succeeded: the theorem is about more numbers. One worker stops. The memory is that of the service without a name: 1 block of up to 2 units under a limit of 1, 1 refusal by the system |
| `messaging` | `SerIsThere`, `AnsweredOnce`, `NoRequestForgotten`, `BroadcastOnce`, `RunsDry` | services 1, 2 on one worker, 3 on another, an id 4 without a worker; service 2 has no callback; 2 sends, 1 redirection, resending or late failure (`MaxTwists`) and 1 broadcast of scripts: a request, its answer, an error on the way and a second request can be under way together |
| `buffer` | `PositionsFit`, `ImplementsTape` | stack capacity 3, contents to 5, reserved room 0 to 2: stack and heap, compacting and growing, all seeks, reuse |
| `serialize` | `RoundTrip`, `RefusedExactly`, `ConcatFlattens` | a byte of a number has 4 values and there are 9 cookies (256 and 32 in the code), which brings every limit of width, sign and cookie within small values; values on both sides of each, and arrays on both sides of the last cookie. 41 tables, among them nested, shared ones, keys, tables behind `__pairs` and some that contain themselves, to twice the depth limit of 2. Up to 12 bytes are cut off |
| `timer` | `OneKeyPerTimer`, `NeverLate`, `EarlyOnlyAfterWrap`, `OrphansCollected`, `UpdateReturns` | 2 timers, numbers that start over behind 1 and wrap modulo 3 where a timer is in the way, 3 wheels of 2 slots with the heads in every position; durations of one turn of wheel 0, of several, and beyond the overflow |
| `timer_comment` | violation of `Precise`, see Findings | 1 timer, 2 wheels |
| `shared_map` | `MutualExclusion`, `ImplementsAtomicMap`, `WriterGetsIn` | 3 threads, each of which reads, sets and tries to set again and again: two readers and a writer, two writers and a reader |
| `logger` | `InOrder`, `OneOwner`, `PoolBounded`, `FlushedWhenClosed`, `WaitReturns`, `LinesGetWritten` | 2 threads, one with 3 lines and one with 1, before, during and after the closing; a pool for 1 buffer, so that two of the three threads that release can find room where there is only one place; 4 addresses, one for each line |

Every invariant of the runs is also proved (section 4). So are the type invariants of all modules
but `LuaService` and `LuaSerialize`, whose proofs carry the types they need in the inductive
invariants. The runs spend their properties on what could go wrong.

### Fairness

* `WorkerQueue`, `Messaging`, `Mailbox`: a worker's thread keeps running; a thread
  between its two critical sections finishes `send` or `update`. Nobody has to start
  sending.
* `Server`: main, the workers and every handler thread keep running (each is a thread
  of its own, and its step is enabled until it waits for another). `ScriptQuit` is weakly
  fair once a service was told to exit: the code tells it and relies on it to call
  `quit`, as the default `exit` does. That a script fails, spawns, aborts or removes
  others is never forced.
* `TimerWheel`: `update()` goes on, since `server::run` keeps posting updates.
* `ConcurrentMap`: every thread that is inside an operation goes on (spinning threads
  yield); nobody has to start one. `WriterGetsIn` holds because a reader that sees
  `write_` retreats and waits until the writer is done.
* `Logger`: the writer thread runs; a thread that has begun to log or to release a buffer
  goes on; so does the owner who has called `wait()`. The spin lock promises nobody a turn,
  but lines are bounded, so that a thread that spins is alone in the end. The spurious
  wake-up is allowed, not forced.
* `LuaService`: the workers' threads go on, and `init` to its end (`SetLimit` is a statement
  of it). Nobody has to ask, to remove or to allocate.

### Findings

* **A stop during `server::init`** (`init_comment`). `worker::init` says "wait for
  thread is created" and spins until the worker's state is ready. The console handler can
  call `stop()` as soon as the server object exists; it posts stop tasks to the
  workers made so far, and a worker without services then goes from ready to exited,
  possibly before main has looked: main spins for ever. Afterwards `server::init` also
  overwrites the state stopping by init. `StopTerminates` is therefore stated for stops
  of an initialised server.
* **Timers set while wheel 0 turns over** (`timer_comment`). The timer class documents
  a precision of 10 ms. In the tick that turns wheel 0 over, callbacks run after the
  head of wheel 0 has moved on and before the next wheel is cascaded; a timer of a full
  turn (255 ticks) or more that is set there expires 255 ticks early.
  `EarlyOnlyAfterWrap` shows that this is the only way a timer can be early.

Smaller observations. Those that name a property are visible in its exception: a timer within 10 ms of
INT_MAX or of more than 255^3 ticks may find no wheel and stay in the table
(`OneKeyPerTimer`); a repeating timer of exactly one turn can make `update()` spin
(`UpdateReturns`); the service counter can give a number of a live service across its
wrap, since 2^32 % 65535 is 1, and always when all are used up (`FreshNumber`): "can not get
more service id" is logged, but `init` still runs under the number of a live service, and a
unique name stays registered under it. Names are never erased, so that once the numbers come
round a name may lead to another service (`NameLeadsHome`). A callback that resends a
request and then fails sends the error to its own service, and whoever asked is never told
(`NoRequestForgotten`). A callback that fails after it has answered a request, or kept it, gets
whoever asked an error besides the answer, under the same number, since `dispatch` does not
know what the callback did (`AnsweredOnce`). When the system refuses memory, `lalloc` keeps what it has charged
(`MemoryAccounted`). `broadcast` without a buffer reaches nobody. Resending a broadcast
changes the sender for the services behind it (`BroadcastOnce`). `service_count()`
counts services made by init scripts too, so `AllCreatedBeforeRun` is checked with
scripts that make none. A second `stop()` after the end overwrites exited, and the handler
of a closing console then waits until the process ends. The option `-f` has no effect, as
`service_file` has a default and is never empty (`happy.cpp:149`).

## 4. Proofs

TLAPS checks them for every number of workers, threads, services, messages and
configurations. They rest on the named assumptions of the modules: `ThreadsAssumption`
and `BoundsAssumption` (main, the worker's thread and the senders are different
threads; bounds are naturals), `WorkerAssumption` (at least one worker, at least one
number), `ServerAssumption` (handlers are no workers), `LuaServiceAssumption` (requests are
positive numbers, finitely many, as are the blocks of memory, and too few for `uuid_` to
wrap), `MessagingAssumption` (0 is no service), in `ConcurrentMap` and `Logger`
that there are finitely many threads, in `Buffer` that capacities and reserved rooms are
naturals, in `LuaSerialize` what a script can pass (`SerializeAssumption`: the values are Lua
values, lengths fit into an int, a table has a key once, and its length is a border of
it; there are more than 8 cookies, because a real is cookie 8, and a byte has at least two
values), and these three about numbers: `NumbersAssumption` (2^32 is at least 65535 and
0 or 1 modulo it; it is 1), `WheelAssumption` (at least two slots and one wheel, a tick of at
least a millisecond, more timer numbers than `MAX_TIMER_NUM` and no more timers than
numbers) and `RangeAssumption` (all wheels together last longer than the longest
duration). TLC evaluates them for the instances of the runs; the constants in the code
satisfy them.

* **WorkerQueueProofs.** `NoWakeupIsLost`, `UpdateEventsAreBounded`, `Typing`,
  `RefinesMailbox`. The inductive invariant adds two facts: the worker runs tasks only while
  ready and `swapmq_` is empty outside of the drain task (`WorkerOK`), which keeps a swap
  from overwriting messages, and only main posts updates (`MainOK`), without which two
  update events could be posted at once. `RefinesMailbox` maps every step to a put, a
  take, a close or a stutter: the swap is a stutter because `swapmq_ \o mq_` does not
  change.
* **ConcurrentMapProofs.** `ReadersAreCounted`, `LockExcludes`, `RefinesAtomicMap`. The
  strengthening `LockOK` says that `write_` is set exactly while one thread has announced
  itself, and that the table is torn only while a writer commits. `RefinesAtomicMap` maps
  every step to the beginning, the effect or the return of a call, or a stutter; what a
  writer has found stays true until it stores, because the lock excludes other writers, and
  a reader never sees the table torn, because it excludes readers.
* **ServerProofs.** `Typing` and `WorkersExitEmpty`. The invariant says what a worker
  is like before its thread loops (`Dormant`), that it adds services only when ready
  (`AddingWhenReady`) and under a number in range (`AddingNumber`), and that the server's state
  is init only before run (`InitBeforeRun`). Then `ServicesLeave`, `AllServicesStart`,
  `CountersAreRight`, `WorkersAreGivenBack`, `DestroyedAlone`, each inductive relative to it
  and one or two facts of its own: who is leaving has a removal queued or was told to
  exit; a service added after main's start task sees the state ready; a free worker is
  shared; and, for the destruction, that main joined each worker it passed, that a handler
  inside `stop()` holds the server, and that main releases it only then. `NumbersAreFresh`
  needs no state but that the counter is in range: `uuid_` may wrap once in the 65535 tries of
  `worker::uuid`, and since 2^32 is 1 modulo 65535 the tries then miss at most one
  number (`ResiduesMissOne`), which a worker without a free number but that one would
  need. It is what `FreshNumber` excepts.
  `ConfiguredServicesCreated` assumes `MaxSpawn = 0`, as the run does, because scripts that
  create services do make main run too early (the end of section 3). The counters
  are read one after the other while they change, so no state has the sum main compares.
  The invariants: an entry of the configuration is at any time in one queue, begun by one
  worker, or created (`EntriesOnce`); what main has added up and the services of the workers
  it has yet to read are together no more than the entries created (`CountBelow`, because a
  creation adds at most one to both and a removal only makes the left side smaller); and
  main goes past the loop only with a sum that means all of them (`Waits`).
* **LuaServiceProofs.** `NamesAreUnique`. The request that stored a name stays its owner,
  because the table of names is never cleared and init fails where it finds an entry. The
  invariant (`OwnersOnly`) says that nobody owns a name that is not stored, and that each
  service in a table, and each on its way from the name to the table, owns its own.
  `NamesLeadHome`. A request is queued at one worker, once (`Queued`), so the tasks run are
  no more than the requests, each draws at most `max_uuid` numbers (`Counted`), and by
  `LuaServiceAssumption` `uuid_` does not wrap (with the code's constants: as long as at
  most 65537 services were asked for; after that `NameLeadsHome` says nothing, since the
  counter no longer tells the rounds apart). A number in its first round is therefore
  nobody's when it is drawn (`Drawn`, `Unused`): the task that set a name finds its number
  free at `emplace`, so it cannot fail, and the name leads to it while it is on its way and
  to its service, or to nobody, afterwards (`Home`).
  `MemoryIsCounted`. The blocks a Lua state holds are a set of units (`Held`); reallocating a
  block changes the size of that set by the difference of the sizes (`UnitsChange`), which is what
  `lalloc` adds to `mem` and, if the limit refuses, takes back. After a refusal by the
  system `mem` is at least that size.
* **MessagingProofs.** `Typing`, `PreviousServiceLives`, `BroadcastsAreHeardOnce`,
  `RequestsAreAnsweredOnce`, `RequestsAreNotForgotten`. The
  pointer kept by `handle_one` is good because services leave between the drain tasks of
  their worker (`PreviousIsThere`). For broadcasts, each worker holds a message at most once
  in one of its queues (`BroadcastsOK`), and who has heard it belongs to a worker where it is
  not queued any more (`HeardOK`): the step that handles it finds nobody who had heard it.
  A request is a token: `Where` is the set of the places where it is (as a request or as its
  answer in one of the queues, in a remove task, with the script that keeps it, or seen by
  who asked), and the invariant `TInv` says of every request that this set has one element
  at most, that no queue holds it twice, and that it is not empty while the service that asked
  lives, unless the request is in `lost`. Both theorems follow from it, but for the error that
  `dispatch` sends for a request that was taken up: it is a second token of the request, which
  lies with the request until a callback takes that up, and then with the error (`Second`).
  `SInv` says that there is one at most, and only for a request that was made (`Shadow`); the
  lemmas `...Shadows` are its steps. Each step has a lemma:
  the request it handles leaves one place and lands in another (`AnswerLands`, `RequestLands`, the
  lemmas `Land...`), or is lost, and all others stay (`FrameKeeps`). Besides, the proof needs
  that messages are in the queues of the worker of their receiver, that broadcasts have no
  session, that only living services keep requests and that a service without callback makes none
  (`Books`).
* **LoggerProofs.** `PoolStaysBounded`: the free buffers and the threads that have passed
  the test of the size are together fewer than `PoolSize` and all threads (`PassedBounded`).
  `TypeCorrect`, `EachBufferOneOwner`, `LinesStayInOrder` and `WaitFlushes` share one
  invariant (`LInv`). Its core, `Owned`, says who may have a buffer: what a thread holds at each
  point of `create` and `release` (`Hands`), that the lock is taken by the one thread
  inside (`Locked`), that no buffer is twice in the pool (`Distinct`), that the use count of a
  buffer is that of its owners (`Counted`), and that no one has a buffer that is free
  (`Exclusive`). `Told` adds that a queued buffer still holds its line, `Flushed` and `Phases`
  where the writer and `wait()` are. Order cannot be proved without ownership: a buffer that
  went to two threads would change its line while it is queued.
* **StreamProofs.** About `Buffer`: `TypeCorrect`, `PositionsStayInside`,
  `BufferImplementsTape`. Besides the
  positions the invariant needs that the capacity never falls below the one on the stack.
  The refinement takes each method to the tape's by comparing the contents cell by cell after
  growing or compacting. `NextPow2Fits` bounds what `next_pow2` returns by induction.

  About `LuaSerialize`, for any heap, arguments, base, cookies and depth limit: `Refusals`,
  `Flattening`, `Restored`. All three rest on `WalkInv`, that `here` is a place in the arguments
  (`IsHere`: each frame is of the table that is the current value of the frame below).
  For `Refusals`, `RefusedInv` adds that everything behind the place is clean: supported, and not
  too deep at any depth that is left for it. A table is clean when its slots are, and the walk
  leaves a table only when it is behind the last of them.
  For `Flattening`, `FlattenInv` says that the text is `TextOf` the place: what is behind it in
  the arguments and in each frame of the stack, written flat (`Part`), where a value `d` tables
  down writes what `Flat` says for the depth that is left there (`PieceAt`).
  For `Restored`, the lemmas on bytes first: numbers are what their bytes say, signed and
  unsigned (`Unsigned` of `Bytes` is the remainder by `Span`), and what `Encoded` and
  `ArrayHeader` wrote is what `Decoded` reads, at each limit, and if bytes are missing an
  error. `RoundInv` then relates two walks, of which the second takes place when the first is
  over, by a trace: `marks` with the current place is a sequence of which each element and the
  next are a step of the walk, with the bytes it wrote between them (`TraceOK`, `MarkStep`).
  The reader is at a mark whose `Match` holds: the frames of the reader are those of
  the walk at that mark, each unfinished table is a copy of the slots before its frame's
  (`FrameMatch`) and each finished one of all (`CopyOf`), the values that were read are the
  arguments before it. A step of the reader goes to the next mark (`ValueStep`, `TableStep`,
  `NextMark`), or fails, which it can only where the stream was cut. Tables are
  read in the order in which they were written, so `opened` says of each table that was
  made which one it is a copy of, and `rawset` never overwrites, because keys whose
  sources differ are different.
* **TimerWheelProofs.** `TypeCorrect`, `EveryTimerOneKey`, `TimersAreNeverLate`,
  `EarlyByOneTurnOnly`, for any wheels. The slots of a key and the heads of the wheels are
  numbers in base `WHEEL_SIZE`, and `Distance` is their difference up to a wheel. The
  invariant `Timed` says that the distance of each key is the time its timer still has, up to two
  corrections: `Pending`, while a lower wheel has turned over and the cascade has not yet moved
  the next head, and `Early`, one turn for timers set in between. `KeyOfIs` shows that
  `insert_timer` establishes it, `HeadMoves` what a tick and a cascade change;
  `DistanceBound` makes it a bound on lateness. `Single`, `Known` and `Present` relate keys and
  table one to one, and `FreshIdIs` shows that `create_timerid` finds a number that is free.

Only model-checked: everything about liveness (`ImplementsMailbox`'s fairness part,
`StopTerminates`, `StartupCompletes`, `AddsAnswered`, `RunsDry`, `OrphansCollected`,
`UpdateReturns`, `WriterGetsIn`, `WaitReturns`, `LinesGetWritten`), which is out of this
prover's reach.

Induction over numbers is within reach, though the library's theorem for it is not:
`LeastNumber` and `Climb` state it with sets, and `Recursion` gives a function defined by
iteration. So `next_pow2`, `Span`, `Unsigned`, `Down`, `Joined`, `Flat`, the lengths of the wheels
(`SlotTicks`), `slot_count` and `Distance` are recursive functions with proved equations.
Powers, which the provers know nothing of, are written as such functions. The recursion of
the serialisation over tables is a stack in the state, and the induction over it an invariant.

The proofs have corrected the models in three places. The type of timer numbers was
`0..MAX_TIMER_NUM` until the step of `Repeat` could not be proved: a timer that still has
the number `MAX_TIMER_NUM` lets the numbering go on behind it, which the runs, with as many
numbers as timers, could not reach. And `FreshNumber` needs that 2^32 is 1 modulo
65535: with another rest the tries after a wrap would repeat more than one number. The
serialisation was a set of recursive operators over finished values, in which a table could
be neither shared nor a key nor contain itself; the proofs needed the walk as a state
machine, and with it those cases came in.

## 5. Abstractions

* Memory: atomics are sequentially consistent, as their read-modify-writes are on the
  x86 machines the project builds for. `queue_.empty()` in the worker's loop is
  read without the lock; since nobody else pops, it can only be stale by seeing an older,
  empty queue, which is a later iteration here. `stop()` walks `workers_` while `server::init`
  may be reallocating it: the model lets it see the complete workers.
* `worker_timer::on_timer` uses an iterator after a possible rehash; the standard
  libraries the project builds with erase through the node, and the model does too.
* The stop task (`RunStop`) is one step: in the code it calls `exit()` of the services one after
  the other, and what one script does is seen by the next. Here the scripts act after it.
  `new_service` (`NewServiceOn`) clears the flag of the worker and posts the task in one
  step; a worker that sets the flag between the two is left out.
* `next_worker()` is one step: flags that change meanwhile change only the choice.
  In `Server`, the test-and-set and the post of `worker::update` are one step;
  `WorkerQueue` has them apart.
* Messages have no content, type or header. A broadcast is posted to all workers in one
  step. Remove tasks of a worker run in any order. Scripts number their requests; they answer
  a request once, at once or later, or redirect it, and may fail before or after that; a service without callback never runs its script. What is queued at a
  worker that has exited stays queued for ever, and counts as such. The listeners of a
  broadcast share its buffer, and one that writes to it or seeks in it changes what the
  others read, at the same time on other workers: what is in a message is up to scripts, and
  left out. A callback resends or redirects to other services, not to
  its own (the code drops such a message silently), and a broadcast without a session.
* `LuaService` numbers requests in the order in which they are made. `set` and `try_set` of
  the name table are one step, which the refinement of `AtomicMap` by `ConcurrentMap`
  justifies. A script that fails is a choice.
* Timers of one slot expire in any order. Time is counted in ticks.
* The entry of a shared map stands for all of them: they share nothing but the lock.
* The vector inside the logger's pool grows under the pool's lock and only while the pool is
  below its limit; its length is what matters here. A buffer that a script sends twice as a
  light userdata, or that it takes from a message and sends again, has two owners
  (`lua_buffer.hpp:48`): the scripts are expected not to.
* Buffer: the overlapping `memcpy` of compacting is taken as `memmove`, `seek(Begin)` and
  `offset_writepos` get arguments within the contents, as from their callers in C++. Neither
  tests them, and scripts can call both with others (`lua_bind.cpp:183`); what happens
  then is left out.
* Serialisation: a value is written in one step, and the memory of the stream is
  `Buffer`'s business. A metamethod `__pairs` yields each key once, ends, and its table is empty
  itself; no key is not a number (which `lua_rawset` refuses). Reals and pointers are numbers of
  8 bytes that are copied. `luaL_checkstack` does not fail. In `concat`, the text of a
  number is the number. The reader is given what `pack` wrote or the beginning of it, not
  other strings.

Not modelled: `server_config` (a JSON library and field access), the string, file, hash
and terminal helpers, the Lua/buffer conversions (no state, one call each), the registry of
service types (filled by main before any thread starts), `core/timer.hpp` (nothing includes
it), and what has no caller: `stop_all_timer`, `start_all_timer`, the shared maps' `erase`,
`clear` and `has`.

## 6. Plan

In this order; the first four groups are done.

1. *Core*: `Mailbox`, `WorkerQueue`, its proofs; `Worker`, `Router`, `Server`, their proofs.
2. *Around it*: `TimerWheel`, `ConcurrentMap` with proofs, `Logger`.
3. *Services' view*: `Messaging`, `Buffer` against `Tape`, `LuaSerialize`.
4. *Extend*: the object pool under its spin lock; unique names related to the lives of
   services, and the memory of a service (`LuaService`); `resend`; `set` and `try_set` of the
   shared maps against `AtomicMap`; `concat`.
5. *Prove*: done for every invariant that a run checks. Left is what the provers cannot reach
   (above).
