---------------------------- MODULE ServerProofs ----------------------------
(***************************************************************************)
(* Proofs about Server, for any number of workers, any configuration and   *)
(* any number of handlers.                                                 *)
(*                                                                         *)
(* The inductive invariant IInv is made of the type invariant, of what a   *)
(* worker is like whose thread does not loop yet, and of when a worker can *)
(* be inside an add_service task (only when it is ready) and the server's  *)
(* state can be init (only before run() has begun).                        *)
(*                                                                         *)
(* What becomes of services, and of the server object at its end, is       *)
(* inductive relative to IInv and, where needed, one fact more.            *)
(*                                                                         *)
(* That main does not run() too early takes three invariants of its own: a *)
(* configured service is in one place (queued, begun or created), what     *)
(* main's loop adds up never exceeds what was created, and main goes on    *)
(* only with all of them.                                                  *)
(***************************************************************************)
EXTENDS Server, SequenceTheorems, FiniteSetTheorems, TLAPS

-----------------------------------------------------------------------------
(* Task queues. *)

Queues == [Workers -> Seq(Task)]

\* Posting a task, to whatever worker, leaves queues of tasks.
LEMMA PostType ==
    ASSUME NEW q \in Queues, NEW w, NEW t \in Task
    PROVE  [q EXCEPT ![w] = Append(@, t)] \in Queues
<1>1. ASSUME w \in Workers
      PROVE  Append(q[w], t) \in Seq(Task)
  BY <1>1, q[w] \in Seq(Task), AppendProperties DEF Queues
<1> QED
  BY <1>1 DEF Queues

\* Popping a task yields a task and leaves queues of tasks.
LEMMA PopType ==
    ASSUME NEW q \in Queues, NEW w \in Workers, q[w] # <<>>
    PROVE  /\ [q EXCEPT ![w] = Tail(@)] \in Queues
           /\ Head(q[w]) \in Task
<1>1. Tail(q[w]) \in Seq(Task) /\ Head(q[w]) \in Task
  BY q[w] \in Seq(Task), HeadTailProperties DEF Queues
<1> QED
  BY <1>1 DEF Queues

\* The tasks that are posted are tasks.
LEMMA TaskTypes ==
    /\ \A op \in {"start", "stop", "update"} : SimpleTask(op) \in Task
    /\ \A id \in Nat : RemoveTask(id) \in Task
    /\ \A cfg \in Nat, ok \in BOOLEAN : AddTask(cfg, ok) \in Task
BY DEF SimpleTask, RemoveTask, AddTask, Task

-----------------------------------------------------------------------------
(* The inductive invariant. *)

\* main has not yet created the thread of worker w.
NotSpawned(w) ==
    \/ pc = "emplace"
    \/ pc = "spawn_thread" /\ w >= k
    \/ pc = "await_ready" /\ w > k

\* A worker whose thread does not loop yet is as it was constructed, apart from what
\* others can do to it.
Dormant ==
    \A w \in Workers :
        /\ NotSpawned(w) => thread_[w] = "none"
        /\ thread_[w] \in {"none", "started"} =>
               /\ worker_state[w] = "init"
               /\ services_[w] = {}
               /\ wpc[w] = "loop"

\* Only a ready worker is inside an add_service task.
AddingWhenReady == \A w \in Workers : wpc[w] # "loop" => worker_state[w] = "ready"

\* The service an add_service task creates has a number.
AddingNumber == \A w \in Workers : wpc[w] # "loop" => adding[w].id \in Uuid

\* The server's state is init only before run() stores ready.
InitBeforeRun ==
    server_state = "init" => pc \in {"place", "check_state", "count", "store_ready"}

IInv ==
    /\ TypeOK
    /\ Dormant
    /\ AddingWhenReady
    /\ AddingNumber
    /\ InitBeforeRun
    /\ ExitOnlyWhenEmpty

-----------------------------------------------------------------------------
(* Initialisation. *)

LEMMA InitIInv == Init => IInv
<1> SUFFICES ASSUME Init PROVE IInv
  OBVIOUS
<1> USE DEF Init, WorkerInit, RouterInit
<1>1. TypeOK
  <2>1. queue_ \in [Workers -> Seq(Task)]
    <3>1. <<>> \in Seq(Task)
      OBVIOUS
    <3> QED
      BY <3>1
  <2>2. adding \in [Workers -> Adding]
    BY DEF NoService, Adding
  <2>3. spc \in [Callers -> {"idle", "stop", "posting", "stopped", "closing", "returned"}]
    OBVIOUS
  <2>4. spawned \in 0..MaxSpawn /\ removed \in 0..MaxRemove
    BY ServerAssumption
  <2> QED
    BY <2>1, <2>2, <2>3, <2>4 DEF TypeOK, State, Phase
<1>2. InitBeforeRun
  BY DEF InitBeforeRun
<1>3. Dormant /\ AddingWhenReady /\ AddingNumber /\ ExitOnlyWhenEmpty
  BY DEF Dormant, NotSpawned, AddingWhenReady, AddingNumber, ExitOnlyWhenEmpty
<1> QED
  BY <1>1, <1>2, <1>3 DEF IInv

-----------------------------------------------------------------------------
(* Type correctness. *)

\* What new_service changes keeps its type.
LEMMA NewServiceType ==
    ASSUME TypeOK, NEW v, NEW task \in Task, new_service(v, task)
    PROVE  /\ queue_' \in Queues
           /\ shared_' \in [Workers -> BOOLEAN]
           /\ next_workerid_' \in Nat
<1> queue_ \in Queues
  BY DEF TypeOK, Queues
<1>1. CASE NewServiceOn(v, task)
  BY <1>1, PostType DEF NewServiceOn, Post, TypeOK
<1>2. CASE NewServiceAnywhere(v, task)
  <2>1. \A w : [queue_ EXCEPT ![w] = Append(@, task)] \in Queues
    BY PostType
  <2>2. queue_' \in Queues
    BY <1>2, <2>1 DEF NewServiceAnywhere, Post
  <2> QED
    BY <1>2, <2>2 DEF NewServiceAnywhere, TypeOK
<1> QED
  BY <1>1, <1>2 DEF new_service

\* A step of main keeps the types.
LEMMA MainType ==
    ASSUME TypeOK, MainStep
    PROVE  TypeOK'
<1> USE DEF TypeOK, mainVars, stopVars, scriptVars, Goto, LoopTo, State, Phase
<1> NW \in Nat \ {0}
  BY WorkerAssumption
<1> queue_ \in Queues
  BY DEF Queues
<1>1. CASE Emplace
  BY <1>1 DEF Emplace, workerVars
<1>2. CASE SpawnThread
  BY <1>2 DEF SpawnThread
<1>3. CASE AwaitReady
  BY <1>3 DEF AwaitReady, workerVars
<1>4. CASE StoreInit
  BY <1>4 DEF StoreInit, workerVars
<1>5. CASE Place
  <2>1. PICK ok \in BOOLEAN : new_service(Config[k], AddTask(k, ok))
    BY <1>5 DEF Place
  <2>2. AddTask(k, ok) \in Task
    BY TaskTypes
  <2>3. queue_' \in Queues /\ shared_' \in [Workers -> BOOLEAN] /\ next_workerid_' \in Nat
    BY <2>1, <2>2, NewServiceType
  <2> QED
    BY SMTT(40), <1>5, <2>1, <2>3 DEF Place, new_service, Queues
<1>6. CASE CheckState
  BY <1>6 DEF CheckState, workerVars
<1>7. CASE Count
  <2>1. k < NW => acc + count_[k] \in Int
    BY DEF Workers
  <2> QED
    BY <1>7, <2>1 DEF Count, workerVars
<1>8. CASE StoreReady
  BY <1>8 DEF StoreReady, workerVars
<1>9. CASE PostStart
  <2>1. queue_' \in Queues
    BY <1>9, PostType, TaskTypes DEF PostStart, Post
  <2> QED
    BY <1>9, <2>1 DEF PostStart, Queues
<1>10. CASE Scan
  <2>1. SimpleTask("update") \in Task
    BY TaskTypes
  <2>2. [queue_ EXCEPT ![k] = Append(@, SimpleTask("update"))] \in Queues
    BY <2>1, PostType
  <2>3. queue_' \in Queues
    BY <1>10, <2>2 DEF Scan, Post
  <2>4. update_state_' \in [Workers -> BOOLEAN]
    BY <1>10 DEF Scan
  <2>5. pc' \in Phase /\ k' \in Nat \ {0} /\ acc' \in Int
    BY <1>10 DEF Scan
  <2> QED
    BY SMTT(20), ZenonT(60), <1>10, <2>3, <2>4, <2>5 DEF Scan, Queues
<1>11. CASE Join
  BY SMTT(20), ZenonT(60), <1>11 DEF Join, workerVars
<1>12. CASE StoreExited
  BY <1>12 DEF StoreExited, workerVars
<1>13. CASE Release
  BY <1>13 DEF Release, workerVars, Callers
<1>14. CASE DtorWait
  BY <1>14 DEF DtorWait, workerVars
<1> QED
  BY <1>1, <1>2, <1>3, <1>4, <1>5, <1>6, <1>7, <1>8, <1>9, <1>10, <1>11, <1>12, <1>13,
     <1>14 DEF MainStep

StopPlaces == {"idle", "stop", "posting", "stopped", "closing", "returned"}

\* A step of server::stop() keeps the types.
LEMMA StopType ==
    ASSUME TypeOK, NEW t \in Callers, StopStep(t) \/ (t \in Handlers /\ ConsoleEvent(t))
    PROVE  TypeOK'
<1> USE DEF mainVars, stopVars, scriptVars
<1>a. spc \in [Callers -> StopPlaces]
  BY DEF TypeOK, StopPlaces
<1>b. \A p \in StopPlaces : [spc EXCEPT ![t] = p] \in [Callers -> StopPlaces]
  BY <1>a
<1>c. {"stop", "posting", "stopped", "closing", "returned"} \subseteq StopPlaces
  BY DEF StopPlaces
<1>d. next \in [Callers -> Nat] /\ last \in [Callers -> Nat] /\ queue_ \in Queues
  BY DEF TypeOK, Queues
<1>1. CASE StopExchange(t)
  <2>1. Emplaced \in Nat
    BY WorkerAssumption DEF Emplaced, TypeOK
  <2>2. spc' \in [Callers -> StopPlaces]
    BY <1>1, <1>a, <1>b, <1>c DEF StopExchange
  <2>3. next' \in [Callers -> Nat] /\ last' \in [Callers -> Nat]
    BY <1>1, <1>d, <2>1 DEF StopExchange
  <2> QED
    BY <1>1, <2>2, <2>3 DEF StopExchange, workerVars, StopPlaces, TypeOK, State
<1>2. CASE StopPost(t)
  <2>1. SimpleTask("stop") \in Task
    BY TaskTypes
  <2>2. [queue_ EXCEPT ![next[t]] = Append(@, SimpleTask("stop"))] \in Queues
    BY <1>d, <2>1, PostType
  <2>3. queue_' \in Queues
    BY <1>2, <2>2 DEF StopPost, Post
  <2>4. spc' \in [Callers -> StopPlaces]
    BY <1>2, <1>a, <1>b, <1>c DEF StopPost
  <2>5. next' \in [Callers -> Nat] /\ last' \in [Callers -> Nat]
    BY <1>2, <1>d DEF StopPost
  <2> QED
    BY <1>2, <2>3, <2>4, <2>5 DEF StopPost, Queues, StopPlaces, TypeOK
<1>3. CASE StopReturn(t)
  <2>1. spc' \in [Callers -> StopPlaces]
    BY <1>3, <1>b, <1>c DEF StopReturn
  <2> QED
    BY <1>3, <2>1 DEF StopReturn, workerVars, StopPlaces, TypeOK
<1>4. CASE CloseReturn(t)
  <2>1. spc' \in [Callers -> StopPlaces]
    BY <1>4, <1>b, <1>c DEF CloseReturn
  <2> QED
    BY <1>4, <2>1 DEF CloseReturn, workerVars, StopPlaces, TypeOK
<1>5. CASE ConsoleEvent(t)
  <2>1. spc' \in [Callers -> StopPlaces]
    BY <1>5, <1>b, <1>c DEF ConsoleEvent
  <2> QED
    BY <1>5, <2>1 DEF ConsoleEvent, workerVars, StopPlaces, TypeOK
<1> QED
  BY <1>1, <1>2, <1>3, <1>4, <1>5 DEF StopStep

\* What a removal that a script asks for changes keeps its type.
LEMMA RemoveServiceType ==
    ASSUME TypeOK, NEW v, NEW id \in Nat, remove_service(v, id)
    PROVE  queue_' \in Queues
<1>1. queue_ \in Queues
  BY DEF TypeOK, Queues
<1>2. RemoveTask(id) \in Task
  BY TaskTypes
<1>3. [queue_ EXCEPT ![v] = Append(@, RemoveTask(id))] \in Queues
  BY <1>1, <1>2, PostType
<1> QED
  BY <1>1, <1>3 DEF remove_service, Post

\* A step of a script keeps the types.
LEMMA ScriptType ==
    ASSUME TypeOK, NEW w \in Workers,
           \/ \E v \in 0..NW, ok \in BOOLEAN : ScriptSpawn(w, v, ok)
           \/ \E v \in Workers, id \in Uuid : ScriptRemove(w, v, id)
           \/ \E id \in Uuid : ScriptQuit(w, id)
           \/ ScriptAbort(w)
    PROVE  TypeOK'
<1> USE DEF TypeOK, mainVars, stopVars, scriptVars
<1> Uuid \subseteq Nat
  BY WorkerAssumption DEF Uuid
<1>1. ASSUME NEW v \in 0..NW, NEW ok \in BOOLEAN, ScriptSpawn(w, v, ok)
      PROVE  TypeOK'
  <2>1. AddTask(0, ok) \in Task
    BY TaskTypes
  <2>2. new_service(v, AddTask(0, ok))
    BY <1>1 DEF ScriptSpawn
  <2>3. queue_' \in Queues /\ shared_' \in [Workers -> BOOLEAN] /\ next_workerid_' \in Nat
    BY <2>1, <2>2, NewServiceType
  <2>4. spawned' \in 0..MaxSpawn
    BY <1>1, ServerAssumption DEF ScriptSpawn
  <2> QED
    BY <1>1, <2>2, <2>3, <2>4 DEF ScriptSpawn, new_service, Queues
<1>2. ASSUME NEW v \in Workers, NEW id \in Uuid, ScriptRemove(w, v, id)
      PROVE  TypeOK'
  <2>1. queue_' \in Queues
    BY <1>2, RemoveServiceType DEF ScriptRemove
  <2>2. removed' \in 0..MaxRemove
    BY <1>2, ServerAssumption DEF ScriptRemove
  <2> QED
    BY <1>2, <2>1, <2>2 DEF ScriptRemove, remove_service, Queues
<1>3. ASSUME NEW id \in Uuid, ScriptQuit(w, id)
      PROVE  TypeOK'
  <2>1. queue_' \in Queues
    BY <1>3, RemoveServiceType DEF ScriptQuit
  <2> QED
    BY <1>3, <2>1 DEF ScriptQuit, remove_service, Queues
<1>4. CASE ScriptAbort(w)
  BY <1>4 DEF ScriptAbort, workerVars
<1> QED
  BY <1>1, <1>2, <1>3, <1>4

\* A worker that pops a task keeps the type of its queue.
LEMMA PopsType ==
    ASSUME TypeOK, NEW w \in Workers, NEW op, Pops(w, op)
    PROVE  /\ [queue_ EXCEPT ![w] = Tail(@)] \in Queues
           /\ Head(queue_[w]) \in Task
           /\ Head(queue_[w]).op = op
BY PopType DEF TypeOK, Queues, Pops

\* Beginning an add_service task keeps the types.
LEMMA AddBeginType ==
    ASSUME TypeOK, NEW w \in Workers, AddBegin(w)
    PROVE  /\ queue_' \in Queues
           /\ uuid_' \in [Workers -> Nat]
           /\ adding' \in [Workers -> Adding]
           /\ adding'[w].id \in Uuid
<1> UintRange \in Nat \ {0} /\ max_uuid \in Nat \ {0}
  BY WorkerAssumption
<1>1. PICK n \in 1..max_uuid :
          /\ uuid_' = [uuid_ EXCEPT ![w] = (@ + n) % UintRange]
          /\ adding' = [adding EXCEPT ![w] = [id |-> Candidate(w, n),
                                              cfg |-> Head(queue_[w]).arg,
                                              ok |-> Head(queue_[w]).ok]]
  BY DEF AddBegin
<1>2. uuid_[w] \in Nat
  BY DEF TypeOK
<1>3. (uuid_[w] + n) % UintRange \in Nat /\ (uuid_[w] + n - 1) % UintRange \in Nat
  BY <1>2
<1>4. Candidate(w, n) \in Nat /\ Candidate(w, n) \in Uuid
  BY <1>3 DEF Candidate, Uuid
<1>5. Pops(w, "add") /\ Popped(w)
  BY DEF AddBegin
<1>6. Head(queue_[w]) \in Task
  BY <1>5, PopsType
<1>7. Head(queue_[w]).arg \in Nat /\ Head(queue_[w]).ok \in BOOLEAN
  BY <1>6 DEF Task
<1>8. [id |-> Candidate(w, n), cfg |-> Head(queue_[w]).arg, ok |-> Head(queue_[w]).ok] \in Adding
  BY <1>4, <1>7 DEF Adding
<1>9. adding' \in [Workers -> Adding]
  BY <1>1, <1>8 DEF TypeOK
<1>10. uuid_' \in [Workers -> Nat]
  BY <1>1, <1>3 DEF TypeOK
<1>11. queue_' \in Queues
  BY <1>5, PopsType DEF Popped
<1>12. adding'[w].id \in Uuid
  BY <1>1, <1>4 DEF TypeOK
<1> QED
  BY <1>9, <1>10, <1>11, <1>12

\* The removals that the services of quits post when they exit in this order.
Removals(quits, order) == [i \in 1..Cardinality(quits) |-> RemoveTask(order[i])]

\* The queues after a stop task that made the services of quits remove themselves.
AfterStop(w, quits, order) ==
    [queue_ EXCEPT ![w] = Tail(@) \o Removals(quits, order)]

\* They are queues of tasks, and hold what was behind the stop task and the removals.
LEMMA AfterStopType ==
    ASSUME TypeOK, NEW w \in Workers, Pops(w, "stop"),
           NEW quits \in SUBSET services_[w], NEW order \in Orders(quits)
    PROVE  /\ AfterStop(w, quits, order) \in Queues
           /\ Removals(quits, order) \in Seq(Task)
           /\ Cardinality(quits) \in Nat
<1>1. Cardinality(quits) \in Nat
  <2>1. IsFiniteSet(Uuid)
    BY FS_Interval, WorkerAssumption DEF Uuid
  <2>2. IsFiniteSet(quits)
    BY <2>1, FS_Subset DEF TypeOK
  <2> QED
    BY <2>2, FS_CardinalityType
<1>2. order \in [1..Cardinality(quits) -> quits]
  BY DEF Orders
<1>3. \A i \in 1..Cardinality(quits) : RemoveTask(order[i]) \in Task
  <2>1. \A id \in quits : id \in Nat
    BY WorkerAssumption DEF TypeOK, Uuid
  <2> QED
    BY <1>2, <2>1, TaskTypes
<1>4. Removals(quits, order) \in Seq(Task)
  BY <1>1, <1>3 DEF Removals
<1>5. Tail(queue_[w]) \in Seq(Task)
  BY HeadTailProperties DEF TypeOK, Pops
<1>6. Tail(queue_[w]) \o Removals(quits, order) \in Seq(Task)
  BY <1>4, <1>5, ConcatProperties
<1> QED
  BY <1>1, <1>4, <1>6 DEF AfterStop, TypeOK, Queues

\* A step of a worker's loop keeps the types.
LEMMA WorkerType ==
    ASSUME TypeOK, AddingNumber, NEW w \in Workers, RunWorker(w)
    PROVE  TypeOK'
<1> USE DEF mainVars, stopVars, scriptVars
<1>a. UNCHANGED <<server_state, next_workerid_, mainVars, stopVars, scriptVars>>
  BY DEF RunWorker
<1>b. shared_ \in [Workers -> BOOLEAN] /\ update_state_ \in [Workers -> BOOLEAN]
  BY DEF TypeOK
<1>1. CASE ThreadStart(w)
  BY <1>1, <1>a DEF ThreadStart, TypeOK, State
<1>2. CASE ThreadEnd(w)
  BY <1>2, <1>a DEF ThreadEnd, TypeOK
<1>3. CASE AddRefused(w)
  <2>1. queue_' \in Queues
    BY <1>3, PopsType DEF AddRefused, Popped
  <2>2. shared_' \in [Workers -> BOOLEAN]
    BY <1>3, <1>b DEF AddRefused
  <2> QED
    BY <1>3, <1>a, <2>1, <2>2 DEF AddRefused, Queues, TypeOK
<1>4. CASE AddBegin(w)
  <2>1. queue_' \in Queues /\ uuid_' \in [Workers -> Nat] /\ adding' \in [Workers -> Adding]
    BY <1>4, AddBeginType
  <2>2. wpc' \in [Workers -> {"loop", "init", "add_start"}]
    BY <1>4 DEF AddBegin, TypeOK
  <2> QED
    BY <1>4, <1>a, <2>1, <2>2 DEF AddBegin, Queues, TypeOK
<1>5. CASE AddFailed(w)
  <2>1. adding' \in [Workers -> Adding]
    BY <1>5 DEF AddFailed, NoService, Adding, TypeOK
  <2>2. shared_' \in [Workers -> BOOLEAN]
    BY <1>5, <1>b DEF AddFailed
  <2> QED
    BY <1>5, <1>a, <2>1, <2>2 DEF AddFailed, TypeOK
<1>6. CASE AddFinish(w)
  <2>1. adding[w].cfg \in Nat /\ adding[w].id \in Uuid
    BY <1>6 DEF AddFinish, TypeOK, Adding, AddingNumber
  <2>2. services_' \in [Workers -> SUBSET Uuid]
    BY <1>6, <2>1 DEF AddFinish, TypeOK
  <2>3. count_' \in [Workers -> Int]
    BY <1>6 DEF AddFinish, TypeOK
  <2>4. wpc' \in [Workers -> {"loop", "init", "add_start"}]
    BY <1>6 DEF AddFinish, TypeOK
  <2>5. created' \subseteq Nat
    BY <1>6, <2>1 DEF AddFinish, TypeOK
  <2> QED
    BY <1>6, <1>a, <2>2, <2>3, <2>4, <2>5 DEF AddFinish, TypeOK
<1>7. CASE AddStart(w)
  <2>1. adding[w].id \in Uuid
    BY <1>7 DEF AddStart, AddingNumber
  <2>2. started' \in [Workers -> SUBSET Uuid]
    BY <1>7, <2>1 DEF AddStart, TypeOK
  <2>3. wpc' \in [Workers -> {"loop", "init", "add_start"}]
    BY <1>7 DEF AddStart, TypeOK
  <2>4. adding' \in [Workers -> Adding]
    BY <1>7 DEF AddStart, NoService, Adding, TypeOK
  <2> QED
    BY <1>7, <1>a, <2>2, <2>3, <2>4 DEF AddStart, TypeOK
<1>8. CASE RunStart(w)
  <2>1. queue_' \in Queues
    BY <1>8, PopsType DEF RunStart, Popped
  <2> QED
    BY <1>8, <1>a, <2>1 DEF RunStart, Queues, TypeOK
<1>9. CASE RunUpdate(w)
  <2>1. queue_' \in Queues
    BY <1>9, PopsType DEF RunUpdate, Popped
  <2>2. update_state_' \in [Workers -> BOOLEAN]
    BY <1>9, <1>b DEF RunUpdate
  <2> QED
    BY <1>9, <1>a, <2>1, <2>2 DEF RunUpdate, Queues, TypeOK
<1>10. CASE RunStopEmpty(w)
  <2>1. queue_' \in Queues
    BY <1>10, PopsType DEF RunStopEmpty, Popped
  <2> QED
    BY <1>10, <1>a, <2>1 DEF RunStopEmpty, Queues, TypeOK, State
<1>11. CASE RunStop(w)
  <2>1. PICK quits \in SUBSET services_[w] :
            /\ \E order \in Orders(quits) : queue_' = AfterStop(w, quits, order)
            /\ exiting' = [exiting EXCEPT ![w] = services_[w] \ quits]
    BY <1>11 DEF RunStop, AfterStop, Removals
  <2>2. queue_' \in Queues
    <3>1. PICK order \in Orders(quits) : queue_' = AfterStop(w, quits, order)
      BY <2>1
    <3>2. Pops(w, "stop")
      BY <1>11 DEF RunStop
    <3>3. AfterStop(w, quits, order) \in Queues
      BY <3>2, AfterStopType
    <3> QED
      BY <3>1, <3>3
  <2>3. exiting' \in [Workers -> SUBSET Uuid]
    BY <2>1 DEF TypeOK
  <2> QED
    BY <1>11, <1>a, <2>2, <2>3 DEF RunStop, Queues, TypeOK, State
<1>12. CASE RemoveMissing(w)
  <2>1. queue_' \in Queues
    BY <1>12, PopsType DEF RemoveMissing, Popped
  <2> QED
    BY <1>12, <1>a, <2>1 DEF RemoveMissing, Queues, TypeOK, State
<1>13. CASE RemoveFound(w)
  <2>1. queue_' \in Queues
    BY <1>13, PopsType DEF RemoveFound, Popped
  <2>2. shared_' \in [Workers -> BOOLEAN]
    BY <1>13, <1>b DEF RemoveFound
  <2>3. worker_state' \in [Workers -> State]
    BY <1>13 DEF RemoveFound, TypeOK, State
  <2>4. count_' \in [Workers -> Int] /\ services_' \in [Workers -> SUBSET Uuid]
    BY <1>13 DEF RemoveFound, TypeOK
  <2>5. started' \in [Workers -> SUBSET Uuid] /\ exiting' \in [Workers -> SUBSET Uuid]
    BY <1>13 DEF RemoveFound, TypeOK
  <2> QED
    BY <1>13, <1>a, <2>1, <2>2, <2>3, <2>4, <2>5 DEF RemoveFound, Queues, TypeOK
<1> QED
  BY <1>1, <1>2, <1>3, <1>4, <1>5, <1>6, <1>7, <1>8, <1>9, <1>10, <1>11, <1>12, <1>13
     DEF WorkerStep, RunWorker

-----------------------------------------------------------------------------
(* The steps of everyone but the workers' loops. *)

\* A step of main, of stop(), of the console or of a script.
OtherStep ==
    \/ MainStep
    \/ \E t \in Callers : StopStep(t)
    \/ \E t \in Handlers : ConsoleEvent(t)
    \/ \E w \in Workers :
           \/ \E v \in 0..NW, ok \in BOOLEAN : ScriptSpawn(w, v, ok)
           \/ \E v \in Workers, id \in Uuid : ScriptRemove(w, v, id)
           \/ \E id \in Uuid : ScriptQuit(w, id)
           \/ ScriptAbort(w)

LEMMA NextCases == Next => OtherStep \/ \E w \in Workers : RunWorker(w)
BY DEF Next, OtherStep

\* They keep the types.
LEMMA OtherType ==
    ASSUME TypeOK, OtherStep
    PROVE  TypeOK'
<1> Handlers \subseteq Callers
  BY DEF Callers
<1> QED
  BY MainType, StopType, ScriptType DEF OtherStep

\* They only reach a worker through its queue, its shared_ flag and its thread's
\* creation; a script also tells when a service has asked for its removal.
LEMMA OtherLeavesAlone ==
    ASSUME OtherStep
    PROVE  UNCHANGED <<worker_state, services_, count_, uuid_, wpc, adding, started, created>>
<1>1. CASE MainStep
  BY <1>1 DEF MainStep, Emplace, SpawnThread, AwaitReady, StoreInit, Place, CheckState, Count,
     StoreReady, PostStart, Scan, Join, StoreExited, Release, DtorWait, new_service, workerVars
<1>2. ASSUME NEW t \in Callers, StopStep(t)
      PROVE  UNCHANGED <<worker_state, services_, count_, uuid_, wpc, adding, started, created>>
  BY <1>2 DEF StopStep, StopExchange, StopPost, StopReturn, CloseReturn, workerVars
<1>3. ASSUME NEW t \in Handlers, ConsoleEvent(t)
      PROVE  UNCHANGED <<worker_state, services_, count_, uuid_, wpc, adding, started, created>>
  BY <1>3 DEF ConsoleEvent, workerVars
<1>4. ASSUME NEW w \in Workers,
             \/ \E v \in 0..NW, ok \in BOOLEAN : ScriptSpawn(w, v, ok)
             \/ \E v \in Workers, id \in Uuid : ScriptRemove(w, v, id)
             \/ \E id \in Uuid : ScriptQuit(w, id)
             \/ ScriptAbort(w)
      PROVE  UNCHANGED <<worker_state, services_, count_, uuid_, wpc, adding, started, created>>
  BY <1>4 DEF ScriptSpawn, ScriptRemove, ScriptQuit, ScriptAbort, new_service, remove_service,
     workerVars
<1> QED
  BY <1>1, <1>2, <1>3, <1>4 DEF OtherStep

\* None but main creates threads and moves main along.
LEMMA OtherThread ==
    ASSUME OtherStep, ~MainStep
    PROVE  UNCHANGED <<thread_, pc, k>>
BY DEF OtherStep, StopStep, StopExchange, StopPost, StopReturn, CloseReturn, ConsoleEvent,
   ScriptSpawn, ScriptRemove, ScriptQuit, ScriptAbort, new_service, remove_service, workerVars,
   mainVars

\* Threads are created in order.
LEMMA MainDormant ==
    ASSUME TypeOK, Dormant, MainStep
    PROVE  Dormant'
<1> UNCHANGED <<worker_state, services_, wpc>>
  BY OtherLeavesAlone DEF OtherStep
<1> SUFFICES ASSUME NEW w \in Workers
             PROVE  /\ NotSpawned(w)' => thread_'[w] = "none"
                    /\ thread_'[w] \in {"none", "started"} =>
                           thread_[w] \in {"none", "started"}
  BY DEF Dormant
<1> w \in Nat /\ NW \in Nat \ {0} /\ w <= NW /\ w >= 1 /\ k \in Nat \ {0}
  BY WorkerAssumption DEF Workers, TypeOK
<1> USE DEF Goto, LoopTo, NotSpawned, workerVars
<1>1. CASE Emplace
  BY <1>1 DEF Emplace, Dormant
<1>2. CASE SpawnThread
  BY <1>2 DEF SpawnThread, Dormant, TypeOK
<1>3. CASE AwaitReady
  BY <1>3 DEF AwaitReady, Dormant
<1>4. CASE StoreInit
  BY <1>4 DEF StoreInit, Dormant
<1>5. CASE Place
  BY <1>5 DEF Place, new_service, Dormant
<1>6. CASE PostStart \/ Scan
  BY <1>6 DEF PostStart, Scan, Dormant
<1>7. CASE CheckState \/ Count \/ StoreReady \/ Join \/ StoreExited \/ Release \/ DtorWait
  BY <1>7 DEF CheckState, Count, StoreReady, Join, StoreExited, Release, DtorWait, Dormant
<1> QED
  BY <1>1, <1>2, <1>3, <1>4, <1>5, <1>6, <1>7 DEF MainStep

\* The server's state becomes init once, and then is overwritten before run() goes on.
LEMMA OtherInitBeforeRun ==
    ASSUME InitBeforeRun, OtherStep
    PROVE  InitBeforeRun'
<1> USE DEF Goto, LoopTo, InitBeforeRun
<1>1. CASE MainStep
  BY <1>1 DEF MainStep, Emplace, SpawnThread, AwaitReady, StoreInit, Place, CheckState, Count,
     StoreReady, PostStart, Scan, Join, StoreExited, Release, DtorWait
<1>2. CASE ~MainStep
  <2>1. server_state' = server_state \/ server_state' = "stopping"
    BY <1>2 DEF OtherStep, StopStep, StopExchange, StopPost, StopReturn, CloseReturn,
       ConsoleEvent, ScriptSpawn, ScriptRemove, ScriptQuit, ScriptAbort
  <2> QED
    BY <1>2, <2>1, OtherThread
<1> QED
  BY <1>1, <1>2

\* They keep the inductive invariant.
LEMMA OtherIInv ==
    ASSUME IInv, OtherStep
    PROVE  IInv'
<1>1. TypeOK'
  BY OtherType DEF IInv
<1>2. Dormant'
  <2>1. CASE MainStep
    BY <2>1, MainDormant DEF IInv
  <2>2. CASE ~MainStep
    BY <2>2, OtherThread, OtherLeavesAlone DEF IInv, Dormant, NotSpawned
  <2> QED
    BY <2>1, <2>2
<1>3. AddingWhenReady' /\ AddingNumber' /\ ExitOnlyWhenEmpty'
  BY OtherLeavesAlone DEF IInv, AddingWhenReady, AddingNumber, ExitOnlyWhenEmpty
<1>4. InitBeforeRun'
  BY OtherInitBeforeRun DEF IInv
<1> QED
  BY <1>1, <1>2, <1>3, <1>4 DEF IInv

-----------------------------------------------------------------------------
(* The steps of the workers' loops. *)

\* What the cases below need of the types.
LEMMA WorkerTypes ==
    ASSUME TypeOK
    PROVE  /\ worker_state \in [Workers -> State]
           /\ thread_ \in [Workers -> {"none", "started", "looping", "ended"}]
           /\ services_ \in [Workers -> SUBSET Uuid]
           /\ wpc \in [Workers -> {"loop", "init", "add_start"}]
           /\ adding \in [Workers -> Adding]
BY DEF TypeOK

\* They keep the inductive invariant: an add_service task begins on a ready worker and
\* nothing changes its state before the task is over; a worker that stops exits when it
\* has no services, and with its last service when it has.
LEMMA WorkerIInv ==
    ASSUME IInv, NEW w \in Workers, RunWorker(w)
    PROVE  IInv'
<1>0. TypeOK'
  BY WorkerType DEF IInv
<1>1. InitBeforeRun'
  BY DEF IInv, InitBeforeRun, RunWorker, mainVars
<1>a. UNCHANGED <<pc, k>>
  BY DEF RunWorker, mainVars
<1> USE WorkerTypes DEF IInv, Dormant, NotSpawned, AddingWhenReady, AddingNumber, ExitOnlyWhenEmpty
<1>b. Dormant' /\ AddingWhenReady' /\ AddingNumber' /\ ExitOnlyWhenEmpty'
  <2>1. CASE ThreadStart(w)
    BY <2>1, <1>a DEF ThreadStart
  <2>2. CASE ThreadEnd(w)
    BY <2>2, <1>a DEF ThreadEnd
  <2>3. CASE AddRefused(w)
    BY <2>3, <1>a DEF AddRefused
  <2>4. CASE AddBegin(w)
    <3>1. adding'[w].id \in Uuid
      BY <2>4, AddBeginType
    <3>2. \A v \in Workers : v # w => adding'[v] = adding[v]
      BY <2>4 DEF AddBegin
    <3>3. UNCHANGED <<worker_state, thread_, services_>> /\ wpc' = [wpc EXCEPT ![w] = "init"]
          /\ worker_state[w] = "ready" /\ thread_[w] = "looping"
      BY <2>4 DEF AddBegin, Pops
    <3> QED
      BY <3>1, <3>2, <3>3, <1>a
  <2>5. CASE AddFailed(w)
    BY <2>5, <1>a DEF AddFailed
  <2>6. CASE AddFinish(w)
    BY <2>6, <1>a DEF AddFinish
  <2>7. CASE AddStart(w)
    BY <2>7, <1>a DEF AddStart
  <2>8. CASE RunStart(w)
    BY <2>8, <1>a DEF RunStart
  <2>9. CASE RunUpdate(w)
    BY <2>9, <1>a DEF RunUpdate
  <2>10. CASE RunStopEmpty(w)
    BY <2>10, <1>a DEF RunStopEmpty, Pops
  <2>11. CASE RunStop(w)
    BY <2>11, <1>a DEF RunStop, Pops
  <2>12. CASE RemoveMissing(w)
    BY <2>12, <1>a DEF RemoveMissing, Pops
  <2>13. CASE RemoveFound(w)
    BY <2>13, <1>a DEF RemoveFound, Pops
  <2> QED
    BY <2>1, <2>2, <2>3, <2>4, <2>5, <2>6, <2>7, <2>8, <2>9, <2>10, <2>11, <2>12, <2>13
       DEF WorkerStep, RunWorker
<1> QED
  BY <1>0, <1>1, <1>b

\* A step that changes nothing keeps it.
LEMMA StutterIInv ==
    ASSUME IInv, UNCHANGED vars
    PROVE  IInv'
<1> USE DEF vars, workerVars, mainVars, stopVars, scriptVars
<1>1. TypeOK'
  BY DEF IInv, TypeOK
<1>2. Dormant' /\ AddingWhenReady' /\ AddingNumber' /\ InitBeforeRun' /\ ExitOnlyWhenEmpty'
  BY DEF IInv, Dormant, NotSpawned, AddingWhenReady, AddingNumber, InitBeforeRun,
         ExitOnlyWhenEmpty
<1> QED
  BY <1>1, <1>2 DEF IInv

LEMMA Invariance == SafeSpec => []IInv
<1>1. IInv /\ [Next]_vars => IInv'
  BY NextCases, OtherIInv, WorkerIInv, StutterIInv
<1> QED
  BY InitIInv, <1>1, PTL DEF SafeSpec

-----------------------------------------------------------------------------
(* Theorems. *)

\* Every variable keeps its type: the numbers given to services stay in 1..max_uuid
\* however often the counter wraps, whatever scripts ask the router for.
THEOREM Typing == SafeSpec => []TypeOK
<1>1. IInv => TypeOK
  BY DEF IInv
<1> QED
  BY <1>1, Invariance, PTL

\* A worker exits only without services, and a stopping worker still has one, whose
\* removal will move it on.
THEOREM WorkersExitEmpty == SafeSpec => []ExitOnlyWhenEmpty
<1>1. IInv => ExitOnlyWhenEmpty
  BY DEF IInv
<1> QED
  BY <1>1, Invariance, PTL

-----------------------------------------------------------------------------
(* Tasks in queues. *)

\* The task t is somewhere in the queue q.
Has(q, t) == \E i \in 1..Len(q) : q[i] = t

\* Posting keeps the tasks that are queued and adds one.
LEMMA HasAppend ==
    ASSUME NEW q \in Seq(Task), NEW u \in Task
    PROVE  /\ \A t : Has(q, t) => Has(Append(q, u), t)
           /\ Has(Append(q, u), u)
<1>1. Len(Append(q, u)) = Len(q) + 1 /\ Append(q, u)[Len(q) + 1] = u
  BY AppendProperties
<1>2. \A i \in 1..Len(q) : Append(q, u)[i] = q[i]
  BY AppendProperties
<1>3. Len(q) \in Nat
  BY LenProperties
<1> QED
  BY <1>1, <1>2, <1>3 DEF Has

\* Popping only takes the head.
LEMMA HasTail ==
    ASSUME NEW q \in Seq(Task), q # <<>>, NEW t, Has(q, t), t # Head(q)
    PROVE  Has(Tail(q), t)
<1>1. PICK i \in 1..Len(q) : q[i] = t
  BY DEF Has
<1>2. Len(q) \in Nat /\ Len(Tail(q)) = Len(q) - 1 /\ q[1] = Head(q)
  BY HeadTailProperties, LenProperties
<1>3. i # 1 /\ i - 1 \in 1..Len(Tail(q))
  BY <1>1, <1>2
<1>4. Tail(q)[i - 1] = q[i]
  BY <1>2, <1>3, HeadTailProperties
<1> QED
  BY <1>1, <1>3, <1>4 DEF Has

\* Nothing comes to be queued by popping.
LEMMA TailHas ==
    ASSUME NEW q \in Seq(Task), q # <<>>
    PROVE  \A i \in 2..Len(q) : i - 1 \in 1..Len(Tail(q)) /\ Tail(q)[i - 1] = q[i]
<1>1. Len(q) \in Nat /\ Len(Tail(q)) = Len(q) - 1
  BY HeadTailProperties, LenProperties
<1>2. \A i \in 1..Len(Tail(q)) : Tail(q)[i] = q[i + 1]
  BY HeadTailProperties
<1>3. ASSUME NEW i \in 2..Len(q)
      PROVE  i - 1 \in 1..Len(Tail(q)) /\ Tail(q)[i - 1] = q[i]
  <2>1. i - 1 \in 1..Len(Tail(q)) /\ (i - 1) + 1 = i
    BY <1>1
  <2>2. Tail(q)[i - 1] = q[(i - 1) + 1]
    BY <1>2, <2>1
  <2> QED
    BY <2>1, <2>2
<1> QED
  BY <1>3

\* Appending a sequence keeps the tasks of both.
LEMMA HasConcat ==
    ASSUME NEW q \in Seq(Task), NEW r \in Seq(Task)
    PROVE  \A t : Has(q, t) \/ Has(r, t) => Has(q \o r, t)
<1>1. Len(q \o r) = Len(q) + Len(r) /\ Len(q) \in Nat /\ Len(r) \in Nat
  BY ConcatProperties, LenProperties
<1>2. \A i \in 1..Len(q) : i \in 1..Len(q \o r) /\ (q \o r)[i] = q[i]
  BY <1>1, ConcatProperties
<1>3. ASSUME NEW i \in 1..Len(r)
      PROVE  Len(q) + i \in 1..Len(q \o r) /\ (q \o r)[Len(q) + i] = r[i]
  BY <1>1, ConcatProperties
<1> QED
  BY <1>2, <1>3 DEF Has

\* The queue of w is left alone or one task is posted to it.
Grows(w) == queue_'[w] = queue_[w] \/ \E u \in Task : queue_'[w] = Append(queue_[w], u)

\* A step of anyone but a worker's loop does no more to the queue of a worker.
LEMMA OtherQueue ==
    ASSUME TypeOK, OtherStep, NEW w \in Workers
    PROVE  Grows(w)
<1>a. \A v, u : u \in Task /\ queue_' = [queue_ EXCEPT ![v] = Append(@, u)] => Grows(w)
  BY DEF TypeOK, Grows
<1>b. UNCHANGED queue_ => Grows(w)
  BY DEF Grows
<1>c. ASSUME NEW v, NEW u \in Task, new_service(v, u)
      PROVE  Grows(w)
  BY <1>a, <1>c DEF new_service, NewServiceOn, NewServiceAnywhere, Post
<1>d. ASSUME NEW v, NEW id \in Uuid, remove_service(v, id)
      PROVE  Grows(w)
  <2>1. RemoveTask(id) \in Task
    BY TaskTypes, WorkerAssumption DEF Uuid
  <2> QED
    BY <1>a, <1>b, <1>d, <2>1 DEF remove_service, Post
<1>1. CASE MainStep
  <2>1. CASE Place
    <3>1. PICK ok \in BOOLEAN : new_service(Config[k], AddTask(k, ok))
      BY <2>1 DEF Place
    <3>2. AddTask(k, ok) \in Task
      BY TaskTypes DEF TypeOK
    <3>3. PICK v : queue_' = [queue_ EXCEPT ![v] = Append(@, AddTask(k, ok))]
      BY <3>1 DEF new_service, NewServiceOn, NewServiceAnywhere, Post
    <3> QED
      BY <3>2, <3>3, <1>a
  <2>2. CASE PostStart
    BY <2>2, <1>a, TaskTypes DEF PostStart, Post
  <2>3. CASE Scan
    <3>1. \/ UNCHANGED queue_
          \/ queue_' = [queue_ EXCEPT ![k] = Append(@, SimpleTask("update"))]
      BY <2>3 DEF Scan, Post
    <3>2. SimpleTask("update") \in Task
      BY TaskTypes
    <3>3. CASE UNCHANGED queue_
      BY <3>3, <1>b
    <3> QED
      BY <3>1, <3>2, <3>3, <1>a
  <2>4. CASE ~(Place \/ PostStart \/ Scan)
    BY <2>4, <1>b, <1>1 DEF MainStep, Emplace, SpawnThread, AwaitReady, StoreInit, CheckState,
       Count, StoreReady, Join, StoreExited, Release, DtorWait, workerVars
  <2> QED
    BY <2>1, <2>2, <2>3, <2>4
<1>2. ASSUME NEW t \in Callers, StopStep(t)
      PROVE  Grows(w)
  BY <1>2, <1>a, <1>b, TaskTypes
     DEF StopStep, StopExchange, StopPost, StopReturn, CloseReturn, workerVars, Post
<1>3. ASSUME NEW t \in Handlers, ConsoleEvent(t)
      PROVE  Grows(w)
  BY <1>3, <1>b DEF ConsoleEvent, workerVars
<1>4. ASSUME NEW v \in Workers, NEW x \in 0..NW, NEW ok \in BOOLEAN, ScriptSpawn(v, x, ok)
      PROVE  Grows(w)
  BY <1>4, <1>c, TaskTypes DEF ScriptSpawn
<1>5. ASSUME NEW v \in Workers, NEW x \in Workers, NEW id \in Uuid, ScriptRemove(v, x, id)
      PROVE  Grows(w)
  BY <1>5, <1>d DEF ScriptRemove
<1>6. ASSUME NEW v \in Workers, NEW id \in Uuid, ScriptQuit(v, id)
      PROVE  Grows(w)
  BY <1>6, <1>d DEF ScriptQuit
<1>7. ASSUME NEW v \in Workers, ScriptAbort(v)
      PROVE  Grows(w)
  BY <1>7, <1>b DEF ScriptAbort, workerVars
<1>8. ASSUME NEW v \in Workers,
             \/ \E x \in 0..NW, ok \in BOOLEAN : ScriptSpawn(v, x, ok)
             \/ \E x \in Workers, id \in Uuid : ScriptRemove(v, x, id)
             \/ \E id \in Uuid : ScriptQuit(v, id)
             \/ ScriptAbort(v)
      PROVE  Grows(w)
  BY <1>8, <1>4, <1>5, <1>6, <1>7
<1> QED
  BY <1>1, <1>2, <1>3, <1>8 DEF OtherStep

\* So none of them takes a task from a queue.
LEMMA OtherKeepsTasks ==
    ASSUME TypeOK, OtherStep, NEW w \in Workers, NEW t, HasTask(w, t)
    PROVE  HasTask(w, t)'
<1>1. queue_[w] \in Seq(Task)
  BY DEF TypeOK
<1>2. Has(queue_[w], t)
  BY DEF HasTask, Has
<1>3. Has(queue_'[w], t)
  BY <1>1, <1>2, OtherQueue, HasAppend DEF Grows
<1> QED
  BY <1>3 DEF HasTask, Has

\* A worker's loop takes the head of its own queue, or nothing; a stop task may put
\* removals behind what is queued.
LEMMA LoopKeepsTasks ==
    ASSUME TypeOK, NEW w \in Workers, RunWorker(w), NEW t,
           HasTask(w, t), queue_'[w] # queue_[w] => t # Head(queue_[w])
    PROVE  HasTask(w, t)'
<1>1. queue_[w] \in Seq(Task)
  BY DEF TypeOK
<1>2. Has(queue_[w], t)
  BY DEF HasTask, Has
<1> SUFFICES Has(queue_'[w], t)
  BY DEF HasTask, Has
<1>3. CASE queue_'[w] = queue_[w]
  BY <1>2, <1>3
<1>4. CASE queue_'[w] # queue_[w] /\ ~RunStop(w)
  <2>1. queue_' = [queue_ EXCEPT ![w] = Tail(@)] /\ queue_[w] # <<>>
    BY <1>4 DEF RunWorker, WorkerStep, ThreadStart, ThreadEnd, AddRefused, AddBegin, AddFailed,
       AddFinish, AddStart, RunStart, RunUpdate, RunStopEmpty, RemoveMissing, RemoveFound, Pops,
       Popped
  <2>2. queue_'[w] = Tail(queue_[w])
    BY <2>1 DEF TypeOK
  <2> QED
    BY <1>1, <1>2, <1>4, <2>1, <2>2, HasTail
<1>5. CASE queue_'[w] # queue_[w] /\ RunStop(w)
  <2>1. Pops(w, "stop") /\ queue_[w] # <<>>
    BY <1>5 DEF RunStop, Pops
  <2>a. PICK quits \in SUBSET services_[w] :
            \E order \in Orders(quits) : queue_' = AfterStop(w, quits, order)
    BY <1>5 DEF RunStop, AfterStop, Removals
  <2>2. PICK order \in Orders(quits) : queue_' = AfterStop(w, quits, order)
    BY <2>a
  <2>3. Removals(quits, order) \in Seq(Task)
    BY <2>1, AfterStopType
  <2>4. Tail(queue_[w]) \in Seq(Task)
    BY <1>1, <2>1, HeadTailProperties
  <2>5. queue_'[w] = Tail(queue_[w]) \o Removals(quits, order)
    BY <2>2 DEF AfterStop, TypeOK
  <2> QED
    BY <1>1, <1>2, <1>5, <2>1, <2>3, <2>4, <2>5, HasTail, HasConcat
<1> QED
  BY <1>3, <1>4, <1>5

\* A worker's loop leaves the other workers alone.
LEMMA LoopIsLocal ==
    ASSUME TypeOK, NEW w \in Workers, RunWorker(w), NEW v \in Workers, v # w
    PROVE  /\ worker_state'[v] = worker_state[v] /\ thread_'[v] = thread_[v]
           /\ queue_'[v] = queue_[v] /\ services_'[v] = services_[v]
           /\ count_'[v] = count_[v] /\ shared_'[v] = shared_[v]
           /\ wpc'[v] = wpc[v] /\ adding'[v] = adding[v]
           /\ started'[v] = started[v] /\ exiting'[v] = exiting[v]
<1> USE DEF TypeOK
<1>1. CASE ThreadStart(w) \/ ThreadEnd(w)
  BY <1>1 DEF ThreadStart, ThreadEnd
<1>2. CASE AddRefused(w) \/ AddBegin(w)
  BY <1>2 DEF AddRefused, AddBegin, Popped
<1>3. CASE AddFailed(w) \/ AddFinish(w) \/ AddStart(w)
  BY <1>3 DEF AddFailed, AddFinish, AddStart
<1>4. CASE RunStart(w) \/ RunUpdate(w) \/ RunStopEmpty(w) \/ RunStop(w)
  BY <1>4 DEF RunStart, RunUpdate, RunStopEmpty, RunStop, Popped
<1>5. CASE RemoveMissing(w) \/ RemoveFound(w)
  BY <1>5 DEF RemoveMissing, RemoveFound, Popped
<1> QED
  BY <1>1, <1>2, <1>3, <1>4, <1>5 DEF RunWorker, WorkerStep

-----------------------------------------------------------------------------
(* The services of a stopping worker are on their way out. *)

\* Of one worker.
Leaving(w) ==
    worker_state[w] = "stopping" =>
        \A id \in services_[w] : id \in exiting[w] \/ HasTask(w, RemoveTask(id))

\* Others only add removals; the script that stops being told to exit posts one.
LEMMA OtherLeaving ==
    ASSUME IInv, OtherStep, NEW w \in Workers, Leaving(w)
    PROVE  Leaving(w)'
<1> TypeOK
  BY DEF IInv
<1> UNCHANGED <<worker_state, services_>>
  BY OtherLeavesAlone
<1> SUFFICES ASSUME worker_state[w] = "stopping", NEW id \in services_[w]
             PROVE  id \in exiting'[w] \/ HasTask(w, RemoveTask(id))'
  BY DEF Leaving
<1>1. CASE HasTask(w, RemoveTask(id))
  BY <1>1, OtherKeepsTasks
<1>2. CASE id \in exiting[w] /\ UNCHANGED exiting
  BY <1>2
<1>3. ASSUME id \in exiting[w], NEW v \in Workers, NEW n \in Uuid, ScriptQuit(v, n)
      PROVE  id \in exiting'[w] \/ HasTask(w, RemoveTask(id))'
  <2>1. CASE v # w \/ n # id
    BY <1>3, <2>1 DEF ScriptQuit, TypeOK
  <2>2. CASE v = w /\ n = id
    <3>1. workerid_valid(w)
      BY WorkerAssumption DEF workerid_valid, Workers
    <3>2. queue_' = [queue_ EXCEPT ![w] = Append(@, RemoveTask(id))]
      BY <1>3, <2>2, <3>1 DEF ScriptQuit, remove_service, Post
    <3>3. queue_[w] \in Seq(Task) /\ RemoveTask(id) \in Task
      BY TaskTypes, WorkerAssumption DEF TypeOK, Uuid
    <3>4. queue_'[w] = Append(queue_[w], RemoveTask(id))
      BY <3>2 DEF TypeOK
    <3>5. Has(queue_'[w], RemoveTask(id))
      BY <3>3, <3>4, HasAppend
    <3> QED
      BY <3>5 DEF Has, HasTask
  <2> QED
    BY <2>1, <2>2
<1>4. UNCHANGED exiting \/ \E v \in Workers, n \in Uuid : ScriptQuit(v, n)
  <2>1. CASE MainStep
    BY <2>1 DEF MainStep, Emplace, SpawnThread, AwaitReady, StoreInit, Place, CheckState, Count,
       StoreReady, PostStart, Scan, Join, StoreExited, Release, DtorWait, new_service, workerVars
  <2>2. CASE ~MainStep
    BY <2>2 DEF OtherStep, StopStep, StopExchange, StopPost, StopReturn, CloseReturn,
       ConsoleEvent, ScriptSpawn, ScriptRemove, ScriptAbort, new_service, workerVars
  <2> QED
    BY <2>1, <2>2
<1> QED
  BY <1>1, <1>2, <1>3, <1>4 DEF Leaving

\* The stop task tells every service to exit, or queues its removal; a removal that is
\* taken from the queue is the removal of a service that is then gone.
LEMMA LoopLeaving ==
    ASSUME IInv, NEW w \in Workers, RunWorker(w), Leaving(w)
    PROVE  Leaving(w)'
<1> TypeOK
  BY DEF IInv
<1> USE WorkerTypes
<1> exiting \in [Workers -> SUBSET Uuid] /\ queue_[w] \in Seq(Task)
  BY DEF TypeOK
<1> SUFFICES ASSUME worker_state'[w] = "stopping", NEW id \in services_'[w]
             PROVE  id \in exiting'[w] \/ HasTask(w, RemoveTask(id))'
  BY DEF Leaving
<1>1. CASE RunStop(w)
  <2>1. PICK quits \in SUBSET services_[w] :
            /\ \E order \in Orders(quits) : queue_' = AfterStop(w, quits, order)
            /\ exiting' = [exiting EXCEPT ![w] = services_[w] \ quits]
    BY <1>1 DEF RunStop, AfterStop, Removals
  <2>2. PICK order \in Orders(quits) : queue_' = AfterStop(w, quits, order)
    BY <2>1
  <2>3. id \in services_[w] /\ Pops(w, "stop") /\ queue_[w] # <<>>
    BY <1>1 DEF RunStop, Pops
  <2>4. CASE id \notin quits
    BY <2>1, <2>3, <2>4
  <2>5. CASE id \in quits
    <3>1. PICK i \in 1..Cardinality(quits) : order[i] = id
      BY <2>5 DEF Orders
    <3>2. Removals(quits, order) \in Seq(Task) /\ Cardinality(quits) \in Nat
      BY <2>3, AfterStopType
    <3>3. Has(Removals(quits, order), RemoveTask(id))
      BY <3>1, <3>2 DEF Has, Removals
    <3>4. Tail(queue_[w]) \in Seq(Task)
      BY <2>3, HeadTailProperties
    <3>5. queue_'[w] = Tail(queue_[w]) \o Removals(quits, order)
      BY <2>2 DEF AfterStop, TypeOK
    <3>6. Has(queue_'[w], RemoveTask(id))
      BY <3>2, <3>3, <3>4, <3>5, HasConcat
    <3> QED
      BY <3>6 DEF Has, HasTask
  <2> QED
    BY <2>4, <2>5
<1>2. CASE ~RunStop(w)
  <2>1. worker_state[w] = "stopping"
    BY <1>2 DEF RunWorker, WorkerStep, ThreadStart, ThreadEnd, AddRefused, AddBegin, AddFailed,
       AddFinish, AddStart, RunStart, RunUpdate, RunStopEmpty, RemoveMissing, RemoveFound
  <2>2. wpc[w] = "loop"
    BY <2>1 DEF IInv, ExitOnlyWhenEmpty
  <2>3. id \in services_[w]
    BY <1>2, <2>2 DEF RunWorker, WorkerStep, ThreadStart, ThreadEnd, AddRefused, AddBegin,
       AddFailed, AddFinish, AddStart, RunStart, RunUpdate, RunStopEmpty, RemoveMissing,
       RemoveFound
  <2>4. id \in exiting[w] \/ HasTask(w, RemoveTask(id))
    BY <2>1, <2>3 DEF Leaving
  <2>5. CASE id \in exiting[w]
    BY <1>2, <2>5 DEF RunWorker, WorkerStep, ThreadStart, ThreadEnd, AddRefused, AddBegin,
       AddFailed, AddFinish, AddStart, RunStart, RunUpdate, RunStopEmpty, RemoveMissing,
       RemoveFound
  <2>6. CASE HasTask(w, RemoveTask(id))
    <3>1. ASSUME queue_'[w] # queue_[w]
          PROVE  RemoveTask(id) # Head(queue_[w])
      <4>1. CASE RemoveFound(w) \/ RemoveMissing(w)
        BY <2>3, <4>1 DEF RemoveFound, RemoveMissing, RemoveTask
      <4>2. CASE ~(RemoveFound(w) \/ RemoveMissing(w))
        BY <1>2, <2>2, <3>1, <4>2 DEF RunWorker, WorkerStep, ThreadStart, ThreadEnd, AddRefused,
           AddBegin, AddFailed, AddFinish, AddStart, RunStart, RunUpdate, RunStopEmpty, Pops,
           RemoveTask
      <4> QED
        BY <4>1, <4>2
    <3> QED
      BY <2>6, <3>1, LoopKeepsTasks
  <2> QED
    BY <2>4, <2>5, <2>6
<1> QED
  BY <1>1, <1>2

\* Every service of a stopping worker is on its way out, whichever services quit at
\* once, in whatever order, and whatever else scripts remove meanwhile.
THEOREM ServicesLeave == SafeSpec => []StoppingServicesLeave
<1>1. Init => StoppingServicesLeave
  BY DEF Init, WorkerInit, StoppingServicesLeave
<1>2. IInv /\ StoppingServicesLeave /\ [Next]_vars => StoppingServicesLeave'
  <2> SUFFICES ASSUME IInv, StoppingServicesLeave, [Next]_vars, NEW v \in Workers
               PROVE  Leaving(v)'
    BY DEF StoppingServicesLeave, Leaving
  <2>1. Leaving(v)
    BY DEF StoppingServicesLeave, Leaving
  <2>2. CASE OtherStep
    BY <2>1, <2>2, OtherLeaving
  <2>3. CASE RunWorker(v)
    BY <2>1, <2>3, LoopLeaving
  <2>4. ASSUME NEW w \in Workers, RunWorker(w), v # w
        PROVE  Leaving(v)'
    BY <2>1, <2>4, LoopIsLocal DEF IInv, Leaving, HasTask
  <2>5. CASE UNCHANGED vars
    BY <2>1, <2>5 DEF vars, workerVars, Leaving, HasTask
  <2> QED
    BY <2>2, <2>3, <2>4, <2>5, NextCases
<1> QED
  BY <1>1, <1>2, Invariance, PTL DEF SafeSpec

-----------------------------------------------------------------------------
(* Every service is started. *)

\* The service id of the worker w is started, or will be.
WillStart(w, id) ==
    \/ id \in started[w]
    \/ ~StartPosted(w)
    \/ HasTask(w, SimpleTask("start"))
    \/ wpc[w] = "add_start" /\ adding[w].id = id

\* main is past the start task of w only when that task is queued.
LEMMA OtherWillStart ==
    ASSUME IInv, OtherStep, NEW w \in Workers, NEW id, WillStart(w, id)
    PROVE  WillStart(w, id)'
<1> TypeOK
  BY DEF IInv
<1> UNCHANGED <<started, wpc, adding>>
  BY OtherLeavesAlone
<1> w \in Nat /\ NW \in Nat \ {0} /\ w <= NW /\ w >= 1 /\ k \in Nat \ {0}
  BY WorkerAssumption DEF Workers, TypeOK
<1>1. CASE id \in started[w] \/ (wpc[w] = "add_start" /\ adding[w].id = id)
  BY <1>1 DEF WillStart
<1>2. CASE HasTask(w, SimpleTask("start"))
  BY <1>2, OtherKeepsTasks DEF WillStart
<1>3. CASE ~StartPosted(w)
  <2>1. CASE ~MainStep
    <3>1. UNCHANGED <<pc, k>>
      BY <2>1, OtherThread
    <3> QED
      BY <1>3, <3>1 DEF WillStart, StartPosted
  <2>2. CASE MainStep /\ ~(PostStart /\ k = w)
    <3>1. ~StartPosted(w)'
      BY <1>3, <2>2 DEF MainStep, Emplace, SpawnThread, AwaitReady, StoreInit, Place, CheckState,
         Count, StoreReady, PostStart, Scan, Join, StoreExited, Release, DtorWait, Goto, LoopTo,
         StartPosted
    <3> QED
      BY <3>1 DEF WillStart
  <2>3. CASE PostStart /\ k = w
    <3>1. queue_[w] \in Seq(Task) /\ SimpleTask("start") \in Task
      BY TaskTypes DEF TypeOK
    <3>2. queue_'[w] = Append(queue_[w], SimpleTask("start"))
      BY <2>3 DEF PostStart, Post, TypeOK
    <3>3. Has(queue_'[w], SimpleTask("start"))
      BY <3>1, <3>2, HasAppend
    <3> QED
      BY <3>3 DEF WillStart, Has, HasTask
  <2> QED
    BY <2>1, <2>2, <2>3
<1> QED
  BY <1>1, <1>2, <1>3 DEF WillStart

\* The start task starts every service; add_service starts its own when state_ is not
\* init any more, which it is not once a start task is posted.
LEMMA LoopWillStart ==
    ASSUME IInv, NEW w \in Workers, RunWorker(w), NEW id \in services_'[w],
           id \in services_[w] => WillStart(w, id)
    PROVE  WillStart(w, id)'
<1> TypeOK
  BY DEF IInv
<1> USE WorkerTypes
<1> started \in [Workers -> SUBSET Uuid] /\ queue_[w] \in Seq(Task)
  BY DEF TypeOK
<1> UNCHANGED <<pc, k>>
  BY DEF RunWorker, mainVars
<1>1. CASE AddFinish(w)
  <2>1. id = adding[w].id \/ id \in services_[w]
    BY <1>1 DEF AddFinish
  <2>2. CASE id = adding[w].id
    BY <1>1, <2>2 DEF AddFinish, WillStart
  <2>3. CASE id \in services_[w]
    BY <1>1, <2>3 DEF AddFinish, WillStart, StartPosted, HasTask
  <2> QED
    BY <2>1, <2>2, <2>3
<1>2. CASE AddStart(w)
  <2>1. id \in services_[w]
    BY <1>2 DEF AddStart
  <2>2. CASE server_state = "init"
    <3>1. ~StartPosted(w)
      BY <2>2 DEF IInv, InitBeforeRun, StartPosted
    <3> QED
      BY <3>1 DEF WillStart, StartPosted
  <2>3. CASE server_state # "init"
    BY <1>2, <2>1, <2>3 DEF AddStart, WillStart, StartPosted, HasTask
  <2> QED
    BY <2>2, <2>3
<1>3. CASE RunStart(w)
  BY <1>3 DEF RunStart, WillStart
<1>4. CASE ~(AddFinish(w) \/ AddStart(w) \/ RunStart(w))
  <2>1. id \in services_[w]
    BY <1>4 DEF RunWorker, WorkerStep, ThreadStart, ThreadEnd, AddRefused, AddBegin, AddFailed,
       RunUpdate, RunStopEmpty, RunStop, RemoveMissing, RemoveFound
  <2>2. wpc[w] # "add_start"
    BY <1>4 DEF RunWorker, WorkerStep, ThreadStart, ThreadEnd, AddRefused, AddBegin, AddFailed,
       RunUpdate, RunStopEmpty, RunStop, RemoveMissing, RemoveFound, Pops, IInv, Dormant
  <2>3. CASE id \in started[w]
    <3>1. id \in started'[w]
      BY <1>4, <2>3 DEF RunWorker, WorkerStep, ThreadStart, ThreadEnd, AddRefused, AddBegin,
         AddFailed, RunUpdate, RunStopEmpty, RunStop, RemoveMissing, RemoveFound
    <3> QED
      BY <3>1 DEF WillStart
  <2>4. CASE ~StartPosted(w)
    BY <2>4 DEF WillStart, StartPosted
  <2>5. CASE HasTask(w, SimpleTask("start"))
    <3>1. ASSUME queue_'[w] # queue_[w]
          PROVE  SimpleTask("start") # Head(queue_[w])
      <4>1. \/ Pops(w, "add") \/ Pops(w, "update") \/ Pops(w, "stop") \/ Pops(w, "remove")
            \/ UNCHANGED queue_
        BY <1>4 DEF RunWorker, WorkerStep, ThreadStart, ThreadEnd, AddRefused, AddBegin,
           AddFailed, RunUpdate, RunStopEmpty, RunStop, RemoveMissing, RemoveFound
      <4> QED
        BY <3>1, <4>1 DEF Pops, SimpleTask
    <3>2. HasTask(w, SimpleTask("start"))'
      BY <2>5, <3>1, LoopKeepsTasks
    <3> QED
      BY <3>2 DEF WillStart
  <2> QED
    BY <2>1, <2>2, <2>3, <2>4, <2>5 DEF WillStart
<1> QED
  BY <1>1, <1>2, <1>3, <1>4

\* No service is left without its start(), wherever add_service is when run() begins.
THEOREM AllServicesStart == SafeSpec => []NoServiceLeftUnstarted
<1>1. Init => NoServiceLeftUnstarted
  BY DEF Init, WorkerInit, NoServiceLeftUnstarted
<1>2. IInv /\ NoServiceLeftUnstarted /\ [Next]_vars => NoServiceLeftUnstarted'
  <2> SUFFICES ASSUME IInv, NoServiceLeftUnstarted, [Next]_vars,
                      NEW v \in Workers, NEW id \in services_'[v]
               PROVE  WillStart(v, id)'
    BY DEF NoServiceLeftUnstarted, WillStart
  <2>1. id \in services_[v] => WillStart(v, id)
    BY DEF NoServiceLeftUnstarted, WillStart
  <2>2. CASE OtherStep
    BY <2>1, <2>2, OtherWillStart, OtherLeavesAlone
  <2>3. CASE RunWorker(v)
    BY <2>1, <2>3, LoopWillStart
  <2>4. ASSUME NEW w \in Workers, RunWorker(w), v # w
        PROVE  WillStart(v, id)'
    <3>1. UNCHANGED <<pc, k>>
      BY <2>4 DEF RunWorker, mainVars
    <3> QED
      BY <2>1, <2>4, <3>1, LoopIsLocal DEF IInv, WillStart, StartPosted, HasTask
  <2>5. CASE UNCHANGED vars
    BY <2>1, <2>5 DEF vars, workerVars, mainVars, WillStart, StartPosted, HasTask
  <2> QED
    BY <2>2, <2>3, <2>4, <2>5, NextCases
<1> QED
  BY <1>1, <1>2, Invariance, PTL DEF SafeSpec

-----------------------------------------------------------------------------
(* The counters. *)

\* service_count() counts what the tables hold, at every moment another thread may read
\* a counter.
THEOREM CountersAreRight == SafeSpec => []CountIsTable
<1>1. Init => CountIsTable
  BY FS_EmptySet DEF Init, WorkerInit, CountIsTable
<1>2. IInv /\ CountIsTable /\ [Next]_vars => CountIsTable'
  <2> SUFFICES ASSUME IInv, CountIsTable, [Next]_vars, NEW v \in Workers
               PROVE  count_'[v] = Cardinality(services_'[v])
    BY DEF CountIsTable
  <2>1. count_[v] = Cardinality(services_[v])
    BY DEF CountIsTable
  <2>2. CASE OtherStep \/ UNCHANGED vars
    BY <2>1, <2>2, OtherLeavesAlone DEF vars, workerVars
  <2>3. CASE RunWorker(v)
    <3> services_[v] \in SUBSET Uuid /\ v \in Workers
      BY DEF IInv, TypeOK
    <3> count_ \in [Workers -> Int] /\ services_ \in [Workers -> SUBSET Uuid]
      BY DEF IInv, TypeOK
    <3>1. IsFiniteSet(services_[v])
      <4>1. IsFiniteSet(Uuid)
        BY FS_Interval, WorkerAssumption DEF Uuid
      <4> QED
        BY <4>1, FS_Subset
    <3>2. CASE AddFinish(v)
      <4>1. Cardinality(services_[v] \cup {adding[v].id}) = Cardinality(services_[v]) + 1
        BY <3>1, <3>2, FS_AddElement DEF AddFinish
      <4> QED
        BY <2>1, <3>2, <4>1 DEF AddFinish
    <3>3. CASE RemoveFound(v)
      <4> DEFINE id == Head(queue_[v]).arg
      <4>1. /\ id \in services_[v]
            /\ count_'[v] = count_[v] - 1
            /\ services_'[v] = services_[v] \ {id}
        BY <3>3 DEF RemoveFound
      <4> HIDE DEF id
      <4>2. Cardinality(services_[v] \ {id}) = Cardinality(services_[v]) - 1
        BY <3>1, <4>1, FS_RemoveElement
      <4> QED
        BY <2>1, <4>1, <4>2
    <3>4. CASE ~(AddFinish(v) \/ RemoveFound(v))
      BY <2>1, <2>3, <3>4 DEF RunWorker, WorkerStep, ThreadStart, ThreadEnd, AddRefused, AddBegin,
         AddFailed, AddStart, RunStart, RunUpdate, RunStopEmpty, RunStop, RemoveMissing
    <3> QED
      BY <3>2, <3>3, <3>4
  <2>4. ASSUME NEW w \in Workers, RunWorker(w), v # w
        PROVE  count_'[v] = Cardinality(services_'[v])
    BY <2>1, <2>4, LoopIsLocal DEF IInv
  <2> QED
    BY <2>2, <2>3, <2>4, NextCases
<1> QED
  BY <1>1, <1>2, Invariance, PTL DEF SafeSpec

-----------------------------------------------------------------------------
(* Workers are given back to round robin. *)

\* A service is to be created on w.
Awaits(w) == \E i \in 1..Len(queue_[w]) : queue_[w][i].op = "add"

\* In terms of the tasks.
LEMMA AwaitsTask ==
    ASSUME NEW w \in Workers
    PROVE  /\ Awaits(w) <=> \E t : t.op = "add" /\ HasTask(w, t)
           /\ Awaits(w)' <=> \E t : t.op = "add" /\ HasTask(w, t)'
BY DEF Awaits, HasTask

\* The service that add_service has created but not yet looked at is in the table.
CreatedIsThere == \A w \in Workers : wpc[w] = "add_start" => services_[w] # {}

LEMMA CreatedInvariance == SafeSpec => []CreatedIsThere
<1>1. Init => CreatedIsThere
  BY DEF Init, WorkerInit, CreatedIsThere
<1>2. IInv /\ CreatedIsThere /\ [Next]_vars => CreatedIsThere'
  <2> SUFFICES ASSUME IInv, CreatedIsThere, [Next]_vars, NEW v \in Workers
               PROVE  wpc'[v] = "add_start" => services_'[v] # {}
    BY DEF CreatedIsThere
  <2>1. CASE OtherStep \/ UNCHANGED vars
    BY <2>1, OtherLeavesAlone DEF vars, workerVars, CreatedIsThere
  <2>2. CASE RunWorker(v)
    <3> USE WorkerTypes DEF IInv
    <3>1. CASE AddFinish(v)
      BY <3>1 DEF AddFinish
    <3>2. CASE ~AddFinish(v)
      BY <2>2, <3>2 DEF RunWorker, WorkerStep, ThreadStart, ThreadEnd, AddRefused, AddBegin,
         AddFailed, AddStart, RunStart, RunUpdate, RunStopEmpty, RunStop, RemoveMissing,
         RemoveFound, Pops, CreatedIsThere
    <3> QED
      BY <3>1, <3>2
  <2>3. ASSUME NEW w \in Workers, RunWorker(w), v # w
        PROVE  wpc'[v] = "add_start" => services_'[v] # {}
    BY <2>3, LoopIsLocal DEF IInv, CreatedIsThere
  <2> QED
    BY <2>1, <2>2, <2>3, NextCases
<1> QED
  BY <1>1, <1>2, Invariance, PTL DEF SafeSpec

\* Of one worker.
FreeIsShared(w) ==
    services_[w] = {} /\ wpc[w] = "loop" /\ worker_state[w] # "exited" /\ ~Awaits(w)
        => shared_[w]

\* new_service reserves only the worker to which it posts the service.
LEMMA ReservedAwaits ==
    ASSUME TypeOK, NEW w \in Workers, NEW v, NEW task \in Task, task.op = "add",
           new_service(v, task)
    PROVE  shared_'[w] = shared_[w] \/ Awaits(w)'
<1>1. CASE v # w \/ ~NewServiceOn(v, task)
  BY <1>1 DEF new_service, NewServiceOn, NewServiceAnywhere, TypeOK
<1>2. CASE v = w /\ NewServiceOn(v, task)
  <2>1. queue_[w] \in Seq(Task)
    BY DEF TypeOK
  <2>2. queue_'[w] = Append(queue_[w], task)
    BY <1>2 DEF NewServiceOn, Post, TypeOK
  <2>3. Has(queue_'[w], task)
    BY <2>1, <2>2, HasAppend
  <2> QED
    BY <2>3 DEF Has, Awaits
<1> QED
  BY <1>1, <1>2

LEMMA OtherShared ==
    ASSUME IInv, OtherStep, NEW w \in Workers, FreeIsShared(w)
    PROVE  FreeIsShared(w)'
<1> TypeOK
  BY DEF IInv
<1>1. UNCHANGED <<services_, wpc, worker_state>>
  BY OtherLeavesAlone
<1>2. Awaits(w) => Awaits(w)'
  BY AwaitsTask, OtherKeepsTasks
<1>3. \A cfg \in Nat, ok \in BOOLEAN :
          AddTask(cfg, ok) \in Task /\ AddTask(cfg, ok).op = "add"
  BY TaskTypes DEF AddTask
<1>4. shared_'[w] = shared_[w] \/ Awaits(w)'
  <2>1. CASE Place
    <3>1. PICK ok \in BOOLEAN : new_service(Config[k], AddTask(k, ok))
      BY <2>1 DEF Place
    <3>2. k \in Nat
      BY DEF TypeOK
    <3>3. PICK v : v = Config[k]
      OBVIOUS
    <3>4. PICK t : t = AddTask(k, ok)
      OBVIOUS
    <3>5. new_service(v, t)
      BY <3>1, <3>3, <3>4 DEF new_service, NewServiceOn, NewServiceAnywhere, Post
    <3>6. t \in Task /\ t.op = "add"
      BY <1>3, <3>2, <3>4
    <3> QED
      BY <3>5, <3>6, ReservedAwaits
  <2>2. ASSUME NEW v \in Workers, NEW x \in 0..NW, NEW ok \in BOOLEAN, ScriptSpawn(v, x, ok)
        PROVE  shared_'[w] = shared_[w] \/ Awaits(w)'
    <3>1. new_service(x, AddTask(0, ok))
      BY <2>2 DEF ScriptSpawn
    <3> QED
      BY <1>3, <3>1, ReservedAwaits
  <2>3. CASE MainStep /\ ~Place
    BY <2>3 DEF MainStep, Emplace, SpawnThread, AwaitReady, StoreInit, CheckState, Count,
       StoreReady, PostStart, Scan, Join, StoreExited, Release, DtorWait, workerVars
  <2>4. CASE \/ \E t \in Callers : StopStep(t)
             \/ \E t \in Handlers : ConsoleEvent(t)
    BY <2>4 DEF StopStep, StopExchange, StopPost, StopReturn, CloseReturn, ConsoleEvent,
       workerVars
  <2>5. ASSUME NEW v \in Workers,
               \/ \E x \in Workers, id \in Uuid : ScriptRemove(v, x, id)
               \/ \E id \in Uuid : ScriptQuit(v, id)
               \/ ScriptAbort(v)
        PROVE  shared_'[w] = shared_[w] \/ Awaits(w)'
    BY <2>5 DEF ScriptRemove, ScriptQuit, ScriptAbort, remove_service, workerVars
  <2> QED
    BY <2>1, <2>2, <2>3, <2>4, <2>5 DEF OtherStep
<1> QED
  BY <1>1, <1>2, <1>4 DEF FreeIsShared

LEMMA LoopShared ==
    ASSUME IInv, CreatedIsThere, NEW w \in Workers, RunWorker(w), FreeIsShared(w)
    PROVE  FreeIsShared(w)'
<1> TypeOK /\ shared_ \in [Workers -> BOOLEAN]
  BY DEF IInv, TypeOK
<1> USE WorkerTypes
<1>1. CASE AddRefused(w) \/ AddFailed(w)
  <2>1. shared_'[w] = (services_[w] = {}) /\ UNCHANGED services_
    BY <1>1 DEF AddRefused, AddFailed
  <2> QED
    BY <2>1 DEF FreeIsShared
<1>2. CASE AddBegin(w) \/ AddFinish(w)
  BY <1>2 DEF AddBegin, AddFinish, FreeIsShared
<1>3. CASE AddStart(w)
  BY <1>3 DEF AddStart, CreatedIsThere, FreeIsShared
<1>4. CASE RemoveFound(w)
  <2>1. services_'[w] = {} => shared_'[w] = TRUE
    BY <1>4 DEF RemoveFound
  <2> QED
    BY <2>1 DEF FreeIsShared
<1>5. CASE \/ ThreadStart(w) \/ ThreadEnd(w) \/ RunStart(w) \/ RunUpdate(w) \/ RunStopEmpty(w)
           \/ RunStop(w) \/ RemoveMissing(w)
  <2>1. UNCHANGED <<services_, wpc, shared_>>
    BY <1>5 DEF ThreadStart, ThreadEnd, RunStart, RunUpdate, RunStopEmpty, RunStop, RemoveMissing
  <2>2. worker_state[w] = "exited" => worker_state'[w] = "exited" \/ thread_[w] = "started"
    BY <1>5 DEF ThreadStart, ThreadEnd, RunStart, RunUpdate, RunStopEmpty, RunStop,
       RemoveMissing, Pops
  <2>3. thread_[w] = "started" => worker_state[w] = "init"
    BY DEF IInv, Dormant
  <2>4. ASSUME queue_'[w] # queue_[w], NEW t, t.op = "add"
        PROVE  t # Head(queue_[w])
    BY <1>5, <2>4 DEF ThreadStart, ThreadEnd, RunStart, RunUpdate, RunStopEmpty, RunStop,
       RemoveMissing, Pops
  <2>5. Awaits(w) => Awaits(w)'
    BY <2>4, AwaitsTask, LoopKeepsTasks
  <2> QED
    BY <2>1, <2>2, <2>3, <2>5 DEF FreeIsShared
<1> QED
  BY <1>1, <1>2, <1>3, <1>4, <1>5 DEF RunWorker, WorkerStep

\* Reserving a worker for a service that then fails, or leaves, does not lose it.
THEOREM WorkersAreGivenBack == SafeSpec => []EmptyWorkerIsShared
<1>1. Init => EmptyWorkerIsShared
  BY DEF Init, WorkerInit, EmptyWorkerIsShared
<1>2. IInv /\ CreatedIsThere /\ EmptyWorkerIsShared /\ [Next]_vars => EmptyWorkerIsShared'
  <2> SUFFICES ASSUME IInv, CreatedIsThere, EmptyWorkerIsShared, [Next]_vars, NEW v \in Workers
               PROVE  FreeIsShared(v)'
    BY DEF EmptyWorkerIsShared, FreeIsShared, Awaits
  <2>1. FreeIsShared(v)
    BY DEF EmptyWorkerIsShared, FreeIsShared, Awaits
  <2>2. CASE OtherStep
    BY <2>1, <2>2, OtherShared
  <2>3. CASE RunWorker(v)
    BY <2>1, <2>3, LoopShared
  <2>4. ASSUME NEW w \in Workers, RunWorker(w), v # w
        PROVE  FreeIsShared(v)'
    BY <2>1, <2>4, LoopIsLocal DEF IInv, FreeIsShared, Awaits
  <2>5. CASE UNCHANGED vars
    BY <2>1, <2>5 DEF vars, workerVars, FreeIsShared, Awaits
  <2> QED
    BY <2>2, <2>3, <2>4, <2>5, NextCases
<1> QED
  BY <1>1, <1>2, Invariance, CreatedInvariance, PTL DEF SafeSpec

-----------------------------------------------------------------------------
(* The end of the server object. *)

\* The phases in which wait() has joined every worker.
Joined == pc \in {"store_exited", "release", "dtor_stop", "destroyed", "abandoned"}

\* wait() has joined the workers it is past.
JoinedEnded ==
    \A w \in Workers : Joined \/ (pc = "join" /\ w > k) => thread_[w] = "ended"

\* A worker inside stop() is running a task.
InsideStop == \A w \in Workers : spc[w] \notin {"idle", "returned"} => thread_[w] = "looping"

\* main is inside stop() in the destructor only, and the destructor goes on after it.
MainStops ==
    /\ spc[MainThread] = "idle" \/ pc \in {"dtor_stop", "destroyed"}
    /\ pc = "destroyed" => spc[MainThread] = "returned"

\* The destructor runs when no handler has hold of the server, and none gets hold of it.
HandlersOut ==
    pc \in {"dtor_stop", "destroyed"} => \A t \in Handlers : spc[t] \in {"idle", "returned"}

EndInv == JoinedEnded /\ InsideStop /\ MainStops /\ HandlersOut

\* Who is who.
LEMMA CallersApart ==
    /\ MainThread \in Callers /\ Handlers \subseteq Callers /\ Workers \subseteq Callers
    /\ MainThread \notin Workers /\ MainThread \notin Handlers
    /\ \A w \in Workers : w \notin Handlers
    /\ \A t \in Callers : t = MainThread \/ t \in Handlers \/ t \in Workers
<1> NW \in Nat \ {0} /\ Handlers \cap (Workers \cup {0}) = {}
  BY WorkerAssumption, ServerAssumption
<1> QED
  BY DEF MainThread, Callers, Workers

\* A step of main joins in order, and enters the destructor when the handlers are out.
LEMMA MainEnd ==
    ASSUME TypeOK, Dormant, EndInv, MainStep
    PROVE  EndInv'
<1> USE CallersApart DEF Goto, LoopTo
<1> spc \in [Callers -> {"idle", "stop", "posting", "stopped", "closing", "returned"}]
  BY DEF TypeOK
<1> NW \in Nat \ {0} /\ k \in Nat \ {0} /\ \A w \in Workers : w \in Nat /\ w <= NW /\ w >= 1
  BY WorkerAssumption DEF Workers, TypeOK
<1>1. CASE SpawnThread
  <2>1. \A w \in Workers : w = k => thread_[w] = "none"
    BY <1>1 DEF SpawnThread, Dormant, NotSpawned
  <2>2. \A w \in Workers : w # k => thread_'[w] = thread_[w]
    BY <1>1 DEF SpawnThread, TypeOK
  <2>3. UNCHANGED spc /\ pc = "spawn_thread" /\ pc' = "await_ready"
    BY <1>1 DEF SpawnThread, stopVars
  <2> QED
    BY <2>1, <2>2, <2>3 DEF EndInv, JoinedEnded, Joined, InsideStop, MainStops, HandlersOut
<1>2. CASE Release
  <2>1. UNCHANGED thread_ /\ pc' \in {"dtor_stop", "abandoned"} /\ pc = "release"
    BY <1>2 DEF Release, workerVars
  <2>2. JoinedEnded' /\ InsideStop'
    BY <1>2, <2>1 DEF EndInv, JoinedEnded, Joined, InsideStop, Release
  <2>3. MainStops'
    BY <1>2, <2>1 DEF EndInv, MainStops, Release
  <2>4. HandlersOut'
    BY <1>2, <2>1 DEF HandlersOut, Release, Holds
  <2> QED
    BY <2>2, <2>3, <2>4 DEF EndInv
<1>3. CASE Join
  <2>1. UNCHANGED <<thread_, spc>> /\ pc' \in {"join", "store_exited"} /\ pc = "join"
    BY <1>3 DEF Join, workerVars, stopVars
  <2>2. JoinedEnded'
    BY <1>3 DEF Join, EndInv, JoinedEnded, Joined, workerVars
  <2> QED
    BY <2>1, <2>2 DEF EndInv, InsideStop, MainStops, HandlersOut
<1>4. CASE Scan
  <2>1. UNCHANGED <<thread_, spc>> /\ pc = "scan"
    BY <1>4 DEF Scan, stopVars
  <2>2. pc' = "scan" \/ (pc' = "join" /\ k' = NW)
    BY <1>4 DEF Scan
  <2> QED
    BY <2>1, <2>2 DEF EndInv, JoinedEnded, Joined, InsideStop, MainStops, HandlersOut
<1>5. CASE StoreExited \/ DtorWait
  BY <1>5 DEF StoreExited, DtorWait, EndInv, JoinedEnded, Joined, InsideStop, MainStops,
     HandlersOut, workerVars, stopVars
<1>6. CASE \/ Emplace \/ AwaitReady \/ StoreInit \/ Place \/ CheckState \/ Count \/ StoreReady
           \/ PostStart
  <2>1. UNCHANGED <<thread_, spc>>
    BY <1>6 DEF Emplace, AwaitReady, StoreInit, Place, CheckState, Count, StoreReady, PostStart,
       new_service, workerVars, stopVars
  <2>2. /\ pc \notin {"dtor_stop", "destroyed"}
        /\ pc' \notin {"join", "store_exited", "release", "dtor_stop", "destroyed", "abandoned"}
    BY <1>6 DEF Emplace, AwaitReady, StoreInit, Place, CheckState, Count, StoreReady, PostStart
  <2> QED
    BY <2>1, <2>2 DEF EndInv, JoinedEnded, Joined, InsideStop, MainStops, HandlersOut
<1> QED
  BY <1>1, <1>2, <1>3, <1>4, <1>5, <1>6 DEF MainStep

\* Whoever enters stop() may: a handler while the object exists, a worker in a task.
LEMMA StopEnd ==
    ASSUME TypeOK, EndInv, OtherStep, ~MainStep
    PROVE  EndInv'
<1> USE CallersApart
<1> spc \in [Callers -> {"idle", "stop", "posting", "stopped", "closing", "returned"}]
  BY DEF TypeOK
<1>1. UNCHANGED <<thread_, pc, k>>
  BY OtherThread
<1>2. JoinedEnded'
  BY <1>1 DEF EndInv, JoinedEnded, Joined
<1>3. CASE UNCHANGED spc
  BY <1>1, <1>2, <1>3 DEF EndInv, InsideStop, MainStops, HandlersOut
<1>4. ASSUME NEW t \in Callers, StopStep(t)
      PROVE  EndInv'
  <2>1. spc[t] \notin {"idle", "returned"}
    BY <1>4 DEF StopStep, StopExchange, StopPost, StopReturn, CloseReturn
  <2>2. \A s \in Callers : s # t => spc'[s] = spc[s]
    BY <1>4 DEF StopStep, StopExchange, StopPost, StopReturn, CloseReturn
  <2>3. InsideStop'
    BY <1>1, <2>1, <2>2 DEF EndInv, InsideStop
  <2>4. MainStops'
    BY <1>1, <2>1, <2>2 DEF EndInv, MainStops
  <2>5. HandlersOut'
    BY <1>1, <2>1, <2>2 DEF EndInv, HandlersOut
  <2> QED
    BY <1>2, <2>3, <2>4, <2>5 DEF EndInv
<1>5. ASSUME NEW t \in Handlers, ConsoleEvent(t)
      PROVE  EndInv'
  <2>1. /\ \A s \in Callers : s # t => spc'[s] = spc[s]
        /\ pc \notin {"dtor_stop", "destroyed"}
    BY <1>5 DEF ConsoleEvent
  <2> QED
    BY <1>1, <1>2, <2>1 DEF EndInv, InsideStop, MainStops, HandlersOut
<1>6. ASSUME NEW w \in Workers, ScriptAbort(w)
      PROVE  EndInv'
  <2>1. (\A s \in Callers : s # w => spc'[s] = spc[s]) /\ thread_[w] = "looping"
    BY <1>6 DEF ScriptAbort, ScriptRuns
  <2> QED
    BY <1>1, <1>2, <2>1 DEF EndInv, InsideStop, MainStops, HandlersOut
<1>7. ASSUME NEW w \in Workers,
             \/ \E v \in 0..NW, ok \in BOOLEAN : ScriptSpawn(w, v, ok)
             \/ \E v \in Workers, id \in Uuid : ScriptRemove(w, v, id)
             \/ \E id \in Uuid : ScriptQuit(w, id)
      PROVE  UNCHANGED spc
  BY <1>7 DEF ScriptSpawn, ScriptRemove, ScriptQuit, stopVars
<1> QED
  BY <1>3, <1>4, <1>5, <1>6, <1>7 DEF OtherStep

\* A worker ends its thread outside of stop(), and no thread comes back.
LEMMA LoopEnd ==
    ASSUME TypeOK, EndInv, NEW w \in Workers, RunWorker(w)
    PROVE  EndInv'
<1>1. UNCHANGED <<pc, k, spc>> /\ spc[w] \in {"idle", "returned"}
  BY DEF RunWorker, mainVars, stopVars, Free
<1>2. \A v \in Workers : v # w => thread_'[v] = thread_[v]
  BY LoopIsLocal
<1>3. thread_[w] = "ended" => thread_'[w] = "ended"
  BY DEF RunWorker, WorkerStep, ThreadStart, ThreadEnd, AddRefused, AddBegin, AddFailed,
     AddFinish, AddStart, RunStart, RunUpdate, RunStopEmpty, RunStop, RemoveMissing,
     RemoveFound, TypeOK
<1> QED
  BY <1>1, <1>2, <1>3 DEF EndInv, JoinedEnded, Joined, InsideStop, MainStops, HandlersOut

\* Nobody is inside stop() and no worker thread runs once the server is destroyed, for
\* any number of handlers that come at any time and of scripts that abort.
THEOREM DestroyedAlone == SafeSpec => []NoUseAfterDestroy
<1>1. Init => EndInv
  BY CallersApart DEF Init, EndInv, JoinedEnded, Joined, InsideStop, MainStops, HandlersOut
<1>2. IInv /\ EndInv /\ [Next]_vars => EndInv'
  <2>1. ASSUME UNCHANGED vars, EndInv
        PROVE  EndInv'
    BY <2>1 DEF vars, workerVars, mainVars, stopVars, EndInv, JoinedEnded, Joined, InsideStop,
       MainStops, HandlersOut
  <2> QED
    BY <2>1, NextCases, MainEnd, StopEnd, LoopEnd DEF IInv
<1>3. EndInv => NoUseAfterDestroy
  <2> SUFFICES ASSUME EndInv, pc = "destroyed"
               PROVE  /\ \A t \in Callers : spc[t] \in {"idle", "returned"}
                      /\ \A w \in Workers : thread_[w] = "ended"
    BY DEF NoUseAfterDestroy
  <2>1. \A w \in Workers : thread_[w] = "ended"
    BY DEF EndInv, JoinedEnded, Joined
  <2>2. \A w \in Workers : spc[w] \in {"idle", "returned"}
    BY <2>1 DEF EndInv, InsideStop
  <2>3. spc[MainThread] = "returned" /\ \A t \in Handlers : spc[t] \in {"idle", "returned"}
    BY DEF EndInv, MainStops, HandlersOut
  <2> QED
    BY <2>1, <2>2, <2>3, CallersApart
<1> QED
  BY <1>1, <1>2, <1>3, Invariance, PTL DEF SafeSpec

-----------------------------------------------------------------------------
(* Numbers of services. *)

\* Division with rest.
LEMMA RestIs ==
    ASSUME NEW m \in Nat \ {0}, NEW q \in Int, NEW r \in 0..(m - 1)
    PROVE  (q * m + r) % m = r
<1> DEFINE a == q * m + r
           d == a \div m
           e == a % m
<1>1. a \in Int /\ a = d * m + e /\ d \in Int /\ e \in 0..(m - 1)
  OBVIOUS
<1>2. (q - d) * m = e - r
  BY <1>1
<1>3. q - d \in Int /\ e - r < m /\ e - r > -m
  BY <1>1
<1> DEFINE z == q - d
<1>4. z * m = e - r /\ z \in Int
  BY <1>2, <1>3
<1> HIDE DEF z, a, d, e
<1>5. z >= 1 => z * m >= m
  BY <1>4
<1>6. z <= -1 => z * m <= -m
  BY <1>4
<1>7. z = 0
  BY <1>1, <1>3, <1>4, <1>5, <1>6
<1> QED
  BY <1>1, <1>4, <1>7 DEF a, e

\* The residues that max_uuid calls of uuid() give, starting at c.
Residue(c, i) == ((c + i - 1) % UintRange) % max_uuid

\* They are all, or all but one when the counter wraps.
LEMMA ResiduesMissOne ==
    ASSUME NEW c \in 0..(UintRange - 1)
    PROVE  \E r \in Int : \A x \in 0..(max_uuid - 1) :
               x # r => \E i \in 1..max_uuid : Residue(c, i) = x
<1> DEFINE m == max_uuid
           U == UintRange
<1>1. m \in Nat /\ m > 0 /\ U \in Nat /\ U >= m /\ c \in Nat /\ c < U
  BY WorkerAssumption, NumbersAssumption
<1>2. PICK rest \in {0, 1} : U % m = rest
  BY NumbersAssumption
<1> DEFINE Q == U \div m
<1>3. Q \in Int /\ U = Q * m + rest
  BY <1>1, <1>2
<1> DEFINE q == c \div m
           s == c % m
<1>4. q \in Int /\ s \in 0..(m - 1) /\ c = q * m + s
  BY <1>1
<1> HIDE DEF m, U, Q, q, s
<1>5. ASSUME NEW x \in 0..(m - 1), NEW i \in 1..m, NEW v \in 0..(U - 1), NEW p \in Int,
             (c + i - 1) % U = v, v = p * m + x
      PROVE  Residue(c, i) = x
  <2>1. m \in Nat \ {0}
    BY <1>1
  <2>2. (p * m + x) % m = x
    BY <2>1, RestIs
  <2>3. Residue(c, i) = v % m
    BY <1>5 DEF Residue, m, U
  <2> QED
    BY <1>5, <2>2, <2>3
<1>5a. ASSUME NEW v \in 0..(U - 1)
       PROVE  v % U = v
  <2>1. v = 0 * U + v /\ U \in Nat \ {0}
    BY <1>1
  <2> QED
    BY <2>1, RestIs
<1>6. CASE c + m <= U
  <2> SUFFICES ASSUME NEW x \in 0..(m - 1)
               PROVE  \E i \in 1..m : Residue(c, i) = x
    BY <1>1 DEF m
  <2>1. CASE x >= s
    <3>1. (x - s) + 1 \in 1..m /\ c + ((x - s) + 1) - 1 = q * m + x
          /\ c + ((x - s) + 1) - 1 \in 0..(U - 1)
      BY <1>1, <1>4, <1>6, <2>1
    <3>2. (c + ((x - s) + 1) - 1) % U = q * m + x
      BY <1>5a, <3>1
    <3> QED
      BY <1>4, <1>5, <3>1, <3>2
  <2>2. CASE x < s
    <3>1. (x - s) + m + 1 \in 1..m /\ c + ((x - s) + m + 1) - 1 = (q + 1) * m + x
          /\ c + ((x - s) + m + 1) - 1 \in 0..(U - 1)
      BY <1>1, <1>4, <1>6, <2>2
    <3>2. (c + ((x - s) + m + 1) - 1) % U = (q + 1) * m + x
      BY <1>5a, <3>1
    <3>3. q + 1 \in Int
      BY <1>4
    <3> QED
      BY <1>5, <3>1, <3>2, <3>3
  <2> QED
    BY <1>1, <1>4, <2>1, <2>2
\* The counter wraps after j calls, at a number whose residue is that of rest - 1.
<1>7. CASE c + m > U
  <2> DEFINE j == U - c
  <2>1. j \in 1..(m - 1) /\ j \in Int
    BY <1>1, <1>7
  <2> HIDE DEF j
  <2>2. c = U - j
    BY <1>1 DEF j
  <2> SUFFICES ASSUME NEW x \in 0..(m - 1), x # m - j
               PROVE  \E i \in 1..m : Residue(c, i) = x
    BY <1>1, <2>1 DEF m
  <2>3. CASE x <= m - j - 1
    <3>1. j + 1 + x \in 1..m /\ c + (j + 1 + x) - 1 = U + x /\ x \in 0..(U - 1)
      BY <1>1, <2>1, <2>2, <2>3
    <3>2. (U + x) % U = x
      <4>1. U + x = 1 * U + x /\ 1 \in Int /\ U \in Nat \ {0}
        BY <1>1
      <4> QED
        BY <3>1, <4>1, RestIs
    <3>3. x = 0 * m + x /\ 0 \in Int
      BY <1>1
    <3> QED
      BY <1>5, <3>1, <3>2, <3>3
  <2>4. CASE x > m - j
    <3>1. PICK i : i = (x - m) + j + 1 - rest
      OBVIOUS
    <3>2. i \in 1..m /\ c + i - 1 = U + (x - m) - rest
      BY <1>1, <2>1, <2>2, <2>4, <3>1
    <3>3. c + i - 1 \in 0..(U - 1)
      BY <1>1, <2>1, <2>2, <2>4, <3>2
    <3>4. c + i - 1 = (Q - 1) * m + x /\ Q - 1 \in Int
      BY <1>1, <1>3, <3>2
    <3>5. (c + i - 1) % U = c + i - 1
      BY <1>5a, <3>3
    <3> QED
      BY <1>5, <3>2, <3>3, <3>4, <3>5
  <2> QED
    BY <1>1, <2>1, <2>3, <2>4
<1> QED
  BY <1>1, <1>6, <1>7

\* The counter is a uint32_t.
CounterInRange == \A w \in Workers : uuid_[w] \in 0..(UintRange - 1)

LEMMA CounterInvariance == SafeSpec => []CounterInRange
<1> UintRange \in Nat \ {0}
  BY WorkerAssumption
<1>1. Init => CounterInRange
  BY DEF Init, WorkerInit, CounterInRange
<1>2. IInv /\ CounterInRange /\ [Next]_vars => CounterInRange'
  <2> SUFFICES ASSUME IInv, CounterInRange, [Next]_vars, NEW v \in Workers
               PROVE  uuid_'[v] \in 0..(UintRange - 1)
    BY DEF CounterInRange
  <2>1. uuid_[v] \in 0..(UintRange - 1) /\ uuid_ \in [Workers -> Nat]
    BY DEF CounterInRange, IInv, TypeOK
  <2>2. CASE OtherStep \/ UNCHANGED vars
    BY <2>1, <2>2, OtherLeavesAlone DEF vars, workerVars
  <2>3. ASSUME NEW w \in Workers, RunWorker(w)
        PROVE  uuid_'[v] \in 0..(UintRange - 1)
    <3>1. CASE AddBegin(w)
      <4>1. PICK n \in 1..max_uuid : uuid_' = [uuid_ EXCEPT ![w] = (@ + n) % UintRange]
        BY <3>1 DEF AddBegin
      <4>2. uuid_[w] \in Nat /\ n \in Nat
        BY <2>1, WorkerAssumption
      <4> DEFINE a == uuid_[w] + n
      <4>3. a \in Nat
        BY <4>2
      <4>4. uuid_' = [uuid_ EXCEPT ![w] = a % UintRange]
        BY <4>1
      <4> HIDE DEF a
      <4>5. a % UintRange \in 0..(UintRange - 1)
        BY <4>3
      <4> QED
        BY <2>1, <4>4, <4>5
    <3>2. CASE ~AddBegin(w)
      <4>1. UNCHANGED uuid_
        BY <2>3, <3>2 DEF RunWorker, WorkerStep, ThreadStart, ThreadEnd, AddRefused, AddFailed,
           AddFinish, AddStart, RunStart, RunUpdate, RunStopEmpty, RunStop, RemoveMissing,
           RemoveFound
      <4> QED
        BY <2>1, <4>1
    <3> QED
      BY <3>1, <3>2
  <2> QED
    BY <2>2, <2>3, NextCases
<1> QED
  BY <1>1, <1>2, Invariance, PTL DEF SafeSpec

LEMMA TableSize ==
    ASSUME TypeOK, NEW w \in Workers
    PROVE  Cardinality(services_[w]) \in Nat
<1>1. IsFiniteSet(Uuid)
  BY FS_Interval, WorkerAssumption DEF Uuid
<1>2. services_[w] \subseteq Uuid
  BY DEF TypeOK
<1> QED
  BY <1>1, <1>2, FS_Subset, FS_CardinalityType

\* The number that add_service begins with is free, unless at least all but one are taken.
LEMMA BeginsFresh ==
    ASSUME IInv, CounterInRange, NEW w \in Workers, AddBegin(w),
           adding'[w].id \in services_[w]
    PROVE  Cardinality(services_[w]) >= max_uuid - 1
<1> DEFINE S == services_[w]
<1>1. S \subseteq Uuid /\ adding \in [Workers -> Adding] /\ max_uuid \in Nat \ {0}
  BY WorkerAssumption DEF IInv, TypeOK
<1>2. PICK n \in 1..max_uuid : Tries(w, n) /\ adding'[w].id = Candidate(w, n)
  BY <1>1 DEF AddBegin
<1>3. \A i \in 1..max_uuid : Candidate(w, i) \in S
  BY <1>1, <1>2 DEF Tries
<1>4. PICK r \in Int : \A x \in 0..(max_uuid - 1) :
          x # r => \E i \in 1..max_uuid : Residue(uuid_[w], i) = x
  BY ResiduesMissOne DEF CounterInRange
<1>5. Uuid \ {r + 1} \subseteq S
  <2> SUFFICES ASSUME NEW y \in Uuid, y # r + 1
               PROVE  y \in S
    OBVIOUS
  <2>1. y - 1 \in 0..(max_uuid - 1) /\ y - 1 # r /\ (y - 1) + 1 = y
    BY <1>1 DEF Uuid
  <2>2. PICK i \in 1..max_uuid : Residue(uuid_[w], i) = y - 1
    BY <1>4, <2>1
  <2>3. Candidate(w, i) = y
    BY <2>1, <2>2 DEF Candidate, Residue
  <2> QED
    BY <1>3, <2>3
<1>6. IsFiniteSet(Uuid) /\ Cardinality(Uuid) = max_uuid
  BY <1>1, FS_Interval DEF Uuid
<1>7. IsFiniteSet(S)
  BY <1>1, <1>6, FS_Subset
<1> DEFINE q == r + 1
<1>8. /\ IsFiniteSet(Uuid \ {q})
      /\ Cardinality(Uuid \ {q}) = IF q \in Uuid THEN Cardinality(Uuid) - 1 ELSE Cardinality(Uuid)
  <2> HIDE DEF q
  <2> QED
    BY <1>6, FS_RemoveElement
<1>9. Cardinality(Uuid \ {q}) <= Cardinality(S)
  BY <1>5, <1>7, FS_Subset
<1>10. Cardinality(S) \in Nat
  BY <1>7, FS_CardinalityType
<1> QED
  BY <1>1, <1>6, <1>8, <1>9, <1>10

\* A service gets a number of its own, for every counter and every table, whatever comes,
\* goes and wraps meanwhile, unless at least all numbers but one are taken (worker::uuid
\* and the loop around it in add_service).
THEOREM NumbersAreFresh == SafeSpec => []FreshNumber
<1>1. Init => FreshNumber
  BY DEF Init, WorkerInit, FreshNumber
<1>2. IInv /\ CounterInRange /\ FreshNumber /\ [Next]_vars => FreshNumber'
  <2> SUFFICES ASSUME IInv, CounterInRange, FreshNumber, [Next]_vars, NEW v \in Workers,
                      wpc'[v] = "init", Cardinality(services_'[v]) < max_uuid - 1
               PROVE  adding'[v].id \notin services_'[v]
    BY DEF FreshNumber
  <2>1. CASE OtherStep \/ UNCHANGED vars
    BY <2>1, OtherLeavesAlone DEF vars, workerVars, FreshNumber
  <2>2. CASE RunWorker(v)
    <3> USE WorkerTypes DEF IInv
    <3>1. CASE AddBegin(v)
      <4>1. UNCHANGED services_
        BY <3>1 DEF AddBegin
      <4>2. Cardinality(services_[v]) \in Nat
        BY TableSize
      <4> QED
        BY <3>1, <4>1, <4>2, BeginsFresh, WorkerAssumption
    <3>2. CASE ~AddBegin(v)
      <4>1. wpc[v] = "init" /\ UNCHANGED <<services_, adding>>
        BY <2>2, <3>2 DEF RunWorker, WorkerStep, ThreadStart, ThreadEnd, AddRefused,
           AddFailed, AddFinish, AddStart, RunStart, RunUpdate, RunStopEmpty, RunStop,
           RemoveMissing, RemoveFound, Pops
      <4> QED
        BY <4>1 DEF FreshNumber
    <3> QED
      BY <3>1, <3>2
  <2>3. ASSUME NEW w \in Workers, RunWorker(w), v # w
        PROVE  adding'[v].id \notin services_'[v]
    BY <2>3, LoopIsLocal DEF IInv, FreshNumber
  <2> QED
    BY <2>1, <2>2, <2>3, NextCases
<1> QED
  BY <1>1, <1>2, Invariance, CounterInvariance, PTL DEF SafeSpec
-----------------------------------------------------------------------------
(* Configured services are created before run(), where scripts create none. *)

\* The configured services, by their place in the configuration.
Entries == 1..Len(Config)

\* A task that adds the entry c is in the queue q.
InQueue(q, c) == \E i \in 1..Len(q) : q[i].op = "add" /\ q[i].arg = c

\* Not two of them.
QueuedOnce(q, c) ==
    \A i, j \in 1..Len(q) :
        /\ q[i].op = "add" /\ q[i].arg = c
        /\ q[j].op = "add" /\ q[j].arg = c
        => i = j

\* The worker w is in the middle of creating the service of the entry c.
Initialising(w, c) == wpc[w] = "init" /\ adding[w].cfg = c

\* main has asked for the service of the entry c.
Placed(c) ==
    \/ pc = "place" /\ c < k
    \/ pc \notin {"emplace", "spawn_thread", "await_ready", "store_init", "place"}

\* An entry that is being created, or was, is in one place.
InOnePlace(c) ==
    /\ \A w \in Workers : QueuedOnce(queue_[w], c)
    /\ \A v, w \in Workers :
           /\ InQueue(queue_[v], c) /\ InQueue(queue_[w], c) => v = w
           /\ Initialising(v, c) /\ Initialising(w, c) => v = w
           /\ ~(InQueue(queue_[v], c) /\ Initialising(w, c))
    /\ c \in created => \A w \in Workers : ~InQueue(queue_[w], c) /\ ~Initialising(w, c)

\* Only entries that main has asked for are anywhere.
OnlyPlaced(c) ==
    /\ \A w \in Workers : InQueue(queue_[w], c) \/ Initialising(w, c) => c \in Entries /\ Placed(c)
    /\ c \in created => c \in Entries /\ Placed(c)

\* main's loop over the entries is at one of them, and each is in one place at most.
EntriesOnce ==
    /\ pc = "place" => k \in Entries
    /\ \A c : InOnePlace(c)
    /\ \A c : OnlyPlaced(c)

\* The services in the tables of the workers from i on.
InTables(tables, i) == UNION {{w} \X tables[w] : w \in i..NW}

\* Those of now.
Live(i) == InTables(services_, i)

\* What main's loop has added up and what it has yet to read is no more than was created.
CountBelow ==
    /\ Cardinality(Live(1)) <= Cardinality(created)
    /\ pc = "count" => k <= NW /\ acc + Cardinality(Live(k)) <= Cardinality(created)

\* Until somebody stops the server main waits for the services, and goes on with all.
Waits ==
    ~Stopped =>
        /\ pc \in {"place", "check_state", "count"} => server_state = "init"
        /\ pc \in {"store_ready", "start"} => Entries \subseteq created

-----------------------------------------------------------------------------
(* Adds in queues. *)

\* The adds of the queue t are adds of the queue q.
Thins(q, t) ==
    \A c :
        /\ InQueue(t, c) => InQueue(q, c)
        /\ QueuedOnce(q, c) => QueuedOnce(t, c)

\* Every add of t is in q, at a fixed distance.
Shifted(q, t, shift) ==
    \A i \in 1..Len(t) : t[i].op = "add" => i + shift \in 1..Len(q) /\ q[i + shift] = t[i]

\* Then they are apart as they are there.
LEMMA ThinsBy ==
    ASSUME NEW q, NEW t, NEW shift \in Int, Shifted(q, t, shift)
    PROVE  Thins(q, t)
<1> USE DEF Shifted
<1>1. ASSUME NEW c, InQueue(t, c)
      PROVE  InQueue(q, c)
  BY <1>1 DEF InQueue
<1>2. ASSUME NEW c, QueuedOnce(q, c)
      PROVE  QueuedOnce(t, c)
  <2> SUFFICES ASSUME NEW i \in 1..Len(t), NEW j \in 1..Len(t),
                      t[i].op = "add", t[i].arg = c, t[j].op = "add", t[j].arg = c
               PROVE  i = j
    BY DEF QueuedOnce
  <2>1. i + shift = j + shift
    BY <1>2 DEF QueuedOnce
  <2> QED
    BY <2>1
<1> QED
  BY <1>1, <1>2 DEF Thins

\* Popping a task adds none.
LEMMA ThinsTail ==
    ASSUME NEW q \in Seq(Task), q # <<>>
    PROVE  Thins(q, Tail(q))
<1>1. Len(q) \in Nat /\ Len(Tail(q)) = Len(q) - 1
  BY HeadTailProperties, LenProperties
<1>2. \A i \in 1..Len(Tail(q)) : i + 1 \in 1..Len(q) /\ q[i + 1] = Tail(q)[i]
  BY <1>1, HeadTailProperties
<1>3. Shifted(q, Tail(q), 1)
  BY <1>2 DEF Shifted
<1> QED
  BY <1>3, ThinsBy

\* Nor does putting tasks that are not adds behind the others.
LEMMA ThinsConcat ==
    ASSUME NEW q \in Seq(Task), NEW r \in Seq(Task),
           \A i \in 1..Len(r) : r[i].op # "add"
    PROVE  Thins(q, q \o r)
<1>1. Len(q \o r) = Len(q) + Len(r) /\ Len(q) \in Nat /\ Len(r) \in Nat
  BY ConcatProperties, LenProperties
<1>2. ASSUME NEW i \in 1..Len(q \o r), (q \o r)[i].op = "add"
      PROVE  i + 0 \in 1..Len(q) /\ q[i + 0] = (q \o r)[i]
  <2>1. CASE i <= Len(q)
    BY <1>1, <2>1, ConcatProperties
  <2>2. CASE i > Len(q)
    <3>1. i - Len(q) \in 1..Len(r) /\ (q \o r)[i] = r[i - Len(q)]
      BY <1>1, <2>2, ConcatProperties
    <3> QED
      BY <1>2, <3>1
  <2> QED
    BY <1>1, <2>1, <2>2
<1>3. Shifted(q, q \o r, 0)
  BY <1>2 DEF Shifted
<1> QED
  BY <1>3, ThinsBy

\* Nor does posting one.
LEMMA ThinsAppend ==
    ASSUME NEW q \in Seq(Task), NEW u \in Task, u.op # "add"
    PROVE  Thins(q, Append(q, u))
<1>1. Len(Append(q, u)) = Len(q) + 1 /\ Append(q, u)[Len(q) + 1] = u /\ Len(q) \in Nat
  BY AppendProperties, LenProperties
<1>2. \A i \in 1..Len(q) : Append(q, u)[i] = q[i]
  BY AppendProperties
<1>3. Shifted(q, Append(q, u), 0)
  BY <1>1, <1>2 DEF Shifted
<1> QED
  BY <1>3, ThinsBy

\* An entry that was not queued is queued once when it is posted, and no other is.
LEMMA AppendAdd ==
    ASSUME NEW q \in Seq(Task), NEW u \in Task, u.op = "add", ~InQueue(q, u.arg)
    PROVE  /\ QueuedOnce(Append(q, u), u.arg)
           /\ \A c : c # u.arg =>
                  /\ InQueue(Append(q, u), c) => InQueue(q, c)
                  /\ QueuedOnce(q, c) => QueuedOnce(Append(q, u), c)
<1> DEFINE t == Append(q, u)
<1>1. Len(t) = Len(q) + 1 /\ t[Len(q) + 1] = u /\ Len(q) \in Nat
  BY AppendProperties, LenProperties
<1>2. \A i \in 1..Len(q) : t[i] = q[i]
  BY AppendProperties
<1> HIDE DEF t
<1>3. \A i \in 1..Len(t) : (i \in 1..Len(q) /\ t[i] = q[i]) \/ (i = Len(q) + 1 /\ t[i] = u)
  BY <1>1, <1>2
<1>4. QueuedOnce(t, u.arg)
  BY <1>3 DEF QueuedOnce, InQueue
<1>5. \A c : c # u.arg => (InQueue(t, c) => InQueue(q, c))
  BY <1>3 DEF InQueue
<1>6. \A c : c # u.arg => (QueuedOnce(q, c) => QueuedOnce(t, c))
  BY <1>3 DEF QueuedOnce
<1> QED
  BY <1>4, <1>5, <1>6 DEF t

\* An entry that is taken from the queue is not queued any more.
LEMMA HeadTaken ==
    ASSUME NEW q \in Seq(Task), q # <<>>, Head(q).op = "add", QueuedOnce(q, Head(q).arg)
    PROVE  InQueue(q, Head(q).arg) /\ ~InQueue(Tail(q), Head(q).arg)
<1>1. Len(q) \in Nat /\ Len(q) >= 1 /\ Len(Tail(q)) = Len(q) - 1 /\ q[1] = Head(q)
  BY HeadTailProperties, LenProperties, EmptySeq
<1>2. \A i \in 1..Len(Tail(q)) : i + 1 \in 1..Len(q) /\ i + 1 # 1 /\ q[i + 1] = Tail(q)[i]
  BY <1>1, HeadTailProperties
<1>3. 1 \in 1..Len(q)
  BY <1>1
<1> QED
  BY <1>1, <1>2, <1>3 DEF InQueue, QueuedOnce

-----------------------------------------------------------------------------
(* Who posts adds. *)

\* No add comes into the queue of w.
Calm(w) == Thins(queue_[w], queue_'[w])

\* A step of the others that posts no add.
LEMMA OtherThins ==
    ASSUME MaxSpawn = 0, TypeOK, OtherStep, ~Place, NEW w \in Workers
    PROVE  Calm(w)
<1>a. ASSUME NEW v, NEW u \in Task, u.op # "add", queue_' = [queue_ EXCEPT ![v] = Append(@, u)]
      PROVE  Calm(w)
  <2>1. queue_[w] \in Seq(Task)
    BY DEF TypeOK
  <2>2. queue_'[w] = queue_[w] \/ queue_'[w] = Append(queue_[w], u)
    BY <1>a DEF TypeOK
  <2> QED
    BY <1>a, <2>1, <2>2, ThinsAppend DEF Calm, Thins
<1>b. UNCHANGED queue_ => Calm(w)
  BY DEF Calm, Thins
<1>c. /\ SimpleTask("start") \in Task /\ SimpleTask("start").op # "add"
      /\ SimpleTask("stop") \in Task /\ SimpleTask("stop").op # "add"
      /\ SimpleTask("update") \in Task /\ SimpleTask("update").op # "add"
  BY TaskTypes DEF SimpleTask
<1>d. ASSUME NEW v, NEW id \in Uuid, remove_service(v, id)
      PROVE  Calm(w)
  <2>1. RemoveTask(id) \in Task /\ RemoveTask(id).op # "add"
    BY TaskTypes, WorkerAssumption DEF Uuid, RemoveTask
  <2>2. UNCHANGED queue_ \/ queue_' = [queue_ EXCEPT ![v] = Append(@, RemoveTask(id))]
    BY <1>d DEF remove_service, Post
  <2> QED
    BY <1>a, <1>b, <2>1, <2>2
<1>1. CASE MainStep
  <2>1. CASE PostStart
    <3>1. queue_' = [queue_ EXCEPT ![k] = Append(@, SimpleTask("start"))]
      BY <2>1 DEF PostStart, Post
    <3> QED
      BY <3>1, <1>a, <1>c
  <2>2. CASE Scan
    <3>1. \/ UNCHANGED queue_
          \/ queue_' = [queue_ EXCEPT ![k] = Append(@, SimpleTask("update"))]
      BY <2>2 DEF Scan, Post
    <3> QED
      BY <3>1, <1>a, <1>b, <1>c
  <2>3. CASE ~(PostStart \/ Scan)
    BY <2>3, <1>b, <1>1 DEF MainStep, Emplace, SpawnThread, AwaitReady, StoreInit, CheckState,
       Count, StoreReady, Join, StoreExited, Release, DtorWait, workerVars
  <2> QED
    BY <2>1, <2>2, <2>3
<1>2. ASSUME NEW t \in Callers, StopStep(t)
      PROVE  Calm(w)
  <2>1. \/ UNCHANGED queue_
        \/ queue_' = [queue_ EXCEPT ![next[t]] = Append(@, SimpleTask("stop"))]
    BY <1>2 DEF StopStep, StopExchange, StopPost, StopReturn, CloseReturn, workerVars, Post
  <2> QED
    BY <2>1, <1>a, <1>b, <1>c
<1>3. ASSUME NEW t \in Handlers, ConsoleEvent(t)
      PROVE  Calm(w)
  BY <1>3, <1>b DEF ConsoleEvent, workerVars
<1>4. ASSUME NEW v \in Workers, NEW x \in 0..NW, NEW ok \in BOOLEAN, ScriptSpawn(v, x, ok)
      PROVE  FALSE
  <2>1. spawned \in Nat /\ spawned < 0
    BY <1>4 DEF ScriptSpawn, TypeOK
  <2> QED
    BY <2>1
<1>5. ASSUME NEW v \in Workers,
             \/ \E x \in Workers, id \in Uuid : ScriptRemove(v, x, id)
             \/ \E id \in Uuid : ScriptQuit(v, id)
      PROVE  Calm(w)
  BY <1>5, <1>d DEF ScriptRemove, ScriptQuit
<1>6. ASSUME NEW v \in Workers, ScriptAbort(v)
      PROVE  Calm(w)
  BY <1>6, <1>b DEF ScriptAbort, workerVars
<1>7. ASSUME NEW v \in Workers,
             \/ \E x \in 0..NW, ok \in BOOLEAN : ScriptSpawn(v, x, ok)
             \/ \E x \in Workers, id \in Uuid : ScriptRemove(v, x, id)
             \/ \E id \in Uuid : ScriptQuit(v, id)
             \/ ScriptAbort(v)
      PROVE  Calm(w)
  BY <1>7, <1>4, <1>5, <1>6
<1> QED
  BY <1>1, <1>2, <1>3, <1>7 DEF OtherStep

\* A worker's loop posts none.
LEMMA LoopThins ==
    ASSUME TypeOK, NEW w \in Workers, RunWorker(w), NEW v \in Workers
    PROVE  Calm(v)
<1>1. queue_[v] \in Seq(Task)
  BY DEF TypeOK
<1>2. CASE queue_'[v] = queue_[v]
  BY <1>2 DEF Calm, Thins
<1>3. CASE queue_'[v] # queue_[v]
  <2>1. v = w
    BY <1>3, LoopIsLocal
  <2>2. CASE ~RunStop(w)
    <3>1. queue_' = [queue_ EXCEPT ![w] = Tail(@)] /\ queue_[w] # <<>>
      BY <1>3, <2>1, <2>2 DEF RunWorker, WorkerStep, ThreadStart, ThreadEnd, AddRefused,
         AddBegin, AddFailed, AddFinish, AddStart, RunStart, RunUpdate, RunStopEmpty,
         RemoveMissing, RemoveFound, Pops, Popped
    <3>2. queue_'[w] = Tail(queue_[w])
      BY <3>1 DEF TypeOK
    <3> QED
      BY <1>1, <2>1, <3>1, <3>2, ThinsTail DEF Calm
  <2>3. CASE RunStop(w)
    <3>1. Pops(w, "stop") /\ queue_[w] # <<>>
      BY <2>3 DEF RunStop, Pops
    <3>2. PICK quits \in SUBSET services_[w] :
              \E order \in Orders(quits) : queue_' = AfterStop(w, quits, order)
      BY <2>3 DEF RunStop, AfterStop, Removals
    <3>3. PICK order \in Orders(quits) : queue_' = AfterStop(w, quits, order)
      BY <3>2
    <3> DEFINE r == Removals(quits, order)
               t == Tail(queue_[w])
    <3>4. r \in Seq(Task) /\ t \in Seq(Task)
      BY <1>1, <2>1, <3>1, AfterStopType, HeadTailProperties
    <3>5. \A i \in 1..Len(r) : r[i].op # "add"
      <4>1. Cardinality(quits) \in Nat
        BY <3>1, AfterStopType
      <4> QED
        BY <4>1 DEF Removals, RemoveTask
    <3>6. queue_'[w] = t \o r
      BY <3>3 DEF AfterStop, TypeOK
    <3> HIDE DEF r
    <3>7. Thins(queue_[w], t) /\ Thins(t, t \o r)
      BY <1>1, <2>1, <3>1, <3>4, <3>5, ThinsTail, ThinsConcat
    <3> QED
      BY <2>1, <3>6, <3>7 DEF Calm, Thins
  <2> QED
    BY <2>2, <2>3
<1> QED
  BY <1>2, <1>3

-----------------------------------------------------------------------------
(* Each entry is created once. *)

\* main has not gone back, and is at an entry while it places them.
MainGoesOn ==
    /\ \A c \in Entries : Placed(c) => Placed(c)'
    /\ pc' = "place" => k' \in Entries

\* No step but Place can break that.
LEMMA MainGoes ==
    ASSUME TypeOK, OtherStep, ~Place, pc = "place" => k \in Entries
    PROVE  MainGoesOn
<1> USE DEF Placed, MainGoesOn
<1>1. CASE UNCHANGED <<pc, k>>
  BY <1>1
<1>2. CASE MainStep
  <2>1. CASE StoreInit
    <3>1. Config # <<>> => Len(Config) \in Nat \ {0}
      BY ServerAssumption, EmptySeq
    <3>2. Config # <<>> => 1 \in Entries
      BY <3>1 DEF Entries
    <3> QED
      BY <2>1, <3>2 DEF StoreInit, Goto
  <2>2. CASE Emplace \/ SpawnThread \/ AwaitReady
    BY <2>2 DEF Emplace, SpawnThread, AwaitReady, LoopTo, Goto
  <2>3. CASE CheckState \/ Count \/ StoreReady \/ PostStart
    BY <2>3 DEF CheckState, Count, StoreReady, PostStart, LoopTo, Goto
  <2>4. CASE Scan \/ Join \/ StoreExited \/ Release \/ DtorWait
    BY <2>4 DEF Scan, Join, StoreExited, Release, DtorWait, Goto
  <2> QED
    BY <1>2, <2>1, <2>2, <2>3, <2>4 DEF MainStep
<1> QED
  BY <1>1, <1>2, OtherThread

\* Nothing is queued or begun that was not, and nothing is created.
LEMMA FrameEntries ==
    ASSUME EntriesOnce, MainGoesOn, \A w \in Workers : Calm(w),
           \A w \in Workers : \A c : Initialising(w, c)' => Initialising(w, c),
           created' = created
    PROVE  EntriesOnce'
<1>1. \A w \in Workers : \A c :
          /\ InQueue(queue_'[w], c) => InQueue(queue_[w], c)
          /\ QueuedOnce(queue_[w], c) => QueuedOnce(queue_'[w], c)
  BY DEF Calm, Thins
<1>2. ASSUME NEW c
      PROVE  InOnePlace(c)' /\ OnlyPlaced(c)'
  <2>1. InOnePlace(c) /\ OnlyPlaced(c) /\ (c \in Entries /\ Placed(c) => Placed(c)')
    BY DEF EntriesOnce, MainGoesOn
  <2>2. InOnePlace(c)'
    BY <1>1, <2>1 DEF InOnePlace
  <2>3. OnlyPlaced(c)'
    BY <1>1, <2>1 DEF OnlyPlaced
  <2> QED
    BY <2>2, <2>3
<1> QED
  BY <1>2 DEF EntriesOnce, MainGoesOn

\* main asks for the service of the next entry.
LEMMA PlaceEntries ==
    ASSUME TypeOK, EntriesOnce, Place
    PROVE  EntriesOnce'
<1>1. PICK e \in Entries : e = k /\ \E ok \in BOOLEAN : new_service(Config[e], AddTask(e, ok))
  BY DEF Place, EntriesOnce
<1>2. PICK ok \in BOOLEAN : new_service(Config[e], AddTask(e, ok))
  BY <1>1
<1> DEFINE u == AddTask(e, ok)
<1>3. u \in Task /\ u.op = "add" /\ u.arg = e
  BY <1>1, TaskTypes DEF TypeOK, AddTask
<1>4. PICK v : queue_' = [queue_ EXCEPT ![v] = Append(@, u)]
  BY <1>2 DEF new_service, NewServiceOn, NewServiceAnywhere, Post
<1>5. UNCHANGED <<wpc, adding, created>> /\ pc = "place"
  BY <1>2 DEF new_service, Place
<1> HIDE DEF u
<1>6. Len(Config) \in Nat /\ e \in 1..Len(Config)
  BY <1>1, ServerAssumption, LenProperties DEF Entries
<1>7. \/ pc' = "place" /\ k' = e + 1 /\ e < Len(Config)
      \/ pc' = "check_state"
  BY <1>1 DEF Place, LoopTo, Goto
<1>8. \A c \in Entries : Placed(c) => Placed(c)'
  BY <1>1, <1>5, <1>6, <1>7 DEF Placed, Entries
<1>9. Placed(e)' /\ ~Placed(e)
  BY <1>1, <1>5, <1>6, <1>7 DEF Placed
<1>10. pc' = "place" => k' \in Entries
  BY <1>6, <1>7 DEF Entries
<1>11. \A w \in Workers : ~InQueue(queue_[w], e) /\ ~Initialising(w, e)
  BY <1>9 DEF EntriesOnce, OnlyPlaced
<1>12. e \notin created
  BY <1>9 DEF EntriesOnce, OnlyPlaced
<1>13. \A w \in Workers : queue_'[w] = IF w = v THEN Append(queue_[w], u) ELSE queue_[w]
  BY <1>4 DEF TypeOK
<1>14. \A w \in Workers : queue_[w] \in Seq(Task)
  BY DEF TypeOK
<1>15. ASSUME NEW w \in Workers
       PROVE  /\ QueuedOnce(queue_'[w], e)
              /\ InQueue(queue_'[w], e) => w = v
              /\ \A c : c # e => /\ InQueue(queue_'[w], c) => InQueue(queue_[w], c)
                                 /\ QueuedOnce(queue_[w], c) => QueuedOnce(queue_'[w], c)
  <2>1. CASE w = v
    <3>1. ~InQueue(queue_[w], u.arg)
      BY <1>3, <1>11
    <3>2. /\ QueuedOnce(Append(queue_[w], u), e)
          /\ \A c : c # e =>
                 /\ InQueue(Append(queue_[w], u), c) => InQueue(queue_[w], c)
                 /\ QueuedOnce(queue_[w], c) => QueuedOnce(Append(queue_[w], u), c)
      BY <1>3, <1>14, <3>1, AppendAdd
    <3> QED
      BY <1>13, <2>1, <3>2
  <2>2. CASE w # v
    <3>1. queue_'[w] = queue_[w]
      BY <1>13, <2>2
    <3>2. QueuedOnce(queue_[w], e)
      BY DEF EntriesOnce, InOnePlace
    <3> QED
      BY <1>11, <3>1, <3>2
  <2> QED
    BY <2>1, <2>2
<1>16. InOnePlace(e)' /\ OnlyPlaced(e)'
  <2>1. InOnePlace(e)'
    BY <1>5, <1>11, <1>12, <1>15 DEF InOnePlace, Initialising
  <2>2. OnlyPlaced(e)'
    BY <1>1, <1>9 DEF OnlyPlaced
  <2> QED
    BY <2>1, <2>2
<1>17. ASSUME NEW c, c # e
       PROVE  InOnePlace(c)' /\ OnlyPlaced(c)'
  <2>1. InOnePlace(c) /\ OnlyPlaced(c) /\ (c \in Entries /\ Placed(c) => Placed(c)')
    BY <1>8 DEF EntriesOnce
  <2>2. \A w \in Workers : /\ InQueue(queue_'[w], c) => InQueue(queue_[w], c)
                           /\ QueuedOnce(queue_[w], c) => QueuedOnce(queue_'[w], c)
                           /\ Initialising(w, c)' <=> Initialising(w, c)
    BY <1>5, <1>15, <1>17 DEF Initialising
  <2>3. InOnePlace(c)'
    BY <1>5, <2>1, <2>2 DEF InOnePlace
  <2>4. OnlyPlaced(c)'
    BY <1>5, <2>1, <2>2 DEF OnlyPlaced
  <2> QED
    BY <2>3, <2>4
<1>18. \A c : InOnePlace(c)' /\ OnlyPlaced(c)'
  BY <1>16, <1>17
<1> QED
  BY <1>10, <1>18 DEF EntriesOnce

\* A worker takes an entry from its queue and begins to create the service.
LEMMA BeginEntries ==
    ASSUME TypeOK, EntriesOnce, NEW w \in Workers, RunWorker(w), AddBegin(w)
    PROVE  EntriesOnce'
<1> DEFINE q == queue_[w]
<1>1. q \in Seq(Task) /\ q # <<>> /\ Head(q).op = "add" /\ wpc[w] = "loop"
  BY DEF TypeOK, AddBegin, Pops
<1>2. PICK e : e = Head(q).arg
  OBVIOUS
<1>3. /\ queue_' = [queue_ EXCEPT ![w] = Tail(q)]
      /\ wpc' = [wpc EXCEPT ![w] = "init"]
      /\ created' = created
  BY DEF AddBegin, Popped
<1>4. adding'[w].cfg = e /\ \A v \in Workers : v # w => adding'[v] = adding[v]
  BY <1>2 DEF AddBegin, TypeOK
<1>5. UNCHANGED <<pc, k>>
  BY DEF RunWorker, mainVars
<1>6. \A v \in Workers : /\ queue_'[v] = IF v = w THEN Tail(q) ELSE queue_[v]
                         /\ wpc'[v] = IF v = w THEN "init" ELSE wpc[v]
  BY <1>3 DEF TypeOK
<1>7. InQueue(q, e) /\ ~InQueue(Tail(q), e)
  <2>1. QueuedOnce(q, Head(q).arg)
    BY DEF EntriesOnce, InOnePlace
  <2> QED
    BY <1>1, <1>2, <2>1, HeadTaken
<1>8. \A v \in Workers : \A c :
          /\ InQueue(queue_'[v], c) => InQueue(queue_[v], c)
          /\ QueuedOnce(queue_[v], c) => QueuedOnce(queue_'[v], c)
  BY LoopThins DEF Calm, Thins
<1>9. \A v \in Workers : \A c : Initialising(v, c)' <=> (v = w /\ c = e) \/ Initialising(v, c)
  BY <1>1, <1>4, <1>6 DEF Initialising
<1> HIDE DEF q
<1>10. \A v \in Workers : ~InQueue(queue_'[v], e)
  BY <1>6, <1>7 DEF EntriesOnce, InOnePlace, q
<1>11. \A v \in Workers : ~Initialising(v, e)
  BY <1>7 DEF EntriesOnce, InOnePlace, q
<1>12. e \notin created
  BY <1>7 DEF EntriesOnce, InOnePlace, q
<1>13. e \in Entries /\ Placed(e)
  BY <1>7 DEF EntriesOnce, OnlyPlaced, q
<1>14. InOnePlace(e)' /\ OnlyPlaced(e)'
  <2>1. InOnePlace(e) /\ Placed(e)'
    BY <1>5, <1>13 DEF EntriesOnce, Placed
  <2>2. InOnePlace(e)'
    BY <1>3, <1>8, <1>9, <1>10, <1>11, <1>12, <2>1 DEF InOnePlace
  <2> QED
    BY <1>13, <2>1, <2>2 DEF OnlyPlaced
<1>15. ASSUME NEW c, c # e
       PROVE  InOnePlace(c)' /\ OnlyPlaced(c)'
  <2>1. InOnePlace(c) /\ OnlyPlaced(c) /\ (Placed(c) => Placed(c)')
    BY <1>5 DEF EntriesOnce, Placed
  <2>2. \A v \in Workers : Initialising(v, c)' <=> Initialising(v, c)
    BY <1>9, <1>15
  <2>3. InOnePlace(c)'
    BY <1>3, <1>8, <2>1, <2>2 DEF InOnePlace
  <2>4. OnlyPlaced(c)'
    BY <1>3, <1>8, <2>1, <2>2 DEF OnlyPlaced
  <2> QED
    BY <2>3, <2>4
<1> QED
  BY <1>5, <1>14, <1>15 DEF EntriesOnce

\* The service of an entry is there.  It was not created before.
LEMMA FinishEntries ==
    ASSUME TypeOK, EntriesOnce, NEW w \in Workers, RunWorker(w), AddFinish(w)
    PROVE  EntriesOnce' /\ adding[w].cfg \notin created
<1>1. PICK e : e = adding[w].cfg
  OBVIOUS
<1>2. /\ wpc[w] = "init"
      /\ wpc' = [wpc EXCEPT ![w] = "add_start"]
      /\ created' = created \cup {e}
      /\ UNCHANGED <<queue_, adding>>
  BY <1>1 DEF AddFinish
<1>3. UNCHANGED <<pc, k>>
  BY DEF RunWorker, mainVars
<1>4. \A v \in Workers : \A c : Initialising(v, c)' <=> v # w /\ Initialising(v, c)
  BY <1>2 DEF Initialising, TypeOK
<1>5. Initialising(w, e)
  BY <1>1, <1>2 DEF Initialising
<1>6. e \notin created /\ e \in Entries /\ Placed(e)
  BY <1>5 DEF EntriesOnce, InOnePlace, OnlyPlaced
<1>7. \A v \in Workers : ~InQueue(queue_[v], e) /\ ~Initialising(v, e)'
  BY <1>4, <1>5 DEF EntriesOnce, InOnePlace
<1>8. ASSUME NEW c
      PROVE  InOnePlace(c)' /\ OnlyPlaced(c)'
  <2>1. InOnePlace(c) /\ OnlyPlaced(c) /\ (Placed(c) => Placed(c)')
    BY <1>3 DEF EntriesOnce, Placed
  <2>2. InOnePlace(c)'
    BY <1>2, <1>4, <1>7, <2>1 DEF InOnePlace
  <2>3. OnlyPlaced(c)'
    BY <1>2, <1>4, <1>6, <2>1 DEF OnlyPlaced
  <2> QED
    BY <2>2, <2>3
<1> QED
  BY <1>1, <1>3, <1>6, <1>8 DEF EntriesOnce

\* Every step keeps entries in one place.
LEMMA EntriesStep ==
    ASSUME MaxSpawn = 0, TypeOK, EntriesOnce, [Next]_vars
    PROVE  EntriesOnce'
<1>1. CASE OtherStep
  <2>1. CASE Place
    BY <2>1, PlaceEntries
  <2>2. CASE ~Place
    <3>1. UNCHANGED <<wpc, adding, created>>
      BY <1>1, OtherLeavesAlone
    <3>2. \A w \in Workers : Calm(w)
      BY <1>1, <2>2, OtherThins
    <3>3. MainGoesOn
      BY <1>1, <2>2, MainGoes DEF EntriesOnce
    <3> QED
      BY <3>1, <3>2, <3>3, FrameEntries DEF Initialising
  <2> QED
    BY <2>1, <2>2
<1>2. ASSUME NEW w \in Workers, RunWorker(w)
      PROVE  EntriesOnce'
  <2>1. CASE AddBegin(w)
    BY <1>2, <2>1, BeginEntries
  <2>2. CASE AddFinish(w)
    BY <1>2, <2>2, FinishEntries
  <2>3. CASE ~(AddBegin(w) \/ AddFinish(w))
    <3>1. created' = created
      BY <1>2, <2>3 DEF RunWorker, WorkerStep, ThreadStart, ThreadEnd, AddRefused,
         AddFailed, AddStart, RunStart, RunUpdate, RunStopEmpty, RunStop, RemoveMissing,
         RemoveFound
    <3>2. UNCHANGED <<wpc, adding>> \/ wpc' = [wpc EXCEPT ![w] = "loop"]
      BY <1>2, <2>3 DEF RunWorker, WorkerStep, ThreadStart, ThreadEnd, AddRefused,
         AddFailed, AddStart, RunStart, RunUpdate, RunStopEmpty, RunStop, RemoveMissing,
         RemoveFound
    <3>3. \A v \in Workers : v # w => wpc'[v] = wpc[v] /\ adding'[v] = adding[v]
      BY <1>2, LoopIsLocal
    <3>4. \A v \in Workers : \A c : Initialising(v, c)' => Initialising(v, c)
      BY <3>2, <3>3 DEF Initialising, TypeOK
    <3>5. \A v \in Workers : Calm(v)
      BY <1>2, LoopThins
    <3>6. MainGoesOn
      BY <1>2 DEF RunWorker, mainVars, MainGoesOn, Placed, EntriesOnce
    <3> QED
      BY <3>1, <3>4, <3>5, <3>6, FrameEntries
  <2> QED
    BY <2>1, <2>2, <2>3
<1>3. CASE UNCHANGED vars
  <2>1. UNCHANGED <<queue_, wpc, adding, created, pc, k>>
    BY <1>3 DEF vars, workerVars, mainVars
  <2>2. \A w \in Workers : Calm(w)
    BY <2>1 DEF Calm, Thins
  <2>3. MainGoesOn
    BY <2>1 DEF MainGoesOn, Placed, EntriesOnce
  <2> QED
    BY <2>1, <2>2, <2>3, FrameEntries DEF Initialising
<1> QED
  BY <1>1, <1>2, <1>3, NextCases

-----------------------------------------------------------------------------
(* What main counts is no more than what was created. *)

\* The services in tables are finitely many, and so are the entries created.
LEMMA LiveFinite ==
    ASSUME NEW s \in [Workers -> SUBSET Uuid]
    PROVE  /\ \A w \in Workers : IsFiniteSet(s[w])
           /\ \A i \in 1..(NW + 1) :
                  IsFiniteSet(InTables(s, i)) /\ InTables(s, i) \subseteq Workers \X Uuid
           /\ \A i \in 1..(NW + 1) : Cardinality(InTables(s, i)) \in Nat
<1>1. NW \in Nat \ {0} /\ max_uuid \in Nat \ {0}
  BY WorkerAssumption
<1>2. IsFiniteSet(Workers) /\ IsFiniteSet(Uuid)
  BY <1>1, FS_Interval DEF Workers, Uuid
<1>3. IsFiniteSet(Workers \X Uuid)
  BY <1>2, FS_Product
<1>4. \A w \in Workers : s[w] \subseteq Uuid
  OBVIOUS
<1>5. \A i \in 1..(NW + 1) : \A w \in i..NW : w \in Workers
  BY <1>1 DEF Workers
<1>6. \A i \in 1..(NW + 1) : InTables(s, i) \subseteq Workers \X Uuid
  BY <1>4, <1>5 DEF InTables
<1>7. \A i \in 1..(NW + 1) : IsFiniteSet(InTables(s, i))
  BY <1>3, <1>6, FS_Subset
<1>8. \A i \in 1..(NW + 1) : Cardinality(InTables(s, i)) \in Nat
  BY <1>7, FS_CardinalityType
<1>9. \A w \in Workers : IsFiniteSet(s[w])
  BY <1>2, <1>4, FS_Subset
<1> QED
  BY <1>6, <1>7, <1>8, <1>9

\* Those of one worker, and those of the workers behind it.
LEMMA LiveFrom ==
    ASSUME TypeOK, NEW i \in Workers
    PROVE  /\ Cardinality(Live(i)) = Cardinality(services_[i]) + Cardinality(Live(i + 1))
           /\ i = NW => Cardinality(Live(i + 1)) = 0
<1> DEFINE A == {i} \X services_[i]
           B == Live(i + 1)
<1>1. NW \in Nat \ {0} /\ i \in Nat /\ i >= 1 /\ i <= NW
  BY WorkerAssumption DEF Workers
<1>2. i + 1 \in 1..(NW + 1)
  BY <1>1
<1>3. IsFiniteSet(B) /\ IsFiniteSet(services_[i]) /\ Cardinality(B) \in Nat
  BY <1>2, LiveFinite DEF TypeOK, Live
<1>4. IsFiniteSet({i}) /\ Cardinality({i}) = 1
  BY FS_Singleton
<1>5. IsFiniteSet(A) /\ Cardinality(A) = 1 * Cardinality(services_[i])
  BY <1>3, <1>4, FS_Product
<1>6. Cardinality(services_[i]) \in Nat
  BY <1>3, FS_CardinalityType
<1>7. i..NW = {i} \cup ((i + 1)..NW) /\ i \notin (i + 1)..NW
  BY <1>1
<1>8. Live(i) = A \cup B
  BY <1>7 DEF Live, InTables
<1>9. A \cap B = {}
  BY <1>7 DEF Live, InTables
<1> HIDE DEF A, B
<1>10. Cardinality(A \cup B) = Cardinality(A) + Cardinality(B) - Cardinality(A \cap B)
  BY <1>3, <1>5, FS_Union
<1>11. Cardinality(A \cap B) = 0
  BY <1>9, FS_EmptySet
<1>12. Cardinality(Live(i)) = Cardinality(services_[i]) + Cardinality(B)
  BY <1>3, <1>5, <1>6, <1>8, <1>10, <1>11
<1>13. i = NW => Cardinality(B) = 0
  <2>1. i = NW => B = {}
    <3>1. i = NW => (i + 1)..NW = {}
      BY <1>1
    <3> QED
      BY <3>1 DEF B, Live, InTables
  <2> QED
    BY <2>1, FS_EmptySet
<1> QED
  BY <1>12, <1>13 DEF B

\* Entries that were created are finitely many, and all when there are enough of them.
LEMMA CreatedFinite ==
    ASSUME NEW C \in SUBSET Entries
    PROVE  /\ IsFiniteSet(C) /\ Cardinality(C) \in Nat
           /\ Cardinality(C) >= Len(Config) => C = Entries
<1>1. Len(Config) \in Nat
  BY ServerAssumption, LenProperties
<1>2. IsFiniteSet(Entries) /\ Cardinality(Entries) = Len(Config)
  BY <1>1, FS_Interval DEF Entries
<1>3. /\ IsFiniteSet(C)
      /\ Cardinality(C) <= Cardinality(Entries)
      /\ Cardinality(Entries) = Cardinality(C) => Entries = C
  BY <1>2, FS_Subset
<1>4. Cardinality(C) \in Nat
  BY <1>3, FS_CardinalityType
<1> QED
  BY <1>1, <1>2, <1>3, <1>4

\* What the lemmas below need of the state before and after a step.
LEMMA BothFinite ==
    ASSUME TypeOK, TypeOK', EntriesOnce, EntriesOnce'
    PROVE  /\ IsFiniteSet(created) /\ Cardinality(created) \in Nat
           /\ IsFiniteSet(created') /\ Cardinality(created') \in Nat
           /\ \A i \in 1..(NW + 1) :
                  /\ IsFiniteSet(Live(i)) /\ Cardinality(Live(i)) \in Nat
                  /\ IsFiniteSet(Live(i)') /\ Cardinality(Live(i)') \in Nat
<1>1. created \in SUBSET Entries /\ created' \in SUBSET Entries
  BY DEF EntriesOnce, OnlyPlaced
<1>2. services_ \in [Workers -> SUBSET Uuid] /\ services_' \in [Workers -> SUBSET Uuid]
  BY DEF TypeOK
<1> QED
  BY <1>1, <1>2, CreatedFinite, LiveFinite DEF Live

\* The tables grow with what is created, and only then.
LEMMA LiveStep ==
    ASSUME IInv, EntriesOnce, EntriesOnce', [Next]_vars, NEW i \in 1..(NW + 1)
    PROVE  /\ Cardinality(created) <= Cardinality(created')
           /\ Cardinality(Live(i)') - Cardinality(Live(i)) <=
                  Cardinality(created') - Cardinality(created)
<1>1. TypeOK /\ TypeOK'
  BY NextCases, OtherIInv, WorkerIInv, StutterIInv DEF IInv
<1>2. /\ IsFiniteSet(Live(i)) /\ IsFiniteSet(Live(i)')
      /\ Cardinality(Live(i)) \in Nat /\ Cardinality(Live(i)') \in Nat
  BY <1>1, BothFinite
<1>3. /\ IsFiniteSet(created) /\ Cardinality(created) \in Nat
      /\ IsFiniteSet(created') /\ Cardinality(created') \in Nat
  BY <1>1, BothFinite
<1>4. ASSUME created' = created, \A w \in Workers : services_'[w] \subseteq services_[w]
      PROVE  Cardinality(Live(i)') <= Cardinality(Live(i))
  <2>1. \A w \in i..NW : w \in Workers
    BY WorkerAssumption DEF Workers
  <2>2. Live(i)' \subseteq Live(i)
    BY <1>4, <2>1 DEF Live, InTables
  <2> QED
    BY <1>2, <2>2, FS_Subset
<1>5. ASSUME NEW w \in Workers, RunWorker(w), AddFinish(w)
      PROVE  /\ Cardinality(created') = Cardinality(created) + 1
             /\ Cardinality(Live(i)') <= Cardinality(Live(i)) + 1
  <2>1. adding[w].cfg \notin created /\ created' = created \cup {adding[w].cfg}
    BY <1>1, <1>5, FinishEntries DEF AddFinish
  <2>2. Cardinality(created') = Cardinality(created) + 1
    BY <1>3, <2>1, FS_AddElement
  <2> DEFINE x == <<w, adding[w].id>>
  <2>3. \A v \in Workers : services_'[v] = IF v = w THEN services_[v] \cup {adding[w].id}
                                                    ELSE services_[v]
    BY <1>1, <1>5 DEF AddFinish, TypeOK
  <2>4. \A v \in i..NW : v \in Workers
    BY WorkerAssumption DEF Workers
  <2>5. Live(i)' \subseteq Live(i) \cup {x}
    <3> SUFFICES ASSUME NEW y \in Live(i)'
                 PROVE  y \in Live(i) \cup {x}
      OBVIOUS
    <3>1. PICK v \in i..NW : y \in {v} \X services_'[v]
      BY DEF Live, InTables
    <3>2. v \in Workers
      BY <2>4
    <3>3. CASE y \in {v} \X services_[v]
      BY <3>3 DEF Live, InTables
    <3>4. CASE y \notin {v} \X services_[v]
      <4>1. v = w /\ y \in {v} \X (services_[v] \cup {adding[w].id})
        BY <2>3, <3>1, <3>2, <3>4
      <4> QED
        BY <3>4, <4>1
    <3> QED
      BY <3>3, <3>4
  <2> HIDE DEF x
  <2> DEFINE L == Live(i)
  <2>a. IsFiniteSet(L) /\ Cardinality(L) \in Nat
    BY <1>2
  <2> HIDE DEF L
  <2>b. /\ IsFiniteSet(L \cup {x})
        /\ Cardinality(L \cup {x}) = IF x \in L THEN Cardinality(L) ELSE Cardinality(L) + 1
    BY <2>a, FS_AddElement
  <2>6. IsFiniteSet(Live(i) \cup {x}) /\ Cardinality(Live(i) \cup {x}) <= Cardinality(Live(i)) + 1
    BY <2>a, <2>b DEF L
  <2>7. Cardinality(Live(i)') <= Cardinality(Live(i) \cup {x})
    BY <2>5, <2>6, FS_Subset
  <2>8. Cardinality(Live(i) \cup {x}) \in Nat
    BY <2>6, FS_CardinalityType
  <2> QED
    BY <1>2, <2>2, <2>6, <2>7, <2>8
<1>6. CASE OtherStep \/ UNCHANGED vars
  <2>1. UNCHANGED <<services_, created>>
    BY <1>6, OtherLeavesAlone DEF vars, workerVars
  <2>2. Cardinality(Live(i)') <= Cardinality(Live(i))
    BY <1>4, <2>1
  <2> QED
    BY <1>2, <1>3, <2>1, <2>2
<1>7. ASSUME NEW w \in Workers, RunWorker(w), ~AddFinish(w)
      PROVE  created' = created /\ \A v \in Workers : services_'[v] \subseteq services_[v]
  <2>1. CASE RemoveFound(w)
    <3>1. /\ created' = created
          /\ services_' = [services_ EXCEPT ![w] = services_[w] \ {Head(queue_[w]).arg}]
      BY <2>1 DEF RemoveFound
    <3> QED
      BY <1>1, <3>1 DEF TypeOK
  <2>2. CASE ~RemoveFound(w)
    BY <1>7, <2>2 DEF RunWorker, WorkerStep, ThreadStart, ThreadEnd, AddRefused, AddBegin,
       AddFailed, AddStart, RunStart, RunUpdate, RunStopEmpty, RunStop, RemoveMissing
  <2> QED
    BY <2>1, <2>2
<1>8. ASSUME NEW w \in Workers, RunWorker(w)
      PROVE  /\ Cardinality(created) <= Cardinality(created')
             /\ Cardinality(Live(i)') - Cardinality(Live(i)) <=
                    Cardinality(created') - Cardinality(created)
  <2>1. CASE AddFinish(w)
    BY <1>2, <1>3, <1>5, <1>8, <2>1
  <2>2. CASE ~AddFinish(w)
    <3>1. created' = created /\ Cardinality(Live(i)') <= Cardinality(Live(i))
      BY <1>4, <1>7, <1>8, <2>2
    <3> QED
      BY <1>2, <1>3, <3>1
  <2> QED
    BY <2>1, <2>2
<1> QED
  BY <1>6, <1>8, NextCases

\* main reads one counter after the other, or begins again.
LEMMA MainCounts ==
    ASSUME [Next]_vars, pc' = "count"
    PROVE  \/ pc = "count" /\ UNCHANGED <<k, acc>>
           \/ pc = "count" /\ k < NW /\ k' = k + 1 /\ acc' = acc + count_[k]
           \/ k' = 1 /\ acc' = 0
<1>1. CASE MainStep
  BY <1>1 DEF MainStep, Emplace, SpawnThread, AwaitReady, StoreInit, Place, CheckState, Count,
     StoreReady, PostStart, Scan, Join, StoreExited, Release, DtorWait, Goto, LoopTo
<1>2. CASE OtherStep /\ ~MainStep
  <2>1. UNCHANGED mainVars
    BY <1>2 DEF OtherStep, StopStep, StopExchange, StopPost, StopReturn, CloseReturn,
       ConsoleEvent, ScriptSpawn, ScriptRemove, ScriptQuit, ScriptAbort
  <2> QED
    BY <2>1 DEF mainVars
<1>3. ASSUME NEW w \in Workers, RunWorker(w)
      PROVE  UNCHANGED <<pc, k, acc>>
  BY <1>3 DEF RunWorker, mainVars
<1>4. CASE UNCHANGED vars
  BY <1>4 DEF vars, mainVars
<1> QED
  BY <1>1, <1>2, <1>3, <1>4, NextCases

\* Every step keeps what main counts below.
LEMMA CountBelowStep ==
    ASSUME IInv, CountIsTable, EntriesOnce, EntriesOnce', CountBelow, [Next]_vars
    PROVE  CountBelow'
<1> DEFINE C == Cardinality(created)
           D == Cardinality(created')
<1>1. NW \in Nat \ {0} /\ 1 \in 1..(NW + 1)
  BY WorkerAssumption
<1>2. TypeOK /\ TypeOK'
  BY NextCases, OtherIInv, WorkerIInv, StutterIInv DEF IInv
<1>3. \A i \in 1..(NW + 1) :
          /\ Cardinality(Live(i)) \in Nat /\ Cardinality(Live(i)') \in Nat
          /\ C <= D
          /\ Cardinality(Live(i)') - Cardinality(Live(i)) <= D - C
  BY <1>2, BothFinite, LiveStep
<1>4. C \in Nat /\ D \in Nat
  BY <1>2, BothFinite
<1> HIDE DEF C, D
<1>5. Cardinality(Live(1)) <= C
  BY DEF CountBelow, C
<1>6. Cardinality(Live(1)') <= D
  BY <1>1, <1>3, <1>4, <1>5
<1>7. ASSUME pc' = "count"
      PROVE  k' <= NW /\ acc' + Cardinality(Live(k))' <= D
  <2>1. PICK j : j = k'
    OBVIOUS
  <2>2. \/ pc = "count" /\ j = k /\ acc' = acc
        \/ pc = "count" /\ k < NW /\ j = k + 1 /\ acc' = acc + count_[k]
        \/ j = 1 /\ acc' = 0
    BY <1>7, <2>1, MainCounts
  <2>3. SUFFICES j <= NW /\ acc' + Cardinality(Live(j)') <= D
    BY <2>1 DEF Live, InTables
  <2>4. CASE j = 1 /\ acc' = 0
    BY <1>1, <1>3, <1>4, <1>6, <2>4
  <2>5. CASE pc = "count" /\ j = k /\ acc' = acc
    <3>1. j \in 1..(NW + 1) /\ j <= NW /\ acc \in Int
      BY <1>1, <1>2, <2>5 DEF CountBelow, TypeOK
    <3>2. acc + Cardinality(Live(j)) <= C
      BY <2>5 DEF CountBelow, C
    <3> QED
      BY <1>3, <1>4, <2>5, <3>1, <3>2
  <2>6. CASE pc = "count" /\ k < NW /\ j = k + 1 /\ acc' = acc + count_[k]
    <3>1. k \in Workers /\ j \in 1..(NW + 1) /\ j <= NW /\ acc \in Int
      BY <1>1, <1>2, <2>6 DEF TypeOK, Workers
    <3>2. acc + Cardinality(Live(k)) <= C
      BY <2>6 DEF CountBelow, C
    <3>3. Cardinality(Live(k)) = count_[k] + Cardinality(Live(j))
      BY <1>2, <2>6, <3>1, LiveFrom DEF CountIsTable
    <3>4. count_[k] \in Int
      BY <1>2, <3>1 DEF TypeOK
    <3> QED
      BY <1>3, <1>4, <2>6, <3>1, <3>2, <3>3, <3>4
  <2> QED
    BY <2>2, <2>4, <2>5, <2>6
<1> QED
  BY <1>6, <1>7 DEF CountBelow, D

-----------------------------------------------------------------------------
(* main goes on with all of them. *)

\* A stop() is not taken back.
LEMMA StoppedStays ==
    ASSUME TypeOK, [Next]_vars, Stopped
    PROVE  Stopped'
<1>1. PICK t \in Callers : spc[t] # "idle"
  BY DEF Stopped
<1>2. spc \in [Callers -> {"idle", "stop", "posting", "stopped", "closing", "returned"}]
  BY DEF TypeOK
<1> SUFFICES spc'[t] # "idle"
  BY DEF Stopped
<1>3. CASE MainStep
  BY <1>1, <1>2, <1>3 DEF MainStep, Emplace, SpawnThread, AwaitReady, StoreInit, Place,
     CheckState, Count, StoreReady, PostStart, Scan, Join, StoreExited, Release, DtorWait, stopVars
<1>4. ASSUME NEW u \in Callers, StopStep(u)
      PROVE  spc'[t] # "idle"
  BY <1>1, <1>2, <1>4 DEF StopStep, StopExchange, StopPost, StopReturn, CloseReturn
<1>5. CASE OtherStep /\ ~MainStep /\ ~(\E u \in Callers : StopStep(u))
  BY <1>1, <1>2, <1>5 DEF OtherStep, ConsoleEvent, ScriptSpawn, ScriptRemove, ScriptQuit,
     ScriptAbort, stopVars
<1>6. ASSUME NEW w \in Workers, RunWorker(w)
      PROVE  spc'[t] # "idle"
  BY <1>1, <1>6 DEF RunWorker, stopVars
<1>7. CASE UNCHANGED vars
  BY <1>1, <1>7 DEF vars, stopVars
<1> QED
  BY <1>3, <1>4, <1>5, <1>6, <1>7, NextCases

\* main waits until all are created, or somebody stops the server.
LEMMA WaitsStep ==
    ASSUME IInv, CountIsTable, EntriesOnce, CountBelow, Waits, [Next]_vars
    PROVE  Waits'
<1> SUFFICES ASSUME ~Stopped'
             PROVE  /\ pc' \in {"place", "check_state", "count"} => server_state' = "init"
                    /\ pc' \in {"store_ready", "start"} => Entries \subseteq created'
  BY DEF Waits
<1>1. TypeOK
  BY DEF IInv
<1>2. ~Stopped
  BY <1>1, StoppedStays
<1>3. /\ pc \in {"place", "check_state", "count"} => server_state = "init"
      /\ pc \in {"store_ready", "start"} => Entries \subseteq created
  BY <1>2 DEF Waits
<1>4. created \subseteq created'
  <2>1. ASSUME NEW w \in Workers, RunWorker(w)
        PROVE  created \subseteq created'
    BY <2>1 DEF RunWorker, WorkerStep, ThreadStart, ThreadEnd, AddRefused, AddBegin,
       AddFailed, AddFinish, AddStart, RunStart, RunUpdate, RunStopEmpty, RunStop,
       RemoveMissing, RemoveFound
  <2>2. CASE OtherStep \/ UNCHANGED vars
    BY <2>2, OtherLeavesAlone DEF vars, workerVars
  <2> QED
    BY <2>1, <2>2, NextCases
<1>5. CASE MainStep
  <2>1. CASE Emplace \/ SpawnThread \/ AwaitReady \/ StoreInit \/ Place
    BY <1>3, <2>1 DEF Emplace, SpawnThread, AwaitReady, StoreInit, Place, LoopTo, Goto
  <2>2. CASE CheckState
    BY <1>3, <2>2 DEF CheckState, Goto
  <2>3. CASE Count
    <3>1. CASE k < NW
      BY <1>3, <2>3, <3>1 DEF Count
    <3>2. CASE ~(k < NW)
      <4>1. pc = "count" /\ k <= NW /\ acc + Cardinality(Live(k)) <= Cardinality(created)
        BY <2>3 DEF Count, CountBelow
      <4>2. k = NW /\ k \in Workers
        BY <1>1, <3>2, <4>1, WorkerAssumption DEF TypeOK, Workers
      <4>3. Cardinality(Live(k)) = count_[k]
        <5>1. /\ Cardinality(Live(k)) = Cardinality(services_[k]) + Cardinality(Live(k + 1))
              /\ Cardinality(Live(k + 1)) = 0
          BY <1>1, <4>2, LiveFrom
        <5>2. count_[k] = Cardinality(services_[k]) /\ count_[k] \in Int
          BY <1>1, <4>2 DEF CountIsTable, TypeOK
        <5> QED
          BY <5>1, <5>2
      <4>4. created \in SUBSET Entries
        BY DEF EntriesOnce, OnlyPlaced
      <4>5. Cardinality(created) >= Len(Config) => created = Entries
        BY <4>4, CreatedFinite
      <4>6. Cardinality(created) \in Nat /\ Len(Config) \in Nat
        BY <4>4, CreatedFinite, ServerAssumption, LenProperties
      <4>7. acc \in Int /\ count_[k] \in Int
        BY <1>1, <4>2 DEF TypeOK
      <4>8. CASE acc + count_[k] < Len(Config)
        BY <1>3, <2>3, <3>2, <4>8 DEF Count, Goto
      <4>9. CASE ~(acc + count_[k] < Len(Config))
        <5>1. created = Entries
          BY <4>1, <4>3, <4>5, <4>6, <4>7, <4>9
        <5>2. pc' = "store_ready"
          BY <2>3, <3>2, <4>9 DEF Count, Goto
        <5> QED
          BY <1>4, <5>1, <5>2
      <4> QED
        BY <4>8, <4>9
    <3> QED
      BY <3>1, <3>2
  <2>4. CASE StoreReady \/ PostStart
    BY <1>3, <1>4, <2>4 DEF StoreReady, PostStart, LoopTo, Goto
  <2>5. CASE Scan \/ Join \/ StoreExited \/ Release \/ DtorWait
    BY <2>5 DEF Scan, Join, StoreExited, Release, DtorWait, Goto
  <2> QED
    BY <1>5, <2>1, <2>2, <2>3, <2>4, <2>5 DEF MainStep
<1>6. ASSUME UNCHANGED <<server_state, pc>>
      PROVE  /\ pc' \in {"place", "check_state", "count"} => server_state' = "init"
             /\ pc' \in {"store_ready", "start"} => Entries \subseteq created'
  BY <1>3, <1>4, <1>6
<1>7. CASE OtherStep /\ ~MainStep
  <2>1. ASSUME NEW t \in Callers, StopStep(t)
        PROVE  FALSE
    <3>1. spc[t] # "idle"
      BY <2>1 DEF StopStep, StopExchange, StopPost, StopReturn, CloseReturn
    <3> QED
      BY <1>2, <3>1 DEF Stopped
  <2>2. server_state' = server_state
    BY <1>7, <2>1 DEF OtherStep, ConsoleEvent, ScriptSpawn, ScriptRemove, ScriptQuit, ScriptAbort
  <2>3. pc' = pc
    BY <1>7, OtherThread
  <2> QED
    BY <1>6, <2>2, <2>3
<1>8. ASSUME NEW w \in Workers, RunWorker(w)
      PROVE  UNCHANGED <<server_state, pc>>
  BY <1>8 DEF RunWorker, mainVars
<1>9. CASE UNCHANGED vars
  BY <1>6, <1>9 DEF vars, mainVars
<1> QED
  BY <1>5, <1>6, <1>7, <1>8, <1>9, NextCases

\* The three invariants hold at first, and every step keeps them.
LEMMA CreationInvariance ==
    ASSUME MaxSpawn = 0
    PROVE  SafeSpec => [](EntriesOnce /\ CountBelow /\ Waits)
<1>1. Init => EntriesOnce /\ CountBelow /\ Waits
  <2> SUFFICES ASSUME Init PROVE EntriesOnce /\ CountBelow /\ Waits
    OBVIOUS
  <2>1. \A w \in Workers : \A c :
            ~InQueue(queue_[w], c) /\ ~Initialising(w, c) /\ QueuedOnce(queue_[w], c)
    BY DEF Init, WorkerInit, InQueue, Initialising, QueuedOnce
  <2>2. EntriesOnce
    BY <2>1 DEF Init, WorkerInit, EntriesOnce, InOnePlace, OnlyPlaced
  <2>3. CountBelow
    <3>1. Live(1) = {}
      BY DEF Init, WorkerInit, Live, InTables, Workers
    <3>2. Cardinality({}) = 0
      BY FS_EmptySet, Zenon
    <3>3. Cardinality(Live(1)) = 0
      BY <3>1, <3>2, Zenon
    <3>4. created = {} /\ pc # "count"
      BY DEF Init, WorkerInit
    <3>5. Cardinality(created) = 0
      BY <3>2, <3>4, Zenon
    <3> QED
      BY <3>3, <3>4, <3>5 DEF CountBelow
  <2>4. Waits
    BY DEF Init, Waits
  <2> QED
    BY <2>2, <2>3, <2>4
<1>2. IInv /\ CountIsTable /\ EntriesOnce /\ CountBelow /\ Waits /\ [Next]_vars
          => EntriesOnce' /\ CountBelow' /\ Waits'
  <2> SUFFICES ASSUME IInv, CountIsTable, EntriesOnce, CountBelow, Waits, [Next]_vars
               PROVE  EntriesOnce' /\ CountBelow' /\ Waits'
    OBVIOUS
  <2>1. EntriesOnce'
    BY EntriesStep DEF IInv
  <2> QED
    BY <2>1, CountBelowStep, WaitsStep
<1> QED
  BY <1>1, <1>2, Invariance, CountersAreRight, PTL DEF SafeSpec

\* Where init scripts create no services, run() begins after the creation of every
\* configured service unless somebody stops the server, although service_count() reads the
\* counters one after the other while services come and go (happy.cpp, server::service_count).
THEOREM ConfiguredServicesCreated ==
    ASSUME MaxSpawn = 0
    PROVE  SafeSpec => []AllCreatedBeforeRun
<1>1. Waits => AllCreatedBeforeRun
  BY DEF Waits, AllCreatedBeforeRun, Entries
<1> QED
  BY <1>1, CreationInvariance, PTL
=============================================================================
