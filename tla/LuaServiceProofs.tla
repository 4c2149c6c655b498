--------------------------- MODULE LuaServiceProofs ---------------------------
(***************************************************************************)
(* Proofs about LuaService, for any workers, requests and names.           *)
(*                                                                         *)
(* A unique name belongs to one service because owner, the request that    *)
(* stored the name, never changes: the table of names is never cleared,    *)
(* and init fails where it finds an entry.  The inductive invariant says   *)
(* that every service in a table, and every one on its way there, owns its *)
(* name.                                                                   *)
(*                                                                         *)
(* That a name leads home rests on the numbers.  A request is queued once  *)
(* and its task draws at most max_uuid of them, so uuid_ does not wrap,    *)
(* and a number drawn in its first round is nobody's: whoever a name leads *)
(* to is the task that stored it, then the service that task created.      *)
(*                                                                         *)
(* Memory is counted in units of blocks, so that the sum of the sizes is   *)
(* the number of units.                                                    *)
(***************************************************************************)
EXTENDS LuaService, SequenceTheorems, FiniteSetTheorems, TLAPS

-----------------------------------------------------------------------------
(* The inductive invariant. *)

\* The tasks that are posted: an add carries the request it is for.
Asking == {t \in Task : t.op = "add" => t.arg \in Requests}

Queues == [Workers -> Seq(Asking)]

Ids == (Workers \X Uuid) \cup {NoId}

\* The types of what names depend on.
Typed ==
    /\ queue_ \in Queues
    /\ services_ \in [Workers -> SUBSET Uuid]
    /\ uuid_ \in [Workers -> Nat]
    /\ wpc \in [Workers -> {"loop", "init", "add_start"}]
    /\ adding \in [Workers -> Adding]
    /\ \A w \in Workers :
           wpc[w] # "loop" => adding[w].cfg \in Requests /\ adding[w].id \in Uuid
    /\ named \in [Workers -> BOOLEAN]
    /\ unique_services_ \in [Names -> Ids]
    /\ owner \in [Names -> Requests \cup {0}]
    /\ place \in [Requests -> Ids]

\* The request c owns the name it came with, if it came with one.
Owns(c) == UniqueName[c] \in Names => owner[UniqueName[c]] = c

\* Nobody owns a name that is not in the table, and a service that is in a table or has
\* passed the question owns its name.
OwnersOnly ==
    /\ \A name \in Names : unique_services_[name] = NoId => owner[name] = 0
    /\ \A c \in Requests : place[c] # NoId => Owns(c)
    /\ \A w \in Workers : named[w] => wpc[w] = "init" /\ Owns(adding[w].cfg)

IInv == Typed /\ OwnersOnly

-----------------------------------------------------------------------------
(* Task queues. *)

\* What is posted is a task, and an add is for a request.
LEMMA TaskTypes ==
    /\ \A c \in Requests : AddTask(c, TRUE) \in Asking
    /\ \A n \in Nat : RemoveTask(n) \in Asking
    /\ SimpleTask("stop") \in Asking
BY LuaServiceAssumption DEF AddTask, RemoveTask, SimpleTask, Asking, Task

\* Posting a task leaves queues of tasks.
LEMMA PostType ==
    ASSUME queue_ \in Queues, NEW w \in Workers, NEW t \in Asking, Post(w, t)
    PROVE  queue_' \in Queues
<1>1. Append(queue_[w], t) \in Seq(Asking)
  BY queue_[w] \in Seq(Asking), AppendProperties DEF Queues
<1> QED
  BY <1>1 DEF Post, Queues

\* Popping one leaves queues of tasks, and what was popped is one.
LEMMA PopType ==
    ASSUME queue_ \in Queues, NEW w \in Workers, NEW op, Pops(w, op)
    PROVE  /\ Popped(w) => queue_' \in Queues
           /\ Tail(queue_[w]) \in Seq(Asking)
           /\ Head(queue_[w]) \in Asking
           /\ Head(queue_[w]).op = op
<1>1. queue_[w] \in Seq(Asking) /\ queue_[w] # <<>>
  BY DEF Queues, Pops
<1>2. Tail(queue_[w]) \in Seq(Asking) /\ Head(queue_[w]) \in Asking
  BY <1>1, HeadTailProperties
<1> QED
  BY <1>2 DEF Pops, Popped, Queues

\* A stop task that makes services remove themselves leaves queues of tasks.
LEMMA StopType ==
    ASSUME Typed, NEW w \in Workers, RunStop(w)
    PROVE  queue_' \in Queues
<1>0. PICK quits \in SUBSET services_[w] : \E order \in Orders(quits) :
          queue_' = [queue_ EXCEPT ![w] =
              Tail(@) \o [i \in 1..Cardinality(quits) |-> RemoveTask(order[i])]]
  BY DEF RunStop
<1>1. PICK order \in Orders(quits) :
          queue_' = [queue_ EXCEPT ![w] =
              Tail(@) \o [i \in 1..Cardinality(quits) |-> RemoveTask(order[i])]]
  BY <1>0
<1>2. Cardinality(quits) \in Nat
  <2>1. IsFiniteSet(Uuid)
    BY FS_Interval, WorkerAssumption DEF Uuid
  <2>2. IsFiniteSet(quits)
    BY <2>1, FS_Subset DEF Typed
  <2> QED
    BY <2>2, FS_CardinalityType
<1>3. \A i \in 1..Cardinality(quits) : RemoveTask(order[i]) \in Asking
  <2>1. quits \subseteq Nat
    BY WorkerAssumption DEF Typed, Uuid
  <2> QED
    BY <2>1, TaskTypes DEF Orders
<1>4. [i \in 1..Cardinality(quits) |-> RemoveTask(order[i])] \in Seq(Asking)
  BY <1>2, <1>3
<1>5. Tail(queue_[w]) \in Seq(Asking)
  BY PopType DEF RunStop, Typed
<1>6. Tail(queue_[w]) \o [i \in 1..Cardinality(quits) |-> RemoveTask(order[i])] \in Seq(Asking)
  BY <1>4, <1>5, ConcatProperties
<1> QED
  BY <1>1, <1>6 DEF Typed, Queues

\* Beginning an add_service task draws a number, for a request.
LEMMA BeginType ==
    ASSUME Typed, NEW w \in Workers, AddBegin(w)
    PROVE  /\ queue_' \in Queues
           /\ uuid_' \in [Workers -> Nat]
           /\ wpc' = [wpc EXCEPT ![w] = "init"]
           /\ \E a \in Adding : /\ adding' = [adding EXCEPT ![w] = a]
                                /\ a.cfg \in Requests
                                /\ a.id \in Uuid
<1> UintRange \in Nat \ {0} /\ max_uuid \in Nat \ {0}
  BY WorkerAssumption
<1>1. PICK n \in 1..max_uuid :
          /\ uuid_' = [uuid_ EXCEPT ![w] = (@ + n) % UintRange]
          /\ adding' = [adding EXCEPT ![w] = [id |-> Candidate(w, n),
                                              cfg |-> Head(queue_[w]).arg,
                                              ok |-> Head(queue_[w]).ok]]
  BY DEF AddBegin
<1>2. uuid_[w] \in Nat
  BY DEF Typed
<1>3. (uuid_[w] + n) % UintRange \in Nat /\ (uuid_[w] + n - 1) % UintRange \in Nat
  BY <1>2
<1>4. Candidate(w, n) \in Nat /\ Candidate(w, n) \in Uuid
  BY <1>3 DEF Candidate, Uuid
<1>5. Pops(w, "add") /\ Popped(w) /\ wpc' = [wpc EXCEPT ![w] = "init"]
  BY DEF AddBegin
<1>6. /\ queue_' \in Queues
      /\ Head(queue_[w]) \in Asking
      /\ Head(queue_[w]).op = "add"
  BY <1>5, PopType DEF Typed
<1>7. /\ Head(queue_[w]).arg \in Requests
      /\ Head(queue_[w]).arg \in Nat
      /\ Head(queue_[w]).ok \in BOOLEAN
  BY <1>6 DEF Asking, Task
<1>8. [id |-> Candidate(w, n), cfg |-> Head(queue_[w]).arg, ok |-> Head(queue_[w]).ok] \in Adding
  BY <1>4, <1>7 DEF Adding
<1>9. uuid_' \in [Workers -> Nat]
  BY <1>1, <1>3 DEF Typed
<1> QED
  BY <1>1, <1>4, <1>5, <1>6, <1>7, <1>8, <1>9

-----------------------------------------------------------------------------
(* Steps that leave names alone. *)

\* Posting a task.
LEMMA PostStep ==
    ASSUME IInv, NEW w \in Workers, NEW t \in Asking, Post(w, t),
           UNCHANGED <<services_, uuid_, wpc, adding, nameVars>>
    PROVE  IInv'
<1>1. queue_' \in Queues
  BY PostType DEF IInv, Typed
<1> QED
  BY <1>1 DEF IInv, Typed, OwnersOnly, Owns, nameVars

\* What scripts ask for.
LEMMA ScriptStep ==
    ASSUME IInv, Script \/ \E w \in Workers : StopWorker(w)
    PROVE  IInv'
<1>1. ASSUME NEW c \in Requests, NEW w \in Workers, NewService(c, w)
      PROVE  IInv'
  BY <1>1, PostStep, TaskTypes DEF NewService
<1>2. ASSUME NEW w \in Workers, NEW n \in Uuid, RemoveService(w, n)
      PROVE  IInv'
  <2>1. n \in Nat
    BY WorkerAssumption DEF Uuid
  <2> QED
    BY <1>2, <2>1, PostStep, TaskTypes DEF RemoveService
<1>3. ASSUME NEW w \in Workers, StopWorker(w)
      PROVE  IInv'
  BY <1>3, PostStep, TaskTypes DEF StopWorker
<1> QED
  BY <1>1, <1>2, <1>3 DEF Script

\* The allocator.
LEMMA MemoryStep ==
    ASSUME IInv, SetLimit \/ Lalloc
    PROVE  IInv'
<1>1. UNCHANGED <<workerVars, nameVars>>
  BY DEF SetLimit, Lalloc, LimitRefuses, SystemRefuses, Realloc, LuaUnchanged
<1> QED
  BY <1>1 DEF IInv, Typed, OwnersOnly, Owns, workerVars, nameVars

\* The tasks that add nothing, and the end of the thread.
LEMMA OtherStep ==
    ASSUME IInv, NEW w \in Workers, Thread(w) \/ Refuse(w) \/ OtherTasks(w)
    PROVE  IInv'
<1>1. queue_' \in Queues
  <2>1. CASE Thread(w)
    BY <2>1 DEF Thread, ThreadEnd, IInv, Typed
  <2>2. CASE Refuse(w)
    BY <2>2, PopType DEF Refuse, AddRefused, IInv, Typed
  <2>3. CASE OtherTasks(w)
    <3>1. CASE RunStopEmpty(w)
      BY <3>1, PopType DEF RunStopEmpty, IInv, Typed
    <3>2. CASE RunStop(w)
      BY <3>2, StopType DEF IInv
    <3>3. CASE RemoveMissing(w)
      BY <3>3, PopType DEF RemoveMissing, IInv, Typed
    <3> QED
      BY <2>3, <3>1, <3>2, <3>3 DEF OtherTasks
  <2> QED
    BY <2>1, <2>2, <2>3
<1>2. UNCHANGED <<services_, uuid_, wpc, adding, named, unique_services_, owner, place>>
  BY DEF Thread, ThreadEnd, Refuse, AddRefused, OtherTasks, RunStopEmpty, RunStop,
         RemoveMissing, nameVars
<1> QED
  BY <1>1, <1>2 DEF IInv, Typed, OwnersOnly, Owns

-----------------------------------------------------------------------------
(* add_service. *)

\* A number is drawn.  The worker was in its loop, where no name has been set.
LEMMA BeginStep ==
    ASSUME IInv, NEW w \in Workers, Begin(w)
    PROVE  IInv'
<1>1. AddBegin(w) /\ wpc[w] = "loop" /\ UNCHANGED <<services_, nameVars>>
  BY DEF Begin, AddBegin, Pops
<1>2. PICK a \in Adding : /\ adding' = [adding EXCEPT ![w] = a]
                          /\ a.cfg \in Requests
                          /\ a.id \in Uuid
  BY <1>1, BeginType DEF IInv
<1>3. Typed'
  BY <1>1, <1>2, BeginType DEF IInv, Typed, nameVars
<1>4. wpc' = [wpc EXCEPT ![w] = "init"] /\ ~named[w]
  BY <1>1, BeginType DEF IInv, OwnersOnly
<1> QED
  BY <1>1, <1>2, <1>3, <1>4 DEF IInv, Typed, OwnersOnly, Owns, nameVars

\* init fails, before the name is set.
LEMMA InitFailsStep ==
    ASSUME IInv, NEW w \in Workers, ScriptFails(w) \/ NameRefused(w)
    PROVE  IInv'
<1>1. InitFails(w) /\ ~named[w]
  BY DEF ScriptFails, NameRefused, AtName, InInit
<1>2. adding' = [adding EXCEPT ![w].ok = FALSE]
  BY <1>1 DEF InitFails
<1>3. /\ adding' \in [Workers -> Adding]
      /\ \A v \in Workers : adding'[v].cfg = adding[v].cfg /\ adding'[v].id = adding[v].id
  BY <1>2 DEF IInv, Typed, Adding
<1> QED
  BY <1>1, <1>3 DEF IInv, Typed, OwnersOnly, Owns, InitFails, WorkerUnchanged, nameVars

\* The name is stored.  Nobody owned it, so no service in a table and no other one on its
\* way had come with it.
LEMMA NameSetStep ==
    ASSUME IInv, NEW w \in Workers, NameSet(w)
    PROVE  IInv'
<1> DEFINE name == NameAsked(w)
           cfg == adding[w].cfg
<1>1. /\ name \in Names
      /\ unique_services_[name] = NoId
      /\ unique_services_' = [unique_services_ EXCEPT ![name] = Id(w, adding[w].id)]
      /\ owner' = [owner EXCEPT ![name] = cfg]
      /\ named' = [named EXCEPT ![w] = TRUE]
      /\ wpc[w] = "init"
      /\ UNCHANGED <<queue_, services_, uuid_, wpc, adding, place>>
  BY DEF NameSet, AtName, InInit, WorkerUnchanged
<1>2. cfg \in Requests /\ adding[w].id \in Uuid /\ name = UniqueName[cfg]
  BY <1>1 DEF IInv, Typed, NameAsked
<1>3. Id(w, adding[w].id) \in Ids /\ Id(w, adding[w].id) # NoId
  BY <1>2, WorkerAssumption DEF Id, Ids, NoId, Workers
<1>4. Typed'
  BY <1>1, <1>2, <1>3 DEF IInv, Typed
<1>5. owner[name] = 0
  BY <1>1 DEF IInv, OwnersOnly
<1>6. \A c \in Requests : Owns(c) => UniqueName[c] # name
  BY <1>1, <1>5, LuaServiceAssumption DEF Owns
<1>7. \A c \in Requests : Owns(c) => Owns(c)'
  BY <1>1, <1>6 DEF Owns, IInv, Typed
<1>8. Owns(cfg)'
  BY <1>1, <1>2 DEF Owns, IInv, Typed
<1>9. \A m \in Names : unique_services_'[m] = NoId => owner'[m] = 0
  BY <1>1, <1>3 DEF IInv, Typed, OwnersOnly
<1>10. \A c \in Requests : place'[c] # NoId => Owns(c)'
  BY <1>1, <1>7 DEF IInv, OwnersOnly
<1>11. ASSUME NEW v \in Workers, named'[v]
       PROVE  wpc'[v] = "init" /\ (Owns(adding[v].cfg))'
  <2>1. CASE v = w
    BY <2>1, <1>1, <1>8 DEF Owns
  <2>2. CASE v # w
    <3>1. named[v]
      BY <2>2, <1>1, <1>11 DEF IInv, Typed
    <3>2. wpc[v] = "init" /\ Owns(adding[v].cfg) /\ adding[v].cfg \in Requests
      BY <3>1 DEF IInv, OwnersOnly, Typed
    <3> QED
      BY <3>2, <1>1, <1>7 DEF Owns
  <2> QED
    BY <2>1, <2>2
<1> QED
  BY <1>4, <1>9, <1>10, <1>11 DEF IInv, OwnersOnly

\* A service that is not unique passes the question.
LEMMA NoNameStep ==
    ASSUME IInv, NEW w \in Workers, NoName(w)
    PROVE  IInv'
<1>1. /\ named' = [named EXCEPT ![w] = TRUE]
      /\ wpc[w] = "init"
      /\ UniqueName[adding[w].cfg] \notin Names
      /\ UNCHANGED <<queue_, services_, uuid_, wpc, adding, place, unique_services_, owner>>
  BY DEF NoName, AtName, InInit, WorkerUnchanged, NameAsked, Names
<1>2. Typed'
  BY <1>1 DEF IInv, Typed
<1>3. \A v \in Workers : named'[v] => v = w \/ named[v]
  BY <1>1 DEF IInv, Typed
<1> QED
  BY <1>1, <1>2, <1>3 DEF IInv, OwnersOnly, Owns

\* The task ends: with a failure, or with the start of the service.
LEMMA EndStep ==
    ASSUME IInv, NEW w \in Workers, Fail(w) \/ Finish(w)
    PROVE  IInv'
<1>1. /\ wpc' = [wpc EXCEPT ![w] = "loop"]
      /\ adding' = [adding EXCEPT ![w] = NoService]
      /\ UNCHANGED <<queue_, services_, uuid_, place, unique_services_, owner>>
  BY DEF Fail, AddFailed, Finish, AddStart
<1>2. /\ named' \in [Workers -> BOOLEAN]
      /\ \A v \in Workers : named'[v] => v # w /\ named[v]
  <2>1. CASE Fail(w)
    BY <2>1 DEF Fail, IInv, Typed
  <2>2. CASE Finish(w)
    <3>1. named' = named /\ wpc[w] = "add_start"
      BY <2>2 DEF Finish, AddStart
    <3> QED
      BY <3>1 DEF IInv, Typed, OwnersOnly
  <2> QED
    BY <2>1, <2>2
<1>3. NoService \in Adding
  BY DEF NoService, Adding
<1>4. Typed'
  BY <1>1, <1>2, <1>3 DEF IInv, Typed
<1> QED
  BY <1>1, <1>2, <1>4 DEF IInv, Typed, OwnersOnly, Owns

\* emplace: the service that enters the table owns its name.
LEMMA EmplaceStep ==
    ASSUME IInv, NEW w \in Workers, Emplace(w)
    PROVE  IInv'
<1> DEFINE cfg == adding[w].cfg
<1>1. /\ named[w]
      /\ wpc[w] = "init"
      /\ wpc' = [wpc EXCEPT ![w] = "add_start"]
      /\ services_' = [services_ EXCEPT ![w] = @ \cup {adding[w].id}]
      /\ named' = [named EXCEPT ![w] = FALSE]
      /\ place' = [place EXCEPT ![cfg] = Id(w, adding[w].id)]
      /\ UNCHANGED <<queue_, uuid_, adding, unique_services_, owner>>
  BY DEF Emplace, AddFinish
<1>2. cfg \in Requests /\ adding[w].id \in Uuid /\ Owns(cfg)
  BY <1>1 DEF IInv, Typed, OwnersOnly
<1>3. Id(w, adding[w].id) \in Ids
  BY <1>2 DEF Id, Ids
<1>4. Typed'
  BY <1>1, <1>2, <1>3 DEF IInv, Typed
<1>5. \A v \in Workers : named'[v] => v # w /\ named[v] /\ wpc'[v] = wpc[v]
  BY <1>1 DEF IInv, Typed
<1>6. \A c \in Requests : place'[c] # NoId => c = cfg \/ place[c] # NoId
  BY <1>1 DEF IInv, Typed
<1> QED
  BY <1>1, <1>2, <1>4, <1>5, <1>6 DEF IInv, OwnersOnly, Owns

\* remove_service: a service leaves the table.
LEMMA RemovedStep ==
    ASSUME IInv, NEW w \in Workers, Removed(w)
    PROVE  IInv'
<1>1. PICK c \in Requests : place' = [place EXCEPT ![c] = NoId]
  BY DEF Removed
<1>2. /\ services_' = [services_ EXCEPT ![w] = @ \ {Head(queue_[w]).arg}]
      /\ Pops(w, "remove") /\ Popped(w)
      /\ UNCHANGED <<uuid_, wpc, adding, named, unique_services_, owner>>
  BY DEF Removed, RemoveFound
<1>3. queue_' \in Queues
  BY <1>2, PopType DEF IInv, Typed
<1>4. Typed'
  BY <1>1, <1>2, <1>3 DEF IInv, Typed, Ids
<1>5. \A d \in Requests : place'[d] # NoId => place[d] # NoId
  BY <1>1 DEF IInv, Typed
<1> QED
  BY <1>2, <1>4, <1>5 DEF IInv, OwnersOnly, Owns

-----------------------------------------------------------------------------
(* The theorem. *)

\* The invariant holds at first and is kept.
LEMMA Invariance == Spec => []IInv
<1>1. Init => IInv
  <2> SUFFICES ASSUME Init PROVE IInv
    OBVIOUS
  <2>1. NoService \in Adding /\ NoId \in Ids
    BY DEF NoService, Adding, Ids
  <2>2. Typed
    BY <2>1 DEF Init, Typed, Queues
  <2> QED
    BY <2>2 DEF Init, IInv, OwnersOnly
<1>2. IInv /\ [Next]_vars => IInv'
  <2> SUFFICES ASSUME IInv, [Next]_vars PROVE IInv'
    OBVIOUS
  <2>1. CASE Next
    <3>1. ASSUME NEW w \in Workers, WorkerNext(w)
          PROVE  IInv'
      BY <3>1, OtherStep, BeginStep, InitFailsStep, NameSetStep, NoNameStep, EndStep,
         EmplaceStep, RemovedStep DEF WorkerNext
    <3> QED
      BY <2>1, <3>1, ScriptStep, MemoryStep DEF Next
  <2>2. CASE UNCHANGED vars
    BY <2>2 DEF vars, workerVars, nameVars, IInv, Typed, OwnersOnly, Owns
  <2> QED
    BY <2>1, <2>2
<1> QED
  BY <1>1, <1>2, PTL DEF Spec

\* A unique name is never shared: of the requests that came with it, at most one has its
\* service in a table (lua_service::init, router::set_unique_service).
THEOREM NamesAreUnique == Spec => []OnePerName
<1>1. IInv => OnePerName
  BY DEF IInv, OwnersOnly, Owns, OnePerName
<1> QED
  BY <1>1, Invariance, PTL

-----------------------------------------------------------------------------
(* The counter of numbers does not wrap. *)

\* A task that adds the request c is in the queue q.
InQueue(q, c) == \E i \in 1..Len(q) : q[i].op = "add" /\ q[i].arg = c

\* Not two of them.
QueuedOnce(q, c) ==
    \A i, j \in 1..Len(q) :
        /\ q[i].op = "add" /\ q[i].arg = c
        /\ q[j].op = "add" /\ q[j].arg = c
        => i = j

\* A request is queued at the worker it was put to.
Queued ==
    /\ asked \in [Requests -> Workers \cup {0}]
    /\ \A c \in Requests, w \in Workers :
           /\ InQueue(queue_[w], c) => asked[c] = w
           /\ QueuedOnce(queue_[w], c)

\* The requests whose task has been run.
Tried == {c \in Requests : asked[c] # 0 /\ \A w \in Workers : ~InQueue(queue_[w], c)}

\* Each task draws at most max_uuid numbers.
Counted == \A w \in Workers : uuid_[w] <= max_uuid * Cardinality(Tried)

\* Of the numbers of a worker, k is drawn for the first time only.
FirstRound(w, k) == uuid_[w] < k + max_uuid

\* What names, services in tables and the running task have drawn is behind uuid_.
Drawn ==
    \A w \in Workers :
        /\ \A k \in services_[w] : k <= uuid_[w]
        /\ \A c \in Requests, k \in Uuid : place[c] = Id(w, k) => k <= uuid_[w]
        /\ \A name \in Names, k \in Uuid : unique_services_[name] = Id(w, k) => k <= uuid_[w]
        /\ wpc[w] # "loop" => adding[w].id <= uuid_[w]

\* In the first round the number of the running task is nobody else's.
Unused ==
    \A w \in Workers :
        /\ wpc[w] = "init"
        /\ FirstRound(w, adding[w].id)
        => /\ adding[w].id \notin services_[w]
           /\ \A c \in Requests : place[c] # Id(w, adding[w].id)

\* The service that a name leads to is on its way, or was created and is nobody else.
OnItsWay(name, w, k) ==
    /\ wpc[w] = "init"
    /\ named[w]
    /\ adding[w].id = k
    /\ adding[w].cfg = owner[name]

AtHome(name, w, k) ==
    /\ ~(wpc[w] = "init" /\ adding[w].id = k)
    /\ owner[name] \in created
    /\ \A c \in Requests : place[c] = Id(w, k) => c = owner[name]

Home ==
    \A name \in Names, w \in Workers, k \in Uuid :
        unique_services_[name] = Id(w, k) /\ FirstRound(w, k) =>
            OnItsWay(name, w, k) \/ AtHome(name, w, k)

NamedOk == \A w \in Workers : named[w] => adding[w].ok

\* The invariant of the count, and of where names lead.
CInv == Queued /\ Counted

HInv == Drawn /\ Unused /\ Home /\ NamedOk

-----------------------------------------------------------------------------
(* Adds in queues. *)

\* The adds of the queue t are adds of the queue q.
Thins(q, t) ==
    \A c \in Requests :
        /\ InQueue(t, c) => InQueue(q, c)
        /\ QueuedOnce(q, c) => QueuedOnce(t, c)

\* Every add of t is in q, at a fixed distance.
Shifted(q, t, shift) ==
    \A i \in 1..Len(t) : t[i].op = "add" => i + shift \in 1..Len(q) /\ q[i + shift] = t[i]

\* Then they are apart as they are there.
LEMMA ThinsBy ==
    ASSUME NEW q, NEW t, NEW shift \in Int, Shifted(q, t, shift)
    PROVE  Thins(q, t)
<1> USE DEF Shifted
<1>1. ASSUME NEW c \in Requests, InQueue(t, c)
      PROVE  InQueue(q, c)
  BY <1>1 DEF InQueue
<1>2. ASSUME NEW c \in Requests, QueuedOnce(q, c),
             NEW i \in 1..Len(t), NEW j \in 1..Len(t),
             t[i].op = "add", t[i].arg = c, t[j].op = "add", t[j].arg = c
      PROVE  i = j
  <2>1. i + shift = j + shift
    BY <1>2 DEF QueuedOnce
  <2> QED
    BY <2>1
<1> QED
  BY <1>1, <1>2 DEF Thins, QueuedOnce

\* Popping a task adds none.
LEMMA ThinsTail ==
    ASSUME NEW q \in Seq(Asking), q # <<>>
    PROVE  Thins(q, Tail(q))
<1>1. Len(q) \in Nat /\ Len(Tail(q)) = Len(q) - 1
  BY HeadTailProperties, LenProperties
<1>2. \A i \in 1..Len(Tail(q)) : i + 1 \in 1..Len(q) /\ q[i + 1] = Tail(q)[i]
  BY <1>1, HeadTailProperties
<1>3. Shifted(q, Tail(q), 1)
  BY <1>2 DEF Shifted
<1> QED
  BY <1>3, ThinsBy

\* So does putting tasks that are not adds behind the others.
LEMMA ThinsConcat ==
    ASSUME NEW q \in Seq(Asking), NEW r \in Seq(Asking),
           \A i \in 1..Len(r) : r[i].op # "add"
    PROVE  Thins(q, q \o r)
<1>1. Len(q \o r) = Len(q) + Len(r) /\ Len(q) \in Nat /\ Len(r) \in Nat
  BY ConcatProperties, LenProperties
<1>2. ASSUME NEW i \in 1..Len(q \o r), (q \o r)[i].op = "add"
      PROVE  i + 0 \in 1..Len(q) /\ q[i + 0] = (q \o r)[i]
  <2>1. CASE i <= Len(q)
    BY <1>1, <2>1, ConcatProperties
  <2>2. CASE i > Len(q)
    <3>1. i - Len(q) \in 1..Len(r) /\ (q \o r)[i] = r[i - Len(q)]
      BY <1>1, <2>2, ConcatProperties
    <3> QED
      BY <1>2, <3>1
  <2> QED
    BY <1>1, <2>1, <2>2
<1>3. Shifted(q, q \o r, 0)
  BY <1>2 DEF Shifted
<1> QED
  BY <1>3, ThinsBy

\* So does posting one.
LEMMA ThinsAppend ==
    ASSUME NEW q \in Seq(Asking), NEW u \in Asking, u.op # "add"
    PROVE  Thins(q, Append(q, u))
<1>1. Len(Append(q, u)) = Len(q) + 1 /\ Append(q, u)[Len(q) + 1] = u /\ Len(q) \in Nat
  BY AppendProperties, LenProperties
<1>2. \A i \in 1..Len(q) : Append(q, u)[i] = q[i]
  BY AppendProperties
<1>3. Shifted(q, Append(q, u), 0)
  BY <1>1, <1>2 DEF Shifted
<1> QED
  BY <1>3, ThinsBy

\* One after the other.
LEMMA ThinsTransitive ==
    ASSUME NEW q, NEW s, NEW t, Thins(q, s), Thins(s, t)
    PROVE  Thins(q, t)
BY DEF Thins

\* A request that is put to a worker for the first time is queued once.
LEMMA AppendAdd ==
    ASSUME NEW q \in Seq(Asking), NEW c \in Requests, ~InQueue(q, c)
    PROVE  LET t == Append(q, AddTask(c, TRUE))
           IN  /\ QueuedOnce(t, c)
               /\ \A d \in Requests : d # c =>
                      /\ InQueue(t, d) => InQueue(q, d)
                      /\ QueuedOnce(q, d) => QueuedOnce(t, d)
<1> DEFINE u == AddTask(c, TRUE)
           t == Append(q, u)
<1>0. u \in Asking
  BY TaskTypes
<1> HIDE DEF u
<1>1. Len(t) = Len(q) + 1 /\ t[Len(q) + 1] = u /\ Len(q) \in Nat
  BY <1>0, AppendProperties, LenProperties
<1>2. \A i \in 1..Len(q) : t[i] = q[i]
  BY <1>0, AppendProperties
<1>3. u.arg = c
  BY DEF AddTask, u
<1> HIDE DEF t
<1>4. \A i \in 1..Len(t) : (i \in 1..Len(q) /\ t[i] = q[i]) \/ (i = Len(q) + 1 /\ t[i] = u)
  BY <1>1, <1>2
<1>5. QueuedOnce(t, c)
  BY <1>3, <1>4 DEF QueuedOnce, InQueue
<1>6. \A d \in Requests : d # c => (InQueue(t, d) => InQueue(q, d))
  BY <1>3, <1>4 DEF InQueue
<1>7. \A d \in Requests : d # c => (QueuedOnce(q, d) => QueuedOnce(t, d))
  BY <1>3, <1>4 DEF QueuedOnce
<1> QED
  BY <1>5, <1>6, <1>7 DEF t, u

\* A request that is taken from the queue is not queued any more.
LEMMA HeadTaken ==
    ASSUME NEW q \in Seq(Asking), q # <<>>, NEW c \in Requests, QueuedOnce(q, c),
           Head(q).op = "add", Head(q).arg = c
    PROVE  InQueue(q, c) /\ ~InQueue(Tail(q), c)
<1>1. Len(q) \in Nat /\ Len(q) >= 1 /\ Len(Tail(q)) = Len(q) - 1 /\ q[1] = Head(q)
  BY HeadTailProperties, LenProperties, EmptySeq
<1>2. \A i \in 1..Len(Tail(q)) : i + 1 \in 1..Len(q) /\ i + 1 # 1 /\ q[i + 1] = Tail(q)[i]
  BY <1>1, HeadTailProperties
<1>3. 1 \in 1..Len(q)
  BY <1>1
<1> QED
  BY <1>1, <1>2, <1>3 DEF InQueue, QueuedOnce

-----------------------------------------------------------------------------
(* A request is queued once, and the numbers drawn are counted. *)

\* No request is put to a worker, and no add comes into a queue.
Calm == asked' = asked /\ \A w \in Workers : Thins(queue_[w], queue_'[w])

\* One queue is changed.
LEMMA CalmAt ==
    ASSUME Typed, asked' = asked, NEW w \in Workers, NEW t,
           queue_' = [queue_ EXCEPT ![w] = t], Thins(queue_[w], t)
    PROVE  Calm
<1>1. \A v \in Workers : queue_'[v] = IF v = w THEN t ELSE queue_[v]
  BY DEF Typed, Queues
<1> QED
  BY <1>1 DEF Calm, Thins

\* Popping a task is calm.
LEMMA CalmPop ==
    ASSUME Typed, asked' = asked, NEW w \in Workers, NEW op, Pops(w, op), Popped(w)
    PROVE  Calm
<1>1. queue_[w] \in Seq(Asking) /\ queue_[w] # <<>>
  BY DEF Typed, Queues, Pops
<1>2. queue_' = [queue_ EXCEPT ![w] = Tail(queue_[w])]
  BY DEF Popped
<1> QED
  BY <1>1, <1>2, ThinsTail, CalmAt

\* So is posting one that is not an add.
LEMMA CalmPost ==
    ASSUME Typed, asked' = asked, NEW w \in Workers, NEW t \in Asking, t.op # "add", Post(w, t)
    PROVE  Calm
<1>1. queue_[w] \in Seq(Asking)
  BY DEF Typed, Queues
<1>2. queue_' = [queue_ EXCEPT ![w] = Append(queue_[w], t)]
  BY DEF Post
<1> QED
  BY <1>1, <1>2, ThinsAppend, CalmAt

\* So is a stop task that makes services remove themselves.
LEMMA CalmStop ==
    ASSUME Typed, asked' = asked, NEW w \in Workers, RunStop(w)
    PROVE  Calm
<1>0. PICK quits \in SUBSET services_[w] : \E order \in Orders(quits) :
          queue_' = [queue_ EXCEPT ![w] =
              Tail(@) \o [i \in 1..Cardinality(quits) |-> RemoveTask(order[i])]]
  BY DEF RunStop
<1>1. PICK order \in Orders(quits) :
          queue_' = [queue_ EXCEPT ![w] =
              Tail(@) \o [i \in 1..Cardinality(quits) |-> RemoveTask(order[i])]]
  BY <1>0
<1> DEFINE r == [i \in 1..Cardinality(quits) |-> RemoveTask(order[i])]
<1>2. Cardinality(quits) \in Nat
  <2>1. IsFiniteSet(Uuid)
    BY FS_Interval, WorkerAssumption DEF Uuid
  <2>2. IsFiniteSet(quits)
    BY <2>1, FS_Subset DEF Typed
  <2> QED
    BY <2>2, FS_CardinalityType
<1>3. \A i \in 1..Cardinality(quits) : RemoveTask(order[i]) \in Asking
  <2>1. quits \subseteq Nat
    BY WorkerAssumption DEF Typed, Uuid
  <2> QED
    BY <2>1, TaskTypes DEF Orders
<1>4. r \in Seq(Asking) /\ Len(r) = Cardinality(quits)
  BY <1>2, <1>3
<1>5. \A i \in 1..Len(r) : r[i].op # "add"
  BY <1>4 DEF RemoveTask
<1>6. queue_' = [queue_ EXCEPT ![w] = Tail(queue_[w]) \o r]
  BY <1>1
<1> HIDE DEF r
<1>7. queue_[w] \in Seq(Asking) /\ queue_[w] # <<>> /\ Tail(queue_[w]) \in Seq(Asking)
  BY PopType DEF RunStop, Typed, Queues, Pops
<1>8. Thins(queue_[w], Tail(queue_[w])) /\ Thins(Tail(queue_[w]), Tail(queue_[w]) \o r)
  BY <1>4, <1>5, <1>7, ThinsTail, ThinsConcat
<1>9. Thins(queue_[w], Tail(queue_[w]) \o r)
  BY <1>8, ThinsTransitive
<1> QED
  BY <1>6, <1>9, CalmAt

\* Only new_service posts adds.
LEMMA CalmSteps ==
    ASSUME Typed, [Next]_vars
    PROVE  Calm \/ \E c \in Requests, w \in Workers : NewService(c, w)
<1>1. asked' = asked /\ queue_' = queue_ => Calm
  BY DEF Calm, Thins
<1>2. ASSUME NEW w \in Workers, NEW n \in Uuid, RemoveService(w, n)
      PROVE  Calm
  <2>1. RemoveTask(n) \in Asking /\ RemoveTask(n).op # "add"
    BY WorkerAssumption, TaskTypes DEF Uuid, RemoveTask
  <2> QED
    BY <1>2, <2>1, CalmPost DEF RemoveService
<1>3. ASSUME NEW w \in Workers, StopWorker(w)
      PROVE  Calm
  <2>1. SimpleTask("stop") \in Asking /\ SimpleTask("stop").op # "add"
    BY TaskTypes DEF SimpleTask
  <2> QED
    BY <1>3, <2>1, CalmPost DEF StopWorker
<1>4. ASSUME NEW w \in Workers, WorkerNext(w)
      PROVE  Calm
  <2>1. CASE Thread(w) \/ ScriptFails(w) \/ NameRefused(w) \/ NameSet(w) \/ NoName(w)
             \/ Fail(w) \/ Emplace(w) \/ Finish(w)
    BY <2>1, <1>1 DEF Thread, ThreadEnd, ScriptFails, NameRefused, InitFails, NameSet, NoName,
       WorkerUnchanged, Fail, AddFailed, Emplace, AddFinish, Finish, AddStart
  <2>2. CASE Refuse(w)
    BY <2>2, CalmPop DEF Refuse, AddRefused
  <2>3. CASE Begin(w)
    BY <2>3, CalmPop DEF Begin, AddBegin
  <2>4. CASE OtherTasks(w)
    <3>1. CASE RunStopEmpty(w)
      BY <2>4, <3>1, CalmPop DEF OtherTasks, RunStopEmpty
    <3>2. CASE RunStop(w)
      BY <2>4, <3>2, CalmStop DEF OtherTasks
    <3>3. CASE RemoveMissing(w)
      BY <2>4, <3>3, CalmPop DEF OtherTasks, RemoveMissing
    <3> QED
      BY <2>4, <3>1, <3>2, <3>3 DEF OtherTasks
  <2>5. CASE Removed(w)
    BY <2>5, CalmPop DEF Removed, RemoveFound
  <2> QED
    BY <1>4, <2>1, <2>2, <2>3, <2>4, <2>5 DEF WorkerNext
<1>5. CASE SetLimit \/ Lalloc
  BY <1>1, <1>5 DEF SetLimit, Lalloc, LimitRefuses, SystemRefuses, Realloc, LuaUnchanged,
     workerVars
<1>6. CASE UNCHANGED vars
  BY <1>1, <1>6 DEF vars, workerVars
<1> QED
  BY <1>2, <1>3, <1>4, <1>5, <1>6 DEF Next, Script

\* Then requests are queued as they were, and those that have been run stay so.
LEMMA CalmQueued ==
    ASSUME Queued, Calm
    PROVE  Queued' /\ Tried \subseteq Tried'
<1>1. \A c \in Requests, w \in Workers :
          /\ InQueue(queue_'[w], c) => InQueue(queue_[w], c)
          /\ QueuedOnce(queue_[w], c) => QueuedOnce(queue_'[w], c)
  BY DEF Calm, Thins
<1>2. asked' = asked
  BY DEF Calm
<1>3. Queued'
  BY <1>1, <1>2 DEF Queued
<1>4. Tried \subseteq Tried'
  BY <1>1, <1>2 DEF Tried
<1> QED
  BY <1>3, <1>4

\* A request that is put to a worker was not queued before, nor run.
LEMMA NewQueued ==
    ASSUME Typed, Queued, NEW c \in Requests, NEW w \in Workers, NewService(c, w)
    PROVE  Queued' /\ Tried \subseteq Tried'
<1> DEFINE t == Append(queue_[w], AddTask(c, TRUE))
<1>1. asked[c] = 0 /\ asked' = [asked EXCEPT ![c] = w]
  BY DEF NewService
<1>2. queue_' = [queue_ EXCEPT ![w] = t] /\ queue_[w] \in Seq(Asking)
  BY DEF NewService, Post, Typed, Queues
<1>3. \A v \in Workers : v # 0
  BY DEF Workers
<1>4. \A v \in Workers : ~InQueue(queue_[v], c)
  BY <1>1, <1>3 DEF Queued
<1>5. /\ QueuedOnce(t, c)
      /\ \A d \in Requests : d # c =>
             /\ InQueue(t, d) => InQueue(queue_[w], d)
             /\ QueuedOnce(queue_[w], d) => QueuedOnce(t, d)
  BY <1>2, <1>4, AppendAdd
<1> HIDE DEF t
<1>6. \A v \in Workers : queue_'[v] = IF v = w THEN t ELSE queue_[v]
  BY <1>2 DEF Typed, Queues
<1>7. \A d \in Requests : asked'[d] = IF d = c THEN w ELSE asked[d]
  BY <1>1 DEF Queued
<1>8. \A d \in Requests, v \in Workers : d # c =>
          /\ InQueue(queue_'[v], d) => InQueue(queue_[v], d)
          /\ QueuedOnce(queue_[v], d) => QueuedOnce(queue_'[v], d)
  BY <1>5, <1>6
<1>9. \A v \in Workers :
          /\ InQueue(queue_'[v], c) => v = w
          /\ QueuedOnce(queue_[v], c) => QueuedOnce(queue_'[v], c)
  BY <1>4, <1>5, <1>6
<1>10. asked' \in [Requests -> Workers \cup {0}]
  BY <1>1 DEF Queued
<1>11. Queued'
  BY <1>7, <1>8, <1>9, <1>10 DEF Queued
<1>12. Tried \subseteq Tried'
  BY <1>1, <1>7, <1>8 DEF Tried
<1> QED
  BY <1>11, <1>12

\* So every step keeps requests queued once.
LEMMA QueuedStep ==
    ASSUME Typed, Queued, [Next]_vars
    PROVE  Queued' /\ Tried \subseteq Tried'
BY CalmSteps, CalmQueued, NewQueued

-----------------------------------------------------------------------------
(* The numbers that uuid() gives. *)

\* Products grow with a factor.
LEMMA ProductMonotonic ==
    ASSUME NEW m \in Nat, NEW a \in Nat, NEW b \in Nat, a <= b
    PROVE  m * a <= m * b /\ m * a \in Nat
<1>1. PICK d \in Nat : b = a + d
  <2>1. b - a \in Nat /\ b = a + (b - a)
    OBVIOUS
  <2> QED
    BY <2>1
<1>2. m * d \in Nat /\ m * a \in Nat
  OBVIOUS
<1>3. m * b = m * a + m * d
  BY <1>1
<1> QED
  BY <1>2, <1>3

\* A rest is no more than what is divided, and less by a divisor at least unless equal.
LEMMA RestBelow ==
    ASSUME NEW m \in Nat \ {0}, NEW e \in Nat
    PROVE  /\ e % m \in 0..(m - 1)
           /\ e % m <= e
           /\ e < (e % m) + m => e % m = e
<1> DEFINE d == e \div m
           r == e % m
<1>1. e = d * m + r /\ d \in Int /\ r \in 0..(m - 1)
  OBVIOUS
<1> HIDE DEF d, r
<1>2. d >= 1 => d * m >= m
  BY <1>1
<1>3. d <= -1 => d * m <= -m
  BY <1>1
<1>4. d = 0 => d * m = 0
  BY <1>1
<1>5. d >= 0
  BY <1>1, <1>3
<1>6. r <= e /\ (e < r + m => r = e)
  BY <1>1, <1>2, <1>4, <1>5
<1> QED
  BY <1>1, <1>6 DEF r

\* The requests that have been run are finitely many, no more than the requests.
LEMMA TriedFinite ==
    /\ Cardinality(Tried) \in Nat /\ Cardinality(Tried') \in Nat
    /\ Cardinality(Tried') <= Cardinality(Requests) /\ Cardinality(Requests) \in Nat
    /\ Tried \subseteq Tried' => Cardinality(Tried) <= Cardinality(Tried')
    /\ \A c \in Tried' : c \notin Tried /\ Tried \subseteq Tried' =>
           Cardinality(Tried) + 1 <= Cardinality(Tried')
<1>1. Tried \subseteq Requests /\ Tried' \subseteq Requests /\ IsFiniteSet(Requests)
  BY LuaServiceAssumption DEF Tried
<1>2. IsFiniteSet(Tried) /\ IsFiniteSet(Tried')
  BY <1>1, FS_Subset
<1>3. Cardinality(Tried) \in Nat /\ Cardinality(Tried') \in Nat /\ Cardinality(Requests) \in Nat
  BY <1>1, <1>2, FS_CardinalityType
<1>4. Cardinality(Tried') <= Cardinality(Requests)
  BY <1>1, FS_Subset
<1>5. Tried \subseteq Tried' => Cardinality(Tried) <= Cardinality(Tried')
  BY <1>2, FS_Subset
<1>6. ASSUME NEW c \in Tried', c \notin Tried, Tried \subseteq Tried'
      PROVE  Cardinality(Tried) + 1 <= Cardinality(Tried')
  <2>1. Cardinality(Tried \cup {c}) = Cardinality(Tried) + 1
    BY <1>2, <1>6, FS_AddElement
  <2>2. Tried \cup {c} \in SUBSET Tried'
    BY <1>6
  <2>3. Cardinality(Tried \cup {c}) <= Cardinality(Tried')
    BY <1>2, <2>2, FS_Subset
  <2> QED
    BY <2>1, <2>3
<1> QED
  BY <1>3, <1>4, <1>5, <1>6

\* The task that begins is that of a request that has not been run.
LEMMA BeginTries ==
    ASSUME Typed, Queued, NEW w \in Workers, AddBegin(w), asked' = asked
    PROVE  \E c \in Tried' : c \notin Tried
<1> DEFINE q == queue_[w]
           c == Head(q).arg
<1>1. q \in Seq(Asking) /\ q # <<>> /\ Head(q).op = "add" /\ c \in Requests
  <2>1. Pops(w, "add")
    BY DEF AddBegin
  <2>2. Head(q) \in Asking /\ Head(q).op = "add"
    BY <2>1, PopType DEF Typed
  <2> QED
    BY <2>1, <2>2 DEF Pops, Typed, Queues, Asking
<1>2. queue_' = [queue_ EXCEPT ![w] = Tail(q)]
  BY DEF AddBegin, Popped
<1>3. QueuedOnce(q, c)
  BY <1>1 DEF Queued
<1>4. InQueue(q, c) /\ ~InQueue(Tail(q), c)
  BY <1>1, <1>3, HeadTaken
<1>5. asked[c] = w /\ \A v \in Workers : InQueue(queue_[v], c) => v = w
  BY <1>1, <1>4 DEF Queued
<1>6. \A v \in Workers : queue_'[v] = IF v = w THEN Tail(q) ELSE queue_[v]
  BY <1>2 DEF Typed, Queues
<1>7. c \notin Tried
  BY <1>4 DEF Tried
<1>8. w # 0
  BY DEF Workers
<1> HIDE DEF c
<1>9. c \in Tried'
  BY <1>1, <1>4, <1>5, <1>6, <1>8 DEF Tried
<1> QED
  BY <1>7, <1>9

\* The task that begins has called uuid() n times, and k is the number it was given.
DrawsAt(w, n, k) ==
    /\ n \in 1..max_uuid
    /\ k = ((uuid_[w] + n - 1) % max_uuid) + 1
    /\ uuid_' = [uuid_ EXCEPT ![w] = uuid_[w] + n]
    /\ \E a \in Adding : adding' = [adding EXCEPT ![w] = a] /\ a.id = k /\ a.cfg \in Requests

\* The counter does not wrap, and the task that begins has its share of the count.
LEMMA BeginCounts ==
    ASSUME Typed, CInv, NEW w \in Workers, AddBegin(w), asked' = asked,
           Tried \subseteq Tried'
    PROVE  /\ Counted'
           /\ \E n, k \in Nat : DrawsAt(w, n, k)
<1> UintRange \in Nat \ {0} /\ max_uuid \in Nat \ {0}
  BY WorkerAssumption
<1> DEFINE m == max_uuid
           t == Cardinality(Tried)
           s == Cardinality(Tried')
<1>1. PICK n \in 1..max_uuid :
          /\ uuid_' = [uuid_ EXCEPT ![w] = (@ + n) % UintRange]
          /\ adding' = [adding EXCEPT ![w] = [id |-> Candidate(w, n),
                                              cfg |-> Head(queue_[w]).arg,
                                              ok |-> Head(queue_[w]).ok]]
  BY DEF AddBegin
<1>2. t \in Nat /\ s \in Nat /\ t + 1 <= s /\ s <= Cardinality(Requests)
      /\ Cardinality(Requests) \in Nat
  BY TriedFinite, BeginTries DEF CInv
<1> DEFINE R == Cardinality(Requests)
<1> HIDE DEF t, s, R
<1>3. \A v \in Workers : uuid_[v] \in Nat /\ uuid_[v] <= m * t
  BY DEF CInv, Counted, Typed, t
<1>4. m * (t + 1) <= m * s /\ m * s <= m * R /\ m * t <= m * s /\ m * (t + 1) \in Nat
      /\ m * s \in Nat /\ m * t \in Nat /\ m * R \in Nat
  <2>1. t + 1 \in Nat /\ s \in Nat /\ R \in Nat /\ t \in Nat /\ t <= s /\ s <= R /\ m \in Nat
        /\ t + 1 <= s
    BY <1>2 DEF R
  <2> HIDE DEF m
  <2> QED
    BY <2>1, ProductMonotonic
<1>5. m * (t + 1) = m * t + m
  BY <1>2
<1>6. m * R < UintRange
  <2>1. R * m < UintRange
    BY LuaServiceAssumption DEF R
  <2>2. R * m = m * R
    BY <1>2 DEF R
  <2> QED
    BY <2>1, <2>2
<1>7. uuid_[w] + n <= m * s /\ uuid_[w] + n < UintRange /\ uuid_[w] + n \in Nat
  BY <1>3, <1>4, <1>5, <1>6
<1>8. (uuid_[w] + n) % UintRange = uuid_[w] + n
  BY <1>7
<1>9. uuid_' = [uuid_ EXCEPT ![w] = uuid_[w] + n]
  BY <1>1, <1>8
<1>10. \A v \in Workers : uuid_'[v] <= m * s
  BY <1>3, <1>4, <1>7, <1>9 DEF Typed
<1>11. Counted'
  BY <1>10 DEF Counted, s
<1>12. Candidate(w, n) \in Nat
  <2>1. (uuid_[w] + n - 1) % UintRange \in Nat
    BY <1>3
  <2> QED
    BY <2>1 DEF Candidate
<1>13. PICK a \in Adding : adding' = [adding EXCEPT ![w] = a] /\ a.cfg \in Requests
  BY BeginType
<1>14. a = [id |-> Candidate(w, n), cfg |-> Head(queue_[w]).arg, ok |-> Head(queue_[w]).ok]
  BY <1>1, <1>13 DEF Typed
<1>15. a.id = Candidate(w, n)
  BY <1>14
<1>16. Candidate(w, n) = ((uuid_[w] + n - 1) % max_uuid) + 1
  <2>1. uuid_[w] + n - 1 \in Nat /\ uuid_[w] + n - 1 < UintRange
    BY <1>3, <1>7
  <2>2. (uuid_[w] + n - 1) % UintRange = uuid_[w] + n - 1
    BY <2>1
  <2> QED
    BY <2>2 DEF Candidate
<1>17. DrawsAt(w, n, Candidate(w, n))
  BY <1>1, <1>9, <1>13, <1>15, <1>16 DEF DrawsAt
<1> QED
  BY <1>11, <1>12, <1>17

\* The number that is drawn is behind the counter, and in the first round it is one that
\* was not drawn before.
LEMMA DrawsFresh ==
    ASSUME Typed, NEW w \in Workers, NEW n \in Nat, NEW k \in Nat, DrawsAt(w, n, k)
    PROVE  /\ k \in Uuid
           /\ k <= uuid_'[w]
           /\ uuid_[w] < uuid_'[w]
           /\ uuid_'[w] < k + max_uuid => uuid_[w] < k
           /\ \A v \in Workers : v # w => uuid_'[v] = uuid_[v]
<1> max_uuid \in Nat \ {0}
  BY WorkerAssumption
<1> DEFINE e == uuid_[w] + n - 1
           r == e % max_uuid
<1>1. n \in 1..max_uuid /\ k = r + 1 /\ uuid_' = [uuid_ EXCEPT ![w] = uuid_[w] + n]
  BY DEF DrawsAt
<1>2. uuid_[w] \in Nat /\ uuid_'[w] = e + 1 /\ e \in Nat
  BY <1>1 DEF Typed
<1>3. r \in 0..(max_uuid - 1) /\ r <= e /\ (e < r + max_uuid => r = e)
  BY <1>2, RestBelow
<1>4. \A v \in Workers : v # w => uuid_'[v] = uuid_[v]
  BY <1>1 DEF Typed
<1>5. uuid_[w] < e + 1
  BY <1>1, <1>2
<1> HIDE DEF e, r
<1> QED
  BY <1>1, <1>2, <1>3, <1>4, <1>5 DEF Uuid

-----------------------------------------------------------------------------
(* Every step keeps the count. *)

\* Only a task that begins moves the counter.
LEMMA CounterSteps ==
    ASSUME [Next]_vars
    PROVE  uuid_' = uuid_ \/ \E w \in Workers : Begin(w)
<1>1. ASSUME NEW w \in Workers, WorkerNext(w)
      PROVE  uuid_' = uuid_ \/ Begin(w)
  BY <1>1 DEF WorkerNext, Thread, ThreadEnd, ScriptFails, NameRefused, InitFails, NameSet,
     NoName, WorkerUnchanged, Fail, AddFailed, Emplace, AddFinish, Finish, AddStart, Refuse,
     AddRefused, OtherTasks, RunStopEmpty, RunStop, RemoveMissing, Removed, RemoveFound
<1>2. CASE Script \/ SetLimit \/ Lalloc \/ \E w \in Workers : StopWorker(w)
  BY <1>2 DEF Script, NewService, RemoveService, StopWorker, SetLimit, Lalloc, LimitRefuses,
     SystemRefuses, Realloc, LuaUnchanged, workerVars
<1>3. CASE UNCHANGED vars
  BY <1>3 DEF vars, workerVars
<1> QED
  BY <1>1, <1>2, <1>3 DEF Next

\* Requests and numbers stay counted.
LEMMA CountedStep ==
    ASSUME Typed, CInv, [Next]_vars
    PROVE  CInv'
<1>1. Queued' /\ Tried \subseteq Tried'
  BY QueuedStep DEF CInv
<1>2. CASE uuid_' = uuid_
  <2>1. Cardinality(Tried) \in Nat /\ Cardinality(Tried') \in Nat
        /\ Cardinality(Tried) <= Cardinality(Tried')
    BY <1>1, TriedFinite
  <2>2. max_uuid * Cardinality(Tried) <= max_uuid * Cardinality(Tried')
        /\ max_uuid * Cardinality(Tried) \in Nat
    BY <2>1, ProductMonotonic, WorkerAssumption
  <2>3. max_uuid * Cardinality(Tried') \in Nat
    BY <2>1, ProductMonotonic, WorkerAssumption
  <2>4. \A w \in Workers : uuid_'[w] \in Nat /\ uuid_'[w] <= max_uuid * Cardinality(Tried)
    BY <1>2 DEF CInv, Counted, Typed
  <2>5. \A w \in Workers : uuid_'[w] <= max_uuid * Cardinality(Tried')
    BY <2>2, <2>3, <2>4
  <2> QED
    BY <1>1, <2>5 DEF CInv, Counted
<1>3. ASSUME NEW w \in Workers, Begin(w)
      PROVE  CInv'
  <2>1. AddBegin(w) /\ asked' = asked
    BY <1>3 DEF Begin
  <2> QED
    BY <1>1, <2>1, BeginCounts DEF CInv
<1> QED
  BY <1>2, <1>3, CounterSteps

-----------------------------------------------------------------------------
(* Names lead home. *)

\* An id tells the worker and the number.
LEMMA IdIs ==
    ASSUME NEW v \in Workers, NEW w \in Workers, NEW j, NEW k
    PROVE  /\ Id(w, k) # NoId
           /\ Id(v, j) = Id(w, k) => v = w /\ j = k
BY DEF Id, NoId, Workers

\* Services may leave tables, and that is all.
Quiet ==
    /\ UNCHANGED <<uuid_, wpc, adding, named, unique_services_, owner, created>>
    /\ \A w \in Workers : services_'[w] \subseteq services_[w]
    /\ \A c \in Requests : place'[c] = place[c] \/ place'[c] = NoId

\* Then names lead where they led.
LEMMA QuietHome ==
    ASSUME HInv, Quiet
    PROVE  HInv'
<1>1. UNCHANGED <<uuid_, wpc, adding, named, unique_services_, owner, created>>
  BY DEF Quiet
<1>2. \A w \in Workers : \A k : k \in services_'[w] => k \in services_[w]
  BY DEF Quiet
<1>3. \A c \in Requests, w \in Workers : \A k : place'[c] = Id(w, k) => place[c] = Id(w, k)
  BY IdIs DEF Quiet
<1>4. Drawn'
  BY <1>1, <1>2, <1>3 DEF HInv, Drawn
<1>5. Unused'
  BY <1>1, <1>2, <1>3 DEF HInv, Unused, FirstRound
<1>6. Home'
  BY <1>1, <1>3 DEF HInv, Home, FirstRound, OnItsWay, AtHome
<1>7. NamedOk'
  BY <1>1 DEF HInv, NamedOk
<1> QED
  BY <1>4, <1>5, <1>6, <1>7 DEF HInv

\* The steps that do not go on with add_service.
LEMMA QuietSteps ==
    ASSUME IInv,
           \/ Script \/ SetLimit \/ Lalloc \/ UNCHANGED vars
           \/ \E w \in Workers : \/ StopWorker(w) \/ Thread(w) \/ Refuse(w)
                                 \/ OtherTasks(w) \/ Removed(w)
    PROVE  Quiet
<1>1. UNCHANGED <<uuid_, wpc, adding, named, unique_services_, owner, created, services_,
                  place>> => Quiet
  BY DEF Quiet
<1>2. CASE Script \/ SetLimit \/ Lalloc \/ UNCHANGED vars
  <2>1. CASE Script
    BY <1>1, <2>1 DEF Script, NewService, RemoveService, nameVars
  <2>2. CASE SetLimit \/ Lalloc
    <3>1. LuaUnchanged
      BY <2>2 DEF SetLimit, Lalloc, LimitRefuses, SystemRefuses, Realloc
    <3> QED
      BY <1>1, <3>1 DEF LuaUnchanged, workerVars, nameVars
  <2>3. CASE UNCHANGED vars
    BY <1>1, <2>3 DEF workerVars, nameVars, vars
  <2> QED
    BY <1>2, <2>1, <2>2, <2>3
<1>3. ASSUME NEW w \in Workers, StopWorker(w) \/ Thread(w) \/ Refuse(w) \/ OtherTasks(w)
      PROVE  Quiet
  BY <1>1, <1>3 DEF StopWorker, Thread, ThreadEnd, Refuse, AddRefused, OtherTasks,
     RunStopEmpty, RunStop, RemoveMissing, nameVars
<1>4. ASSUME NEW w \in Workers, Removed(w)
      PROVE  Quiet
  <2>1. PICK c \in Requests : place' = [place EXCEPT ![c] = NoId]
    BY <1>4 DEF Removed
  <2>2. /\ UNCHANGED <<uuid_, wpc, adding, named, unique_services_, owner, created>>
        /\ services_' = [services_ EXCEPT ![w] = @ \ {Head(queue_[w]).arg}]
    BY <1>4 DEF Removed, RemoveFound
  <2> QED
    BY <2>1, <2>2 DEF Quiet, IInv, Typed
<1> QED
  BY <1>2, <1>3, <1>4

\* A number is drawn: in its first round it is one that nobody was given.
LEMMA BeginHome ==
    ASSUME IInv, CInv, HInv, NEW w \in Workers, Begin(w)
    PROVE  HInv'
<1>1. /\ AddBegin(w) /\ asked' = asked /\ wpc[w] = "loop"
      /\ wpc' = [wpc EXCEPT ![w] = "init"]
      /\ UNCHANGED <<services_, created, named, unique_services_, owner, place>>
  BY DEF Begin, AddBegin, Pops, nameVars
<1>2. Tried \subseteq Tried'
  BY <1>1, CalmPop, CalmQueued DEF IInv, CInv, AddBegin
<1>3. PICK n \in Nat, k \in Nat : DrawsAt(w, n, k)
  BY <1>1, <1>2, BeginCounts DEF IInv
<1>4. /\ k \in Uuid
      /\ k <= uuid_'[w]
      /\ uuid_[w] < uuid_'[w]
      /\ uuid_'[w] < k + max_uuid => uuid_[w] < k
      /\ \A v \in Workers : v # w => uuid_'[v] = uuid_[v]
  BY <1>3, DrawsFresh DEF IInv
<1>5. PICK a \in Adding : adding' = [adding EXCEPT ![w] = a] /\ a.id = k /\ a.cfg \in Requests
  BY <1>3 DEF DrawsAt
<1>6. /\ adding'[w].id = k /\ wpc'[w] = "init"
      /\ \A v \in Workers : v # w => adding'[v] = adding[v] /\ wpc'[v] = wpc[v]
  BY <1>1, <1>5 DEF IInv, Typed
<1>7. \A v \in Workers : uuid_[v] \in Nat /\ uuid_'[v] \in Nat /\ uuid_[v] <= uuid_'[v]
  BY <1>4, <1>1, BeginType DEF IInv, Typed
<1>8. \A j \in Uuid : j \in Nat
  BY WorkerAssumption DEF Uuid
<1>9. \A v \in Workers, j \in Uuid : FirstRound(v, j)' => FirstRound(v, j)
  BY <1>7, <1>8, WorkerAssumption DEF FirstRound
<1>10. \A v \in Workers, j \in Uuid : j <= uuid_[v] => j <= uuid_'[v]
  BY <1>7, <1>8
<1>11. services_[w] \subseteq Uuid
  BY DEF IInv, Typed
<1>12. Drawn'
  <2>1. \A v \in Workers : \A j \in services_'[v] : j <= uuid_'[v]
    BY <1>1, <1>10 DEF HInv, Drawn, IInv, Typed
  <2>2. \A v \in Workers, c \in Requests, j \in Uuid : place'[c] = Id(v, j) => j <= uuid_'[v]
    BY <1>1, <1>10 DEF HInv, Drawn
  <2>3. \A v \in Workers, name \in Names, j \in Uuid :
            unique_services_'[name] = Id(v, j) => j <= uuid_'[v]
    BY <1>1, <1>10 DEF HInv, Drawn
  <2>4. \A v \in Workers : wpc'[v] # "loop" => adding'[v].id <= uuid_'[v]
    BY <1>4, <1>6 DEF HInv, Drawn
  <2> QED
    BY <2>1, <2>2, <2>3, <2>4 DEF Drawn
<1>13. uuid_'[w] < k + max_uuid => \A j \in Uuid : j <= uuid_[w] => j # k
  BY <1>4, <1>7, <1>8
<1>14. Unused'
  <2> SUFFICES ASSUME NEW v \in Workers, wpc'[v] = "init", FirstRound(v, adding[v].id)'
               PROVE  /\ adding'[v].id \notin services_'[v]
                      /\ \A c \in Requests : place'[c] # Id(v, adding'[v].id)
    BY DEF Unused
  <2>1. CASE v # w
    <3>1. FirstRound(v, adding[v].id)
      BY <1>4, <1>6, <2>1 DEF FirstRound
    <3> QED
      BY <1>1, <1>6, <2>1, <3>1 DEF HInv, Unused
  <2>2. CASE v = w
    <3>1. uuid_'[w] < k + max_uuid
      BY <1>6, <2>2 DEF FirstRound
    <3>2. k \notin services_[w]
      BY <1>11, <1>13, <3>1 DEF HInv, Drawn
    <3>3. \A c \in Requests : place[c] # Id(w, k)
      BY <1>4, <1>13, <3>1 DEF HInv, Drawn
    <3> QED
      BY <1>1, <1>6, <2>2, <3>2, <3>3
  <2> QED
    BY <2>1, <2>2
<1>15. Home'
  <2> SUFFICES ASSUME NEW name \in Names, NEW v \in Workers, NEW j \in Uuid,
                      unique_services_'[name] = Id(v, j), FirstRound(v, j)'
               PROVE  OnItsWay(name, v, j)' \/ AtHome(name, v, j)'
    BY DEF Home
  <2>1. OnItsWay(name, v, j) \/ AtHome(name, v, j)
    BY <1>1, <1>9 DEF HInv, Home
  <2>2. CASE v # w
    BY <1>1, <1>6, <2>1, <2>2 DEF OnItsWay, AtHome
  <2>3. CASE v = w
    <3>1. AtHome(name, w, j)
      BY <1>1, <2>1, <2>3 DEF OnItsWay
    <3>2. j <= uuid_[w]
      BY <1>1, <2>3 DEF HInv, Drawn
    <3>3. j = k => uuid_'[w] < k + max_uuid
      BY <2>3 DEF FirstRound
    <3>4. j # k
      BY <1>13, <3>2, <3>3
    <3> QED
      BY <1>1, <1>6, <2>3, <3>1, <3>4 DEF AtHome
  <2> QED
    BY <2>2, <2>3
<1>16. NamedOk'
  <2>1. ~named[w]
    BY <1>1 DEF IInv, OwnersOnly
  <2> QED
    BY <1>1, <1>6, <2>1 DEF HInv, NamedOk
<1> QED
  BY <1>12, <1>14, <1>15, <1>16 DEF HInv

\* init fails before the name is set: the task goes on to fail.
LEMMA InitFailsHome ==
    ASSUME IInv, HInv, NEW w \in Workers, ScriptFails(w) \/ NameRefused(w)
    PROVE  HInv'
<1>1. InitFails(w) /\ ~named[w]
  BY DEF ScriptFails, NameRefused, AtName, InInit
<1>2. /\ adding' = [adding EXCEPT ![w].ok = FALSE]
      /\ UNCHANGED <<uuid_, wpc, services_, created, named, unique_services_, owner, place>>
  BY <1>1 DEF InitFails, WorkerUnchanged, nameVars
<1>3. \A v \in Workers :
          /\ adding'[v].cfg = adding[v].cfg
          /\ adding'[v].id = adding[v].id
          /\ v # w => adding'[v].ok = adding[v].ok
  BY <1>2 DEF IInv, Typed, Adding
<1>4. Drawn'
  BY <1>2, <1>3 DEF HInv, Drawn
<1>5. Unused'
  BY <1>2, <1>3 DEF HInv, Unused, FirstRound
<1>6. Home'
  BY <1>2, <1>3 DEF HInv, Home, FirstRound, OnItsWay, AtHome
<1>7. NamedOk'
  BY <1>1, <1>2, <1>3 DEF HInv, NamedOk
<1> QED
  BY <1>4, <1>5, <1>6, <1>7 DEF HInv

\* The name is stored: it leads to a service on its way.
LEMMA NameSetHome ==
    ASSUME IInv, HInv, NEW w \in Workers, NameSet(w)
    PROVE  HInv'
<1> DEFINE n == NameAsked(w)
           id == adding[w].id
<1>1. /\ n \in Names
      /\ unique_services_' = [unique_services_ EXCEPT ![n] = Id(w, id)]
      /\ owner' = [owner EXCEPT ![n] = adding[w].cfg]
      /\ named' = [named EXCEPT ![w] = TRUE]
      /\ wpc[w] = "init" /\ adding[w].ok /\ ~named[w]
      /\ UNCHANGED <<uuid_, wpc, services_, created, adding, place>>
  BY DEF NameSet, AtName, InInit, WorkerUnchanged
<1> HIDE DEF n
<1>2. \A name \in Names :
          /\ unique_services_'[name] = IF name = n THEN Id(w, id) ELSE unique_services_[name]
          /\ owner'[name] = IF name = n THEN adding[w].cfg ELSE owner[name]
  BY <1>1 DEF IInv, Typed
<1>3. \A v \in Workers : named'[v] <=> v = w \/ named[v]
  BY <1>1 DEF IInv, Typed
<1>4. Drawn'
  <2>1. \A v \in Workers, name \in Names, j \in Uuid :
            unique_services_'[name] = Id(v, j) => j <= uuid_[v]
    <3> SUFFICES ASSUME NEW v \in Workers, NEW name \in Names, NEW j \in Uuid,
                        unique_services_'[name] = Id(v, j)
                 PROVE  j <= uuid_[v]
      OBVIOUS
    <3>1. CASE name = n
      <4>1. v = w /\ j = id
        BY <1>2, <3>1, IdIs
      <4> QED
        BY <1>1, <4>1 DEF HInv, Drawn
    <3>2. CASE name # n
      BY <1>2, <3>2 DEF HInv, Drawn
    <3> QED
      BY <3>1, <3>2
  <2> QED
    BY <1>1, <2>1 DEF HInv, Drawn
<1>5. Unused'
  BY <1>1 DEF HInv, Unused, FirstRound
<1>6. Home'
  <2> SUFFICES ASSUME NEW name \in Names, NEW v \in Workers, NEW j \in Uuid,
                      unique_services_'[name] = Id(v, j), FirstRound(v, j)'
               PROVE  OnItsWay(name, v, j)' \/ AtHome(name, v, j)'
    BY DEF Home
  <2>1. CASE name = n
    <3>1. v = w /\ j = id
      BY <1>2, <2>1, IdIs
    <3> QED
      BY <1>1, <1>2, <1>3, <2>1, <3>1 DEF OnItsWay
  <2>2. CASE name # n
    <3>1. OnItsWay(name, v, j) \/ AtHome(name, v, j)
      BY <1>1, <1>2, <2>2 DEF HInv, Home, FirstRound
    <3> QED
      BY <1>1, <1>2, <1>3, <2>2, <3>1 DEF OnItsWay, AtHome
  <2> QED
    BY <2>1, <2>2
<1>7. NamedOk'
  BY <1>1, <1>3 DEF HInv, NamedOk
<1> QED
  BY <1>4, <1>5, <1>6, <1>7 DEF HInv

\* A service that is not unique goes on.
LEMMA NoNameHome ==
    ASSUME IInv, HInv, NEW w \in Workers, NoName(w)
    PROVE  HInv'
<1>1. /\ named' = [named EXCEPT ![w] = TRUE]
      /\ adding[w].ok
      /\ UNCHANGED <<uuid_, wpc, services_, created, adding, place, unique_services_, owner>>
  BY DEF NoName, AtName, InInit, WorkerUnchanged
<1>2. \A v \in Workers : named'[v] <=> v = w \/ named[v]
  BY <1>1 DEF IInv, Typed
<1>3. Drawn' /\ Unused'
  BY <1>1 DEF HInv, Drawn, Unused, FirstRound
<1>4. Home'
  BY <1>1, <1>2 DEF HInv, Home, FirstRound, OnItsWay, AtHome
<1>5. NamedOk'
  BY <1>1, <1>2 DEF HInv, NamedOk
<1> QED
  BY <1>3, <1>4, <1>5 DEF HInv

\* The task ends.  One that failed had set no name in the first round of its number: it
\* passed the question with a good script, and emplace found the number free.
LEMMA EndHome ==
    ASSUME IInv, HInv, NEW w \in Workers, Fail(w) \/ Finish(w)
    PROVE  HInv'
<1>1. /\ wpc' = [wpc EXCEPT ![w] = "loop"]
      /\ adding' = [adding EXCEPT ![w] = NoService]
      /\ UNCHANGED <<uuid_, services_, created, place, unique_services_, owner>>
  BY DEF Fail, AddFailed, Finish, AddStart
<1>2. \A v \in Workers : named'[v] => v # w /\ named[v]
  <2>1. CASE Fail(w)
    BY <2>1 DEF Fail, IInv, Typed
  <2>2. CASE Finish(w)
    <3>1. named' = named /\ wpc[w] = "add_start"
      BY <2>2 DEF Finish, AddStart
    <3> QED
      BY <3>1 DEF IInv, Typed, OwnersOnly
  <2> QED
    BY <2>1, <2>2
<1>3. \A v \in Workers : v # w =>
          /\ wpc'[v] = wpc[v] /\ adding'[v] = adding[v]
          /\ named[v] => named'[v]
  BY <1>1 DEF IInv, Typed, Fail, Finish
<1>4. wpc'[w] = "loop"
  BY <1>1 DEF IInv, Typed
<1>5. Drawn'
  BY <1>1, <1>3, <1>4 DEF HInv, Drawn
<1>6. Unused'
  BY <1>1, <1>3, <1>4 DEF HInv, Unused, FirstRound
<1>7. Home'
  <2> SUFFICES ASSUME NEW name \in Names, NEW v \in Workers, NEW j \in Uuid,
                      unique_services_'[name] = Id(v, j), FirstRound(v, j)'
               PROVE  OnItsWay(name, v, j)' \/ AtHome(name, v, j)'
    BY DEF Home
  <2>1. (OnItsWay(name, v, j) \/ AtHome(name, v, j)) /\ FirstRound(v, j)
    BY <1>1 DEF HInv, Home, FirstRound
  <2>2. CASE v # w
    BY <1>1, <1>3, <2>1, <2>2 DEF OnItsWay, AtHome
  <2>3. CASE v = w
    <3>1. AtHome(name, w, j)
      <4>1. SUFFICES ASSUME OnItsWay(name, w, j)
                     PROVE  FALSE
        BY <2>1, <2>3
      <4>2. wpc[w] = "init" /\ named[w] /\ adding[w].id = j
        BY <4>1 DEF OnItsWay
      <4>3. adding[w].ok /\ adding[w].id \notin services_[w]
        BY <2>1, <2>3, <4>2 DEF HInv, NamedOk, Unused
      <4> QED
        BY <4>2, <4>3 DEF Fail, AddFailed, Finish, AddStart
    <3> QED
      BY <1>1, <1>4, <2>3, <3>1 DEF AtHome
  <2> QED
    BY <2>2, <2>3
<1>8. NamedOk'
  BY <1>2, <1>3 DEF HInv, NamedOk
<1> QED
  BY <1>5, <1>6, <1>7, <1>8 DEF HInv

\* emplace: the service that was on its way is there.
LEMMA EmplaceHome ==
    ASSUME IInv, HInv, NEW w \in Workers, Emplace(w)
    PROVE  HInv'
<1> DEFINE cfg == adding[w].cfg
           id == adding[w].id
<1>1. /\ named[w]
      /\ wpc[w] = "init"
      /\ wpc' = [wpc EXCEPT ![w] = "add_start"]
      /\ services_' = [services_ EXCEPT ![w] = @ \cup {id}]
      /\ created' = created \cup {cfg}
      /\ named' = [named EXCEPT ![w] = FALSE]
      /\ place' = [place EXCEPT ![cfg] = Id(w, id)]
      /\ UNCHANGED <<uuid_, adding, unique_services_, owner>>
  BY DEF Emplace, AddFinish
<1>2. cfg \in Requests /\ id \in Uuid /\ id <= uuid_[w]
  BY <1>1 DEF IInv, Typed, HInv, Drawn
<1> HIDE DEF cfg, id
<1>3. \A v \in Workers :
          /\ wpc'[v] = IF v = w THEN "add_start" ELSE wpc[v]
          /\ services_'[v] = IF v = w THEN services_[v] \cup {id} ELSE services_[v]
          /\ named'[v] <=> named[v] /\ v # w
  BY <1>1 DEF IInv, Typed
<1>4. \A c \in Requests : place'[c] = IF c = cfg THEN Id(w, id) ELSE place[c]
  BY <1>1 DEF IInv, Typed
<1>5. \A c \in Requests, v \in Workers : \A j :
          place'[c] = Id(v, j) => (c = cfg /\ v = w /\ j = id) \/ (c # cfg /\ place[c] = Id(v, j))
  BY <1>4, IdIs
<1>6. Drawn'
  <2>1. \A v \in Workers : \A j \in services_'[v] : j <= uuid_'[v]
    BY <1>1, <1>2, <1>3 DEF HInv, Drawn
  <2>2. \A v \in Workers, c \in Requests, j \in Uuid : place'[c] = Id(v, j) => j <= uuid_'[v]
    BY <1>1, <1>2, <1>5 DEF HInv, Drawn
  <2>3. \A v \in Workers, name \in Names, j \in Uuid :
            unique_services_'[name] = Id(v, j) => j <= uuid_'[v]
    BY <1>1 DEF HInv, Drawn
  <2>4. \A v \in Workers : wpc'[v] # "loop" => adding'[v].id <= uuid_'[v]
    BY <1>1, <1>3 DEF HInv, Drawn
  <2> QED
    BY <2>1, <2>2, <2>3, <2>4 DEF Drawn
<1>7. Unused'
  <2> SUFFICES ASSUME NEW v \in Workers, wpc'[v] = "init", FirstRound(v, adding[v].id)'
               PROVE  /\ adding'[v].id \notin services_'[v]
                      /\ \A c \in Requests : place'[c] # Id(v, adding'[v].id)
    BY DEF Unused
  <2>1. v # w /\ wpc[v] = "init" /\ FirstRound(v, adding[v].id)
    BY <1>1, <1>3 DEF FirstRound
  <2>2. /\ adding[v].id \notin services_[v]
        /\ \A c \in Requests : place[c] # Id(v, adding[v].id)
    BY <2>1 DEF HInv, Unused
  <2> QED
    BY <1>1, <1>3, <1>5, <2>1, <2>2
<1>8. Home'
  <2> SUFFICES ASSUME NEW name \in Names, NEW v \in Workers, NEW j \in Uuid,
                      unique_services_'[name] = Id(v, j), FirstRound(v, j)'
               PROVE  OnItsWay(name, v, j)' \/ AtHome(name, v, j)'
    BY DEF Home
  <2>1. (OnItsWay(name, v, j) \/ AtHome(name, v, j)) /\ FirstRound(v, j)
    BY <1>1 DEF HInv, Home, FirstRound
  <2>2. CASE v = w /\ j = id
    <3>1. OnItsWay(name, w, id)
      BY <1>1, <2>1, <2>2 DEF AtHome, id
    <3>2. owner[name] = cfg
      BY <3>1 DEF OnItsWay, cfg
    <3>3. \A c \in Requests : place[c] # Id(w, id)
      BY <1>1, <2>1, <2>2 DEF HInv, Unused, id
    <3>4. \A c \in Requests : place'[c] = Id(w, id) => c = cfg
      BY <1>5, <3>3
    <3>5. owner'[name] = cfg /\ cfg \in created' /\ wpc'[w] # "init"
      BY <1>1, <1>3, <3>2
    <3> QED
      BY <2>2, <3>4, <3>5 DEF AtHome
  <2>3. CASE ~(v = w /\ j = id)
    <3>1. \A c \in Requests : place'[c] = Id(v, j) => place[c] = Id(v, j)
      BY <1>5, <2>3
    <3>2. CASE OnItsWay(name, v, j)
      <4>1. v # w
        BY <2>3, <3>2 DEF OnItsWay, id
      <4> QED
        BY <1>1, <1>3, <3>2, <4>1 DEF OnItsWay
    <3>3. CASE AtHome(name, v, j)
      BY <1>1, <1>3, <3>1, <3>3 DEF AtHome
    <3> QED
      BY <2>1, <3>2, <3>3
  <2> QED
    BY <2>2, <2>3
<1>9. NamedOk'
  BY <1>1, <1>3 DEF HInv, NamedOk
<1> QED
  BY <1>6, <1>7, <1>8, <1>9 DEF HInv

\* Every step keeps names leading home.
LEMMA HomeStep ==
    ASSUME IInv, CInv, HInv, [Next]_vars
    PROVE  HInv'
<1>1. ASSUME NEW w \in Workers, WorkerNext(w)
      PROVE  HInv'
  BY <1>1, QuietSteps, QuietHome, BeginHome, InitFailsHome, NameSetHome, NoNameHome, EndHome,
     EmplaceHome DEF WorkerNext
<1> QED
  BY <1>1, QuietSteps, QuietHome DEF Next

\* The invariants hold at first and are kept.
LEMMA HomeInvariance == Spec => [](IInv /\ CInv /\ HInv)
<1>1. Init => CInv /\ HInv
  <2> SUFFICES ASSUME Init PROVE CInv /\ HInv
    OBVIOUS
  <2>1. \A w \in Workers, k \in Uuid : NoId # Id(w, k)
    BY IdIs
  <2>2. Queued
    BY DEF Init, Queued, InQueue, QueuedOnce
  <2>3. Counted
    <3>1. Tried = {}
      BY DEF Init, Tried
    <3>2. \A w \in Workers : uuid_[w] = 0
      BY DEF Init
    <3>3. max_uuid * 0 = 0 /\ Cardinality({}) = 0
      BY FS_EmptySet, WorkerAssumption
    <3> QED
      BY <3>1, <3>2, <3>3 DEF Counted
  <2>4. HInv
    BY <2>1 DEF Init, HInv, Drawn, Unused, Home, NamedOk
  <2> QED
    BY <2>2, <2>3, <2>4 DEF CInv
<1>2. IInv /\ CInv /\ HInv /\ [Next]_vars => CInv' /\ HInv'
  BY CountedStep, HomeStep DEF IInv
<1> QED
  BY <1>1, <1>2, Invariance, PTL DEF Spec

\* A name that queryservice() gives an id for leads, while the worker has not drawn the
\* number again, to the service that stored it or to nobody (lua_service::init,
\* worker::add_service and uuid(), router::get_unique_service).
THEOREM NamesLeadHome == Spec => []NameLeadsHome
<1>1. IInv /\ HInv => NameLeadsHome
  <2> SUFFICES ASSUME IInv, HInv, NEW name \in Names, unique_services_[name] # NoId,
                      wpc[unique_services_[name][1]] # "init",
                      uuid_[unique_services_[name][1]] < unique_services_[name][2] + max_uuid
               PROVE  /\ owner[name] \in created
                      /\ \A c \in Requests :
                             place[c] = unique_services_[name] => c = owner[name]
    BY DEF NameLeadsHome
  <2>1. PICK w \in Workers, k \in Uuid : unique_services_[name] = Id(w, k)
    BY DEF IInv, Typed, Ids, Id
  <2>2. wpc[w] # "init" /\ FirstRound(w, k)
    BY <2>1 DEF Id, FirstRound
  <2>3. AtHome(name, w, k)
    BY <2>1, <2>2 DEF HInv, Home, OnItsWay
  <2> QED
    BY <2>1, <2>3 DEF AtHome
<1> QED
  BY <1>1, HomeInvariance, PTL
-----------------------------------------------------------------------------
(* The memory of a Lua state. *)

\* What the blocks can be.
Sizes == [Blocks -> 0..MaxSize]

\* The memory that blocks of the sizes s take.
Units(s) == {u \in Blocks \X (1..MaxSize) : u[2] <= s[u[1]]}

\* The types of what lalloc counts, and that it counts right.
MemoryInv ==
    /\ size \in Sizes
    /\ mem \in Int
    /\ failures \in Nat
    /\ MemoryAccounted

\* The units are finitely many, and none where no block is used.
LEMMA UnitsFinite ==
    ASSUME NEW s \in Sizes
    PROVE  /\ IsFiniteSet(Units(s))
           /\ Cardinality(Units(s)) \in Nat
           /\ (\A b \in Blocks : s[b] = 0) => Cardinality(Units(s)) = 0
<1>1. IsFiniteSet(1..MaxSize)
  BY LuaServiceAssumption, FS_Interval
<1>2. IsFiniteSet(Blocks \X (1..MaxSize))
  BY <1>1, LuaServiceAssumption, FS_Product
<1>3. IsFiniteSet(Units(s))
  BY <1>2, FS_Subset DEF Units
<1>4. ASSUME \A b \in Blocks : s[b] = 0
      PROVE  Units(s) = {}
  BY <1>4 DEF Units
<1>5. Cardinality({}) = 0
  BY FS_EmptySet, Zenon
<1> QED
  BY <1>3, <1>4, <1>5, FS_CardinalityType

\* A block that grows or shrinks adds or takes as many units.
LEMMA UnitsChange ==
    ASSUME NEW s \in Sizes, NEW b \in Blocks, NEW n \in 0..MaxSize
    PROVE  Cardinality(Units([s EXCEPT ![b] = n])) = Cardinality(Units(s)) + n - s[b]
<1> DEFINE t == [s EXCEPT ![b] = n]
           R == {u \in Units(s) : u[1] # b}
           A == {b} \X (1..s[b])
           B == {b} \X (1..n)
<1>1. t \in Sizes /\ s[b] \in 0..MaxSize /\ MaxSize \in Nat
  BY LuaServiceAssumption DEF Sizes
<1>2. Units(s) = R \cup A /\ R \cap A = {}
  BY <1>1 DEF Units, Sizes
<1>3. Units(t) = R \cup B /\ R \cap B = {}
  BY <1>1 DEF Units, Sizes
<1>4. IsFiniteSet(R)
  BY UnitsFinite, FS_Subset
<1>5. ASSUME NEW m \in 0..MaxSize
      PROVE  IsFiniteSet({b} \X (1..m)) /\ Cardinality({b} \X (1..m)) = m
  <2>1. IsFiniteSet(1..m) /\ Cardinality(1..m) = m
    BY <1>1, <1>5, FS_Interval
  <2>2. IsFiniteSet({b}) /\ Cardinality({b}) = 1
    BY FS_Singleton
  <2>3. /\ IsFiniteSet({b} \X (1..m))
        /\ Cardinality({b} \X (1..m)) = Cardinality({b}) * Cardinality(1..m)
    BY <2>1, <2>2, FS_Product
  <2> QED
    BY <1>1, <2>1, <2>2, <2>3
<1>6. /\ IsFiniteSet(A) /\ Cardinality(A) = s[b]
      /\ IsFiniteSet(B) /\ Cardinality(B) = n
  BY <1>1, <1>5
<1>7. Cardinality({}) = 0 /\ Cardinality(R) \in Nat
  <2>1. Cardinality({}) = 0
    BY FS_EmptySet, Zenon
  <2>2. Cardinality(R) \in Nat
    BY <1>4, FS_CardinalityType
  <2> QED
    BY <2>1, <2>2
<1>8. /\ Cardinality(R \cup A) = Cardinality(R) + Cardinality(A) - Cardinality(R \cap A)
      /\ Cardinality(R \cup B) = Cardinality(R) + Cardinality(B) - Cardinality(R \cap B)
  BY <1>4, <1>6, FS_Union
<1>9. /\ Cardinality(Units(s)) = Cardinality(R) + s[b]
      /\ Cardinality(Units(t)) = Cardinality(R) + n
  <2> HIDE DEF t, R, A, B
  <2>1. /\ Cardinality(Units(s)) = Cardinality(R) + Cardinality(A) - 0
        /\ Cardinality(Units(t)) = Cardinality(R) + Cardinality(B) - 0
    BY <1>2, <1>3, <1>7, <1>8, Zenon
  <2> QED
    BY <1>1, <1>6, <1>7, <2>1
<1> HIDE DEF R, A, B
<1> QED
  BY <1>1, <1>7, <1>9

\* lalloc charges what the block becomes.
LEMMA ReallocCounts ==
    ASSUME MemoryInv, NEW b \in Blocks, NEW n \in 0..MaxSize,
           SystemRefuses(b, n) \/ Realloc(b, n)
    PROVE  MemoryInv'
<1> DEFINE c == Cardinality(Units(size))
<1>1. /\ size \in Sizes /\ mem \in Int /\ failures \in Nat
      /\ size[b] \in 0..MaxSize /\ MaxSize \in Nat
  BY LuaServiceAssumption DEF MemoryInv, Sizes
<1>2. c \in Nat /\ IF failures = 0 THEN mem = c ELSE mem >= c
  BY <1>1, UnitsFinite DEF MemoryInv, MemoryAccounted, Held, Units
<1>3. Cardinality(Held)' = Cardinality(Units(size'))
  BY DEF Held, Units
<1> HIDE DEF c
<1>4. CASE SystemRefuses(b, n)
  <2>1. size' = size /\ failures' = failures + 1 /\ mem' = mem + n - size[b] /\ n > size[b]
    BY <1>4 DEF SystemRefuses, Charged
  <2>2. Cardinality(Held)' = c
    BY <1>3, <2>1 DEF c
  <2>3. mem' \in Int /\ mem' >= c /\ failures' \in Nat /\ failures' # 0
    BY <1>1, <1>2, <2>1
  <2> QED
    BY <1>1, <2>1, <2>2, <2>3 DEF MemoryInv, MemoryAccounted
<1>5. CASE Realloc(b, n)
  <2>1. size' = [size EXCEPT ![b] = n] /\ failures' = failures /\ mem' = mem + n - size[b]
    BY <1>5 DEF Realloc, Charged
  <2>2. size' \in Sizes
    BY <1>1, <2>1 DEF Sizes
  <2>3. Cardinality(Held)' = c + n - size[b]
    BY <1>1, <1>3, <2>1, UnitsChange DEF c
  <2>4. mem' \in Int /\ IF failures = 0 THEN mem' = c + n - size[b] ELSE mem' >= c + n - size[b]
    BY <1>1, <1>2, <2>1
  <2> QED
    BY <1>1, <2>1, <2>2, <2>3, <2>4 DEF MemoryInv, MemoryAccounted
<1> QED
  BY <1>4, <1>5

\* A destroyed service has closed its Lua state; other services leave it alone.
LEMMA DestroyedCounts ==
    ASSUME MemoryInv, NEW c, Destroyed(c) \/ UNCHANGED <<mem, size, failures>>
    PROVE  MemoryInv'
<1>1. CASE UNCHANGED <<mem, size, failures>>
  BY <1>1 DEF MemoryInv, MemoryAccounted, Held
<1>2. CASE c = Metered /\ Destroyed(c)
  <2>1. mem' = 0 /\ size' = [b \in Blocks |-> 0] /\ failures' = 0
    BY <1>2 DEF Destroyed
  <2>2. size' \in Sizes
    BY <2>1, LuaServiceAssumption DEF Sizes
  <2>3. Cardinality(Units(size')) = 0
    BY <2>1, <2>2, UnitsFinite
  <2>4. Cardinality(Held)' = 0
    BY <2>3 DEF Held, Units
  <2> QED
    BY <2>1, <2>2, <2>4 DEF MemoryInv, MemoryAccounted
<1>3. CASE c # Metered /\ Destroyed(c)
  BY <1>1, <1>3 DEF Destroyed, memoryVars
<1> QED
  BY <1>1, <1>2, <1>3

\* mem is what the Lua state holds, or more where the system refused memory, never less
\* (lua_service::lalloc), whatever the sizes and the limit and whenever it is set.
THEOREM MemoryIsCounted == Spec => []MemoryAccounted
<1>1. Init => MemoryInv
  <2> SUFFICES ASSUME Init PROVE MemoryInv
    OBVIOUS
  <2>1. size = [b \in Blocks |-> 0] /\ mem = 0 /\ failures = 0
    BY DEF Init
  <2>2. size \in Sizes
    BY <2>1, LuaServiceAssumption DEF Sizes
  <2>3. Cardinality(Units(size)) = 0
    BY <2>1, <2>2, UnitsFinite
  <2> QED
    BY <2>1, <2>2, <2>3 DEF MemoryInv, MemoryAccounted, Held, Units
<1>2. MemoryInv /\ [Next]_vars => MemoryInv'
  <2> SUFFICES ASSUME MemoryInv, [Next]_vars PROVE MemoryInv'
    OBVIOUS
  <2>1. CASE UNCHANGED <<mem, size, failures>>
    BY <2>1, DestroyedCounts
  <2>2. ASSUME NEW w \in Workers, WorkerNext(w), ~UNCHANGED <<mem, size, failures>>
        PROVE  MemoryInv'
    <3>1. Fail(w) \/ Removed(w)
      BY <2>2 DEF WorkerNext, Thread, Refuse, Begin, ScriptFails, NameRefused, NameSet, NoName,
         Emplace, Finish, OtherTasks, InitFails, memoryVars
    <3> QED
      BY <3>1, DestroyedCounts DEF Fail, Removed
  <2>3. CASE Lalloc
    BY <2>1, <2>3, ReallocCounts DEF Lalloc, LimitRefuses, memoryVars
  <2>4. CASE Script \/ SetLimit \/ UNCHANGED vars \/ \E w \in Workers : StopWorker(w)
    BY <2>1, <2>4 DEF Script, NewService, RemoveService, SetLimit, StopWorker, vars, memoryVars
  <2> QED
    BY <2>1, <2>2, <2>3, <2>4 DEF Next
<1>3. MemoryInv => MemoryAccounted
  BY DEF MemoryInv
<1> QED
  BY <1>1, <1>2, <1>3, PTL DEF Spec
=============================================================================
