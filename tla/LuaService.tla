----------------------------- MODULE LuaService -----------------------------
(***************************************************************************)
(* How a Lua service comes to be: the add_service task of Worker with the  *)
(* inside of lua_service::init (services/lua_service.cpp), the table of    *)
(* unique names in the router, the answer to the script that asked for the *)
(* service, and the allocator that counts the memory of its Lua state.     *)
(*                                                                         *)
(* Other threads see the middle of the task: the unique name is in the     *)
(* router's table before the service is in the worker's.  Setting a name   *)
(* is one step, as ConcurrentMap's refinement of AtomicMap allows.         *)
(*                                                                         *)
(* Data abstracted: configurations are reduced to the unique name asked    *)
(* for and whether file and script are good; memory is counted for one     *)
(* service, in small units.  What scripts do is not in src/: they ask for  *)
(* services, remove them and allocate memory whenever they run.            *)
(***************************************************************************)
EXTENDS Worker

CONSTANTS
    UniqueName,     \* the unique name each request for a service comes with
    NotUnique,      \* instead of a name: the service is not a unique one
    Metered,        \* the request whose service's memory is counted
    Limit,          \* its memlimit, 0 for none
    Blocks,         \* bound: the blocks of memory it uses
    MaxSize,        \* bound: how large a block is
    Stopped,        \* bound: the workers that are told to stop
    MaxRemoves,     \* bound: calls of remove_service
    MaxFailures     \* bound: reallocations that the system refuses

\* Requests are numbered, and a request is what Worker calls a configuration entry.
Requests == DOMAIN UniqueName

Names == {UniqueName[c] : c \in Requests} \ {NotUnique}

ASSUME LuaServiceAssumption ==
    /\ Requests \subseteq Nat \ {0}
    /\ IsFiniteSet(Requests)
    /\ IsFiniteSet(Blocks)
    /\ Stopped \subseteq Workers
    /\ Metered \in Requests
    /\ {Limit, MaxSize, MaxRemoves, MaxFailures} \subseteq Nat
    /\ Cardinality(Requests) * max_uuid < UintRange

VARIABLES
    asked,              \* the worker each request was put to, 0 before that
    named,              \* the worker has passed set_unique_service in this task
    unique_services_,   \* the router's table: the service id of a unique name
    owner,              \* history: the request that stored a name in the table
    place,              \* the request behind each service in the tables
    answers,            \* the answers sent to each request: a service id, or 0
    removes,            \* bound: calls of remove_service
    mem,                \* lua_service::mem of the metered service
    mem_limit,          \* its mem_limit
    size,               \* the size of each block its Lua state holds, 0 for no block
    failures            \* bound: reallocations that the system refused

memoryVars == <<mem, mem_limit, size, failures>>
nameVars == <<named, unique_services_, owner, place, answers>>
vars == <<server_state, workerVars, asked, nameVars, removes, memoryVars>>

Id(w, n) == <<w, n>>

NoId == <<0, 0>>

\* The server runs and so do its workers.
Init ==
    /\ server_state = "ready"
    /\ worker_state = [w \in Workers |-> "ready"]
    /\ thread_ = [w \in Workers |-> "looping"]
    /\ queue_ = [w \in Workers |-> <<>>]
    /\ services_ = [w \in Workers |-> {}]
    /\ count_ = [w \in Workers |-> 0]
    /\ shared_ = [w \in Workers |-> TRUE]
    /\ update_state_ = [w \in Workers |-> FALSE]
    /\ uuid_ = [w \in Workers |-> 0]
    /\ wpc = [w \in Workers |-> "loop"]
    /\ adding = [w \in Workers |-> NoService]
    /\ started = [w \in Workers |-> {}]
    /\ exiting = [w \in Workers |-> {}]
    /\ created = {}
    /\ asked = [c \in Requests |-> 0]
    /\ named = [w \in Workers |-> FALSE]
    /\ unique_services_ = [name \in Names |-> NoId]
    /\ owner = [name \in Names |-> 0]
    /\ place = [c \in Requests |-> NoId]
    /\ answers = [c \in Requests |-> <<>>]
    /\ removes = 0
    /\ mem = 0
    /\ mem_limit = 0
    /\ size = [b \in Blocks |-> 0]
    /\ failures = 0

-----------------------------------------------------------------------------
(* What scripts ask of the router. *)

\* new_service() on a worker that is asked for.  Requests are numbered in the order they
\* are made.
NewService(c, w) ==
    /\ asked[c] = 0
    /\ \A d \in Requests : d < c => asked[d] # 0
    /\ asked' = [asked EXCEPT ![c] = w]
    /\ shared_' = [shared_ EXCEPT ![w] = FALSE]
    /\ Post(w, AddTask(c, TRUE))
    /\ UNCHANGED <<server_state, worker_state, thread_, services_, count_, update_state_,
                   uuid_, wpc, adding, started, exiting, created, nameVars, removes,
                   memoryVars>>

\* remove_service() of a service that exists, and may be gone when its task is run.
RemoveService(w, n) ==
    /\ removes < MaxRemoves
    /\ n \in services_[w]
    /\ removes' = removes + 1
    /\ Post(w, RemoveTask(n))
    /\ UNCHANGED <<server_state, worker_state, thread_, services_, count_, shared_,
                   update_state_, uuid_, wpc, adding, started, exiting, created,
                   asked, nameVars, memoryVars>>

\* The server stops: once for each worker.
StopWorker(w) ==
    /\ w \in Stopped
    /\ worker_state[w] = "ready"
    /\ \A i \in DOMAIN queue_[w] : queue_[w][i].op # "stop"
    /\ Post(w, SimpleTask("stop"))
    /\ UNCHANGED <<server_state, worker_state, thread_, services_, count_, shared_,
                   update_state_, uuid_, wpc, adding, started, exiting, created,
                   asked, nameVars, removes, memoryVars>>

-----------------------------------------------------------------------------
(* add_service *)

\* The service of the request c is destroyed, and its Lua state closed.
Destroyed(c) ==
    IF c = Metered
    THEN mem' = 0 /\ mem_limit' = 0 /\ size' = [b \in Blocks |-> 0] /\ failures' = 0
    ELSE UNCHANGED memoryVars

Answer(c, a) == answers' = [answers EXCEPT ![c] = Append(@, a)]

\* The worker is not ready.
Refuse(w) ==
    /\ AddRefused(w)
    /\ Answer(Head(queue_[w]).arg, NoId)
    /\ UNCHANGED <<server_state, asked, named, unique_services_, owner, place, removes,
                   memoryVars>>

\* A number is drawn, and init begins.
Begin(w) ==
    /\ AddBegin(w)
    /\ UNCHANGED <<server_state, asked, nameVars, removes, memoryVars>>

\* init runs, and has not failed nor passed the question whether the service is unique.
InInit(w) == wpc[w] = "init" /\ adding[w].ok /\ ~named[w]

\* init is about to ask that question: it has set the limit of the memory, and its script
\* has succeeded.
AtName(w) ==
    /\ InInit(w)
    /\ adding[w].cfg = Metered => mem_limit = Limit

WorkerUnchanged == UNCHANGED <<server_state, worker_state, thread_, queue_, services_,
                               count_, shared_, update_state_, uuid_, wpc, started,
                               exiting, created>>

InitFails(w) ==
    /\ adding' = [adding EXCEPT ![w].ok = FALSE]
    /\ WorkerUnchanged
    /\ UNCHANGED <<asked, nameVars, removes, memoryVars>>

\* The type is not registered, or init finds the configuration, the file or the script
\* to be bad, or the unique name to be empty.
ScriptFails(w) == InInit(w) /\ InitFails(w)

NameAsked(w) == UniqueName[adding[w].cfg]

\* init, unique(): the name is taken, and init fails.
NameRefused(w) ==
    /\ AtName(w)
    /\ NameAsked(w) \in Names
    /\ unique_services_[NameAsked(w)] # NoId
    /\ InitFails(w)

\* Faulty variant: the name is set whether or not it is there.
NameSetAnyway(w) ==
    LET name == NameAsked(w)
    IN  /\ AtName(w)
        /\ name \in Names
        /\ unique_services_' = [unique_services_ EXCEPT ![name] = Id(w, adding[w].id)]
        /\ owner' = [owner EXCEPT ![name] = adding[w].cfg]
        /\ named' = [named EXCEPT ![w] = TRUE]
        /\ WorkerUnchanged
        /\ UNCHANGED <<adding, asked, place, answers, removes, memoryVars>>

\* Faulty variant: the name is set before the script has run, which may then fail.
NameSetEarly(w) ==
    LET name == NameAsked(w)
    IN  /\ wpc[w] = "init"
        /\ ~named[w]
        /\ name \in Names
        /\ unique_services_[name] = NoId
        /\ unique_services_' = [unique_services_ EXCEPT ![name] = Id(w, adding[w].id)]
        /\ owner' = [owner EXCEPT ![name] = adding[w].cfg]
        /\ named' = [named EXCEPT ![w] = TRUE]
        /\ WorkerUnchanged
        /\ UNCHANGED <<adding, asked, place, answers, removes, memoryVars>>

\* init, unique(): set_unique_service() stores the name.
NameSet(w) ==
    LET name == NameAsked(w)
    IN  /\ AtName(w)
        /\ name \in Names
        /\ unique_services_[name] = NoId
        /\ unique_services_' = [unique_services_ EXCEPT ![name] = Id(w, adding[w].id)]
        /\ owner' = [owner EXCEPT ![name] = adding[w].cfg]
        /\ named' = [named EXCEPT ![w] = TRUE]
        /\ WorkerUnchanged
        /\ UNCHANGED <<adding, asked, place, answers, removes, memoryVars>>

\* init of a service that is not unique.
NoName(w) ==
    /\ AtName(w)
    /\ NameAsked(w) = NotUnique
    /\ named' = [named EXCEPT ![w] = TRUE]
    /\ WorkerUnchanged
    /\ UNCHANGED <<adding, asked, unique_services_, owner, place, answers, removes,
                   memoryVars>>

\* Faulty variant: a failure is logged and not answered.
FailSilently(w) ==
    /\ AddFailed(w)
    /\ named[w] \/ ~adding[w].ok
    /\ Destroyed(adding[w].cfg)
    /\ named' = [named EXCEPT ![w] = FALSE]
    /\ UNCHANGED <<server_state, asked, unique_services_, owner, place, answers, removes>>

\* init failed: the type is not known, the configuration or the script is bad, the name
\* is taken; or emplace found the number in the table.  The answer is 0.
Fail(w) ==
    /\ AddFailed(w)
    /\ named[w] \/ ~adding[w].ok
    /\ Answer(adding[w].cfg, NoId)
    /\ Destroyed(adding[w].cfg)
    /\ named' = [named EXCEPT ![w] = FALSE]
    /\ UNCHANGED <<server_state, asked, unique_services_, owner, place, removes>>

\* emplace: the service is in the table.
Emplace(w) ==
    /\ named[w]
    /\ AddFinish(w)
    /\ named' = [named EXCEPT ![w] = FALSE]
    /\ place' = [place EXCEPT ![adding[w].cfg] = Id(w, adding[w].id)]
    /\ UNCHANGED <<server_state, asked, unique_services_, owner, answers, removes,
                   memoryVars>>

\* The service starts, and the answer is its id.
Finish(w) ==
    /\ AddStart(w)
    /\ Answer(adding[w].cfg, Id(w, adding[w].id))
    /\ UNCHANGED <<server_state, asked, named, unique_services_, owner, place, removes,
                   memoryVars>>

\* stop and remove_service, which leaves the table of names alone.
OtherTasks(w) ==
    /\ RunStopEmpty(w) \/ RunStop(w) \/ RemoveMissing(w)
    /\ UNCHANGED <<server_state, asked, nameVars, removes, memoryVars>>

Removed(w) ==
    /\ RemoveFound(w)
    /\ \E c \in Requests :
           /\ place[c] = Id(w, Head(queue_[w]).arg)
           /\ place' = [place EXCEPT ![c] = NoId]
           /\ Destroyed(c)
    /\ UNCHANGED <<server_state, asked, named, unique_services_, owner, answers, removes>>

\* The worker's thread ends.
Thread(w) ==
    /\ ThreadEnd(w)
    /\ UNCHANGED <<server_state, asked, nameVars, removes, memoryVars>>

-----------------------------------------------------------------------------
(* lalloc(), the allocator of the Lua state of the metered service. *)

\* Its Lua state runs: in init before the name is asked for, or in a callback.
LuaRuns ==
    \E w \in Workers :
        \/ adding[w].cfg = Metered /\ InInit(w)
        \/ place[Metered] # NoId /\ place[Metered][1] = w /\ wpc[w] = "loop"
           /\ thread_[w] = "looping"

LuaUnchanged ==
    UNCHANGED <<server_state, workerVars, asked, nameVars, removes>>

\* init sets the limit when the configuration is read, which is after the Lua state has
\* begun to allocate and before the script runs.
SetLimit ==
    /\ \E w \in Workers : adding[w].cfg = Metered /\ InInit(w)
    /\ mem_limit # Limit
    /\ mem_limit' = Limit
    /\ UNCHANGED <<mem, size, failures>>
    /\ LuaUnchanged

\* What mem becomes when the block b grows or shrinks to nsize.
Charged(b, nsize) == mem + nsize - size[b]

OverLimit(b, nsize) == mem_limit # 0 /\ Charged(b, nsize) > mem_limit

\* Faulty variant: a refused request is charged.
LimitRefusesCharged(b, nsize) ==
    /\ LuaRuns
    /\ OverLimit(b, nsize)
    /\ nsize > size[b]
    /\ mem' = Charged(b, nsize)
    /\ UNCHANGED <<mem_limit, size, failures>>
    /\ LuaUnchanged

\* A new or growing block that would pass the limit is refused and not charged.
LimitRefuses(b, nsize) ==
    /\ LuaRuns
    /\ OverLimit(b, nsize)
    /\ nsize > size[b]
    /\ UNCHANGED memoryVars
    /\ LuaUnchanged

\* The system has no more memory; what was charged stays charged.
SystemRefuses(b, nsize) ==
    /\ LuaRuns
    /\ failures < MaxFailures
    /\ nsize > size[b]
    /\ ~OverLimit(b, nsize)
    /\ failures' = failures + 1
    /\ mem' = Charged(b, nsize)
    /\ UNCHANGED <<mem_limit, size>>
    /\ LuaUnchanged

\* A block is allocated, grown, shrunk or, when nsize is 0, freed.
Realloc(b, nsize) ==
    /\ LuaRuns
    /\ nsize # size[b]
    /\ nsize < size[b] \/ ~OverLimit(b, nsize)
    /\ mem' = Charged(b, nsize)
    /\ size' = [size EXCEPT ![b] = nsize]
    /\ UNCHANGED <<mem_limit, failures>>
    /\ LuaUnchanged

Lalloc ==
    \E b \in Blocks, nsize \in 0..MaxSize :
        LimitRefuses(b, nsize) \/ SystemRefuses(b, nsize) \/ Realloc(b, nsize)

-----------------------------------------------------------------------------

Script ==
    \/ \E c \in Requests, w \in Workers : NewService(c, w)
    \/ \E w \in Workers, n \in Uuid : RemoveService(w, n)

WorkerNext(w) ==
    \/ Thread(w) \/ Refuse(w) \/ Begin(w) \/ ScriptFails(w) \/ NameRefused(w) \/ NameSet(w) \/ NoName(w)
    \/ Fail(w) \/ Emplace(w) \/ Finish(w) \/ OtherTasks(w) \/ Removed(w)

Next ==
    \/ Script
    \/ \E w \in Workers : StopWorker(w) \/ WorkerNext(w)
    \/ SetLimit
    \/ Lalloc

\* A worker's thread goes on whenever it can, init to its end included.
Fairness == WF_vars(SetLimit) /\ \A w \in Workers : WF_vars(WorkerNext(w))

Spec == Init /\ [][Next]_vars /\ Fairness

-----------------------------------------------------------------------------
(* Properties. *)

\* A unique name is never shared: of the requests that came with it, whatever workers
\* they went to and in whatever order their inits overlap, at most one has its service
\* in a table, even when a worker has run out of numbers.
OnePerName ==
    \A c, d \in Requests :
        /\ c # d
        /\ UniqueName[c] = UniqueName[d]
        /\ UniqueName[c] \in Names
        => place[c] = NoId \/ place[d] = NoId

\* Whoever is given an id by queryservice() reaches, once the worker is through with its
\* task, the service that stored the name, or nobody if that one was removed; never a
\* service that init or emplace refused, and never another one.  This ends when the
\* worker draws the number again: names are not taken back, numbers are.
NameLeadsHome ==
    \A name \in Names :
        LET id == unique_services_[name]
        IN  /\ id # NoId
            /\ wpc[id[1]] # "init"
            /\ uuid_[id[1]] < id[2] + max_uuid
            => /\ owner[name] \in created
               /\ \A c \in Requests : place[c] = id => c = owner[name]

\* Every new_service() with a session is answered exactly once, with the id of a service
\* that was created or with 0 for one that was not, whatever of the steps of add_service
\* failed; unless the worker exits, which drops the tasks it has left.
AddsAnswered ==
    \A c \in Requests :
        asked[c] # 0 ~>
            \/ Len(answers[c]) = 1 /\ (answers[c][1] # NoId <=> c \in created)
            \/ \E w \in Workers : w = asked[c] /\ worker_state[w] = "exited"

\* The units of memory the Lua state holds.
Held == {u \in Blocks \X (1..MaxSize) : u[2] <= size[u[1]]}

\* mem is what the Lua state holds, through refused requests and a limit that appears in
\* the middle; where the system refused memory it is more, never less, which would wrap
\* the size_t.
MemoryAccounted ==
    IF failures = 0 THEN mem = Cardinality(Held) ELSE mem >= Cardinality(Held)
=============================================================================
