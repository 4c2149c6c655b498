------------------------------- MODULE Router -------------------------------
(***************************************************************************)
(* The router (core/router.cpp) as the lifecycle of services uses it: it   *)
(* chooses the worker of a new service and posts the add task, and posts   *)
(* the remove task of a service to the worker its id names.                *)
(*                                                                         *)
(* next_worker() reads the shared_ flags of the workers one after another  *)
(* without a lock.  Here the choice and the post are one step: a flag that *)
(* changes meanwhile changes which worker is chosen, and every worker can  *)
(* be chosen in some state anyway.                                         *)
(***************************************************************************)
EXTENDS Worker

VARIABLE next_workerid_     \* the round-robin counter

RouterInit == next_workerid_ = 0

workerid_valid(workerid) == workerid > 0 /\ workerid <= NW

\* The workers whose shared_ flag is set, in the order of workers_.
FreeWorkers == SelectSeq([i \in Workers |-> i], LAMBDA w : shared_[w])

\* next_worker(): round robin over the shared workers, or over all of them when no
\* worker is shared.
next_worker ==
    IF FreeWorkers # <<>>
    THEN FreeWorkers[(next_workerid_ % Len(FreeWorkers)) + 1]
    ELSE (next_workerid_ % NW) + 1

\* new_service() on a worker that was asked for: the worker is not shared any more.
NewServiceOn(workerid, task) ==
    /\ workerid_valid(workerid)
    /\ shared_' = [shared_ EXCEPT ![workerid] = FALSE]
    /\ Post(workerid, task)
    /\ UNCHANGED next_workerid_

\* new_service() anywhere: round robin.
NewServiceAnywhere(workerid, task) ==
    /\ ~workerid_valid(workerid)
    /\ next_workerid_' = next_workerid_ + 1
    /\ Post(next_worker, task)
    /\ UNCHANGED shared_

\* Leaves the worker's other state alone.
new_service(workerid, task) ==
    /\ NewServiceOn(workerid, task) \/ NewServiceAnywhere(workerid, task)
    /\ UNCHANGED <<worker_state, thread_, services_, count_, update_state_, uuid_, wpc,
                   adding, started, exiting, created>>

\* remove_service(): the worker is part of the service id; an id whose worker does
\* not exist is answered with an error and changes nothing.
remove_service(workerid, id) ==
    /\ IF workerid_valid(workerid) THEN Post(workerid, RemoveTask(id))
                                   ELSE UNCHANGED queue_
    /\ UNCHANGED <<worker_state, thread_, services_, count_, shared_, update_state_, uuid_,
                   wpc, adding, started, created, next_workerid_>>
=============================================================================
