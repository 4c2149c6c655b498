---------------------------- MODULE ConcurrentMap ----------------------------
(***************************************************************************)
(* One entry of the maps that the router shares between all threads        *)
(* (common/concurrent_map.hpp), under the read-write lock it is            *)
(* instantiated with (common/rwlock.hpp).  Every access to the two atomic  *)
(* variables of the lock is a step; so are the lookup, the beginning and   *)
(* the end of a change of the table, and who reads in between finds it     *)
(* torn, so that a broken lock shows.                                      *)
(*                                                                         *)
(* The lock's read-modify-write operations are taken to be sequentially    *)
(* consistent, as they are on the x86 the project builds for: a reader's   *)
(* fetch_add is ordered before its second load of write_.                  *)
(*                                                                         *)
(* Data abstracted: the value a thread tries to store is the thread.       *)
(***************************************************************************)
EXTENDS Integers, FiniteSets

CONSTANTS
    Threads,    \* the threads that use the map
    Nobody,     \* the entry does not exist
    Torn,       \* what a lookup finds while the table is being changed
    Pending     \* an operation that has not taken effect yet (see AtomicMap)

ASSUME ThreadsAssumption ==
    /\ IsFiniteSet(Threads)
    /\ Nobody \notin Threads
    /\ Torn \notin Threads \cup {Nobody}
    /\ Pending \notin Threads \cup {Nobody, Torn, "stored", "refused"}

VARIABLES
    read_,      \* the number of readers, those that are going to retreat included
    write_,     \* whether a writer has announced itself
    pc,         \* where each thread is
    op,         \* the operation each thread is in, or was in last
    found,      \* what a thread's lookup found
    data_,      \* the entry of the map
    torn        \* whether the table is being changed

vars == <<read_, write_, pc, op, found, data_, torn>>

Init ==
    /\ read_ = 0
    /\ write_ = FALSE
    /\ pc = [t \in Threads |-> "idle"]
    /\ op = [t \in Threads |-> "try_get_value"]
    /\ found = [t \in Threads |-> Nobody]
    /\ data_ = Nobody
    /\ torn = FALSE

\* What a lookup finds.
Looked == IF torn THEN Torn ELSE data_

Move(t, from, to) == pc[t] = from /\ pc' = [pc EXCEPT ![t] = to]

-----------------------------------------------------------------------------
(* lock_shared(), unlock_shared() *)

\* try_get_value() is called.
BeginGet(t) ==
    /\ Move(t, "idle", "r_spin")
    /\ op' = [op EXCEPT ![t] = "try_get_value"]
    /\ UNCHANGED <<read_, write_, found, data_, torn>>

\* Spin while write_ is set.
SeeNoWriter(t) ==
    /\ ~write_
    /\ Move(t, "r_spin", "r_add")
    /\ UNCHANGED <<read_, write_, op, found, data_, torn>>

\* Faulty variant: the reader does not look at write_ again.
CountReaderAndEnter(t) ==
    /\ Move(t, "r_add", "reading")
    /\ read_' = read_ + 1
    /\ UNCHANGED <<write_, op, found, data_, torn>>

CountReader(t) ==
    /\ Move(t, "r_add", "r_check")
    /\ read_' = read_ + 1
    /\ UNCHANGED <<write_, op, found, data_, torn>>

\* Faulty variant: a reader that meets a writer waits for it without retreating.
CheckWriterAndStay(t) ==
    /\ ~write_
    /\ Move(t, "r_check", "reading")
    /\ UNCHANGED <<read_, write_, op, found, data_, torn>>

\* The second look at write_: retreat, or enter.
CheckWriter(t) ==
    /\ Move(t, "r_check", IF write_ THEN "r_undo" ELSE "reading")
    /\ UNCHANGED <<read_, write_, op, found, data_, torn>>

Retreat(t) ==
    /\ Move(t, "r_undo", "r_spin")
    /\ read_' = read_ - 1
    /\ UNCHANGED <<write_, op, found, data_, torn>>

\* find() and the copy of the value.
Read(t) ==
    /\ Move(t, "reading", "r_unlock")
    /\ found' = [found EXCEPT ![t] = Looked]
    /\ UNCHANGED <<read_, write_, op, data_, torn>>

UnlockShared(t) ==
    /\ Move(t, "r_unlock", "idle")
    /\ read_' = read_ - 1
    /\ UNCHANGED <<write_, op, found, data_, torn>>

-----------------------------------------------------------------------------
(* lock(), unlock() *)

\* try_set() or set() is called.
BeginSet(t) ==
    /\ Move(t, "idle", "w_spin")
    /\ \E o \in {"try_set", "set"} : op' = [op EXCEPT ![t] = o]
    /\ UNCHANGED <<read_, write_, found, data_, torn>>

\* Faulty variant: write_ is loaded and stored, not exchanged.
TakeWriteAnyway(t) ==
    /\ Move(t, "w_spin", "w_drain")
    /\ write_' = TRUE
    /\ UNCHANGED <<read_, op, found, data_, torn>>

\* Spin until exchange(true) finds write_ clear.
TakeWrite(t) ==
    /\ ~write_
    /\ Move(t, "w_spin", "w_drain")
    /\ write_' = TRUE
    /\ UNCHANGED <<read_, op, found, data_, torn>>

\* Spin until the readers are gone.
WaitReaders(t) ==
    /\ read_ = 0
    /\ Move(t, "w_drain", "w_find")
    /\ UNCHANGED <<read_, write_, op, found, data_, torn>>

\* try_emplace: is the key there already?
Find(t) ==
    /\ Move(t, "w_find", "w_store")
    /\ found' = [found EXCEPT ![t] = Looked]
    /\ UNCHANGED <<read_, write_, op, data_, torn>>

\* Does the operation change the table: set() always, try_set() when there is no entry.
Changes(t) == op[t] = "set" \/ found[t] = Nobody

\* Begin to insert, or to overwrite, the entry.
Store(t) ==
    /\ Changes(t)
    /\ Move(t, "w_store", "w_commit")
    /\ data_' = t
    /\ torn' = TRUE
    /\ UNCHANGED <<read_, write_, op, found>>

\* try_set() leaves an entry alone.
Refuse(t) ==
    /\ ~Changes(t)
    /\ Move(t, "w_store", "w_unlock")
    /\ UNCHANGED <<read_, write_, op, found, data_, torn>>

\* The change is complete.
Commit(t) ==
    /\ Move(t, "w_commit", "w_unlock")
    /\ torn' = FALSE
    /\ UNCHANGED <<read_, write_, op, found, data_>>

Unlock(t) ==
    /\ Move(t, "w_unlock", "idle")
    /\ write_' = FALSE
    /\ UNCHANGED <<read_, op, found, data_, torn>>

-----------------------------------------------------------------------------

\* What a thread does inside an operation.
Step(t) ==
    \/ SeeNoWriter(t) \/ CountReader(t) \/ CheckWriter(t) \/ Retreat(t)
    \/ Read(t) \/ UnlockShared(t)
    \/ TakeWrite(t) \/ WaitReaders(t) \/ Find(t) \/ Store(t) \/ Refuse(t) \/ Commit(t)
    \/ Unlock(t)

Next == \E t \in Threads : BeginGet(t) \/ BeginSet(t) \/ Step(t)

SafeSpec == Init /\ [][Next]_vars

\* Every thread is scheduled; none has to call the map.
Spec == SafeSpec /\ \A t \in Threads : WF_vars(Step(t))

-----------------------------------------------------------------------------
(* Properties. *)

Counted == {t \in Threads : pc[t] \in {"r_check", "r_undo", "reading", "r_unlock"}}

Readers == {t \in Threads : pc[t] \in {"reading", "r_unlock"}}

Announced == {t \in Threads : pc[t] \in {"w_drain", "w_find", "w_store", "w_commit", "w_unlock"}}

Writers == {t \in Threads : pc[t] \in {"w_find", "w_store", "w_commit", "w_unlock"}}

\* Every variable has its type, and read_ counts the readers exactly: a retreat and an
\* unlock each take back one fetch_add.
TypeOK ==
    /\ read_ = Cardinality(Counted)
    /\ write_ \in BOOLEAN
    /\ pc \in [Threads -> {"idle", "r_spin", "r_add", "r_check", "r_undo", "reading",
                           "r_unlock", "w_spin", "w_drain", "w_find", "w_store",
                           "w_commit", "w_unlock"}]
    /\ op \in [Threads -> {"try_get_value", "try_set", "set"}]
    /\ found \in [Threads -> Threads \cup {Nobody, Torn}]
    /\ data_ \in Threads \cup {Nobody}
    /\ torn \in BOOLEAN

\* Inside the lock is one writer or any number of readers, never both.
MutualExclusion ==
    /\ \A t, u \in Writers : t = u
    /\ Writers # {} => Readers = {}

\* What the threads see of the map: the operation a thread is in, and its answer from
\* the step on in which it reads or begins to change the entry.
CallOf(t) == IF pc[t] = "idle" THEN "none" ELSE op[t]

AnswerOf(t) ==
    IF pc[t] = "r_unlock" THEN found[t]
    ELSE IF pc[t] \notin {"w_commit", "w_unlock"} THEN Pending
    ELSE IF Changes(t) THEN "stored" ELSE "refused"

Calls == [t \in Threads |-> CallOf(t)]
Answers == [t \in Threads |-> AnswerOf(t)]

AM == INSTANCE AtomicMap WITH entry <- data_, call <- Calls, answer <- Answers

\* The map behaves as if every call happened at one instant: nobody reads a table that
\* is being changed, of all the threads that try to set one name one is told that it
\* did, and set_unique_service may rely on it.
ImplementsAtomicMap == AM!Spec

\* A writer that has announced itself gets in, however many readers keep coming: they
\* retreat and wait for it.  (Readers have no such guarantee against writers.)
WriterGetsIn == \A t \in Threads : (pc[t] = "w_drain") ~> (pc[t] = "w_find")
=============================================================================
