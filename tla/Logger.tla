------------------------------- MODULE Logger -------------------------------
(***************************************************************************)
(* The logger (common/logger.hpp) with the blocking queue it is built on   *)
(* (common/concurrent_queue.hpp with BlockEmpty), the pool its buffers     *)
(* come from (common/object_pool.hpp) and the pool's lock                  *)
(* (common/spinlock.hpp): any thread takes a buffer, fills it and pushes   *)
(* it, one writer thread swaps the queue out and writes, and the owner of  *)
(* the logger constructs, initialises and closes it.                       *)
(*                                                                         *)
(* A buffer is shared by the queue and by the thread that pushed it; the   *)
(* last of its owners to let go releases it to the pool, so the writer and *)
(* the logging threads all release.  release() looks at the pool's size    *)
(* before it takes the lock.                                               *)
(*                                                                         *)
(* The writer thread is created by a member initialiser that comes before  *)
(* the pool's and the queue's, so it may run before they are constructed.  *)
(* The condition variable is modelled by whether the writer waits and has  *)
(* been notified; it may also wake up for no reason.                       *)
(*                                                                         *)
(* Data abstracted: a line is its thread and a number; formatting, levels, *)
(* the console and the file are left out.                                  *)
(***************************************************************************)
EXTENDS Integers, Sequences, FiniteSets

CONSTANTS
    Producers,      \* the threads that log
    Writer,         \* the logger's own thread
    Buffers,        \* the addresses a buffer can have
    PoolSize,       \* the pool's template argument (1000 in the code)
    MaxLines,       \* bound: lines each thread logs
    Nobody          \* who holds a free lock, and what an empty hand holds

ASSUME BoundsAssumption == MaxLines \in [Producers -> Nat] /\ PoolSize \in Nat \ {0}
ASSUME ThreadsAssumption ==
    /\ IsFiniteSet(Producers)
    /\ Writer \notin Producers
    /\ Nobody \notin Producers \cup {Writer}
ASSUME BuffersAssumption == Nobody \notin Buffers

Threads == Producers \cup {Writer}
Line == [from : Producers, n : Nat]

VARIABLES
    state_,         \* init, ready or exited
    container_,     \* the queue's container of buffers
    exit_,          \* the queue's exit flag
    notified,       \* the waiting writer has been notified
    opc,            \* where the owner is
    wpc,            \* where the writer is
    ppc,            \* where each logging thread is
    swaps,          \* the buffers the writer has swapped out
    logged,         \* bound: lines each thread has logged
    objects_,       \* the free buffers of the pool, the last one on top
    flag_,          \* who holds the pool's spin lock
    live,           \* the buffers that are allocated
    refs,           \* the use count of each shared buffer
    text,           \* the line in each shared buffer
    hand,           \* the buffer each thread is creating, pushing or releasing
    rel,            \* where each thread is in release()
    accepted,       \* history: all lines pushed, in order
    written,        \* history: all lines written, in order
    cutoff          \* history: how many lines were pushed before wait() began

queue == <<container_, exit_, notified>>
pool == <<objects_, flag_, live, refs, text, hand, rel>>
history == <<accepted, written, cutoff>>
vars == <<state_, queue, opc, wpc, ppc, swaps, logged, pool, history>>

Init ==
    /\ state_ = "init"
    /\ container_ = <<>>
    /\ exit_ = FALSE
    /\ notified = FALSE
    /\ opc = "construct"
    /\ wpc = "spin"
    /\ ppc = [t \in Producers |-> "idle"]
    /\ swaps = <<>>
    /\ logged = [t \in Producers |-> 0]
    /\ objects_ = <<>>
    /\ flag_ = Nobody
    /\ live = {}
    /\ refs = [b \in Buffers |-> 0]
    /\ text \in [Buffers -> {Nobody}]
    /\ hand = [t \in Threads |-> Nobody]
    /\ rel = [t \in Threads |-> "no"]
    /\ accepted = <<>>
    /\ written = <<>>
    /\ cutoff = 0

-----------------------------------------------------------------------------
(* The owner. *)

OwnerMoves(from, to) == opc = from /\ opc' = to

\* The constructor goes on after it has started the writer thread.
Construct ==
    /\ OwnerMoves("construct", "created")
    /\ UNCHANGED <<state_, queue, wpc, ppc, swaps, logged, pool, history>>

\* init()
InitLogger ==
    /\ OwnerMoves("created", "running")
    /\ state_' = "ready"
    /\ UNCHANGED <<queue, wpc, ppc, swaps, logged, pool, history>>

\* wait(): state_.store(exited); also of a logger that was never initialised.
WaitStore ==
    /\ OwnerMoves("created", "exiting") \/ OwnerMoves("running", "exiting")
    /\ state_' = "exited"
    /\ cutoff' = Len(accepted)
    /\ UNCHANGED <<queue, wpc, ppc, swaps, logged, pool, accepted, written>>

\* Faulty variant: the waiting writer is not notified.
WaitExitSilently ==
    /\ OwnerMoves("exiting", "joining")
    /\ exit_' = TRUE
    /\ UNCHANGED <<state_, container_, notified, wpc, ppc, swaps, logged, pool, history>>

\* wait(): log_queue_.exit(), under the queue's lock.
WaitExit ==
    /\ OwnerMoves("exiting", "joining")
    /\ exit_' = TRUE
    /\ notified' = (wpc = "waiting")
    /\ UNCHANGED <<state_, container_, wpc, ppc, swaps, logged, pool, history>>

\* wait(): thread_.join(), and close the file.
WaitJoin ==
    /\ OwnerMoves("joining", "closed")
    /\ wpc = "ended"
    /\ UNCHANGED <<state_, queue, wpc, ppc, swaps, logged, pool, history>>

Owner == Construct \/ InitLogger \/ WaitStore \/ WaitExit \/ WaitJoin

-----------------------------------------------------------------------------
(* The pool.  Each thread runs release() when it drops the last reference. *)

\* spin_lock::lock(): the flag was clear, and is set.
TakeLock(t) == flag_ = Nobody /\ flag_' = t

\* Faulty variant: every owner that lets go releases the buffer.
DropRefAlways(t, b) ==
    /\ refs' = [refs EXCEPT ![b] = @ - 1]
    /\ rel' = [rel EXCEPT ![t] = "test"]
    /\ hand' = [hand EXCEPT ![t] = b]
    /\ UNCHANGED text

\* Thread t lets go of one reference to b; who drops the last one releases it.
DropRef(t, b) ==
    /\ refs' = [refs EXCEPT ![b] = @ - 1]
    /\ IF refs[b] = 1
       THEN /\ rel' = [rel EXCEPT ![t] = "test"]
            /\ hand' = [hand EXCEPT ![t] = b]
            /\ text' = [text EXCEPT ![b] = Nobody]
       ELSE /\ hand' = [hand EXCEPT ![t] = Nobody]
            /\ UNCHANGED <<rel, text>>

\* Faulty variant: the size is never found to be at the limit.
SizeTestsNever(t) == {FALSE}

\* release(): what objects_.size() >= PoolSize can give.  It is read without the lock:
\* while another thread's push_back moves the vector it may give anything.  There is no
\* move any more once the pool is full, as the vector's capacity is then 1024.
SizeTests(t) ==
    IF Len(objects_) < PoolSize /\ (\E u \in Threads : rel[u] = "push")
    THEN BOOLEAN
    ELSE {Len(objects_) >= PoolSize}

ReleaseTest(t) ==
    /\ rel[t] = "test"
    /\ \E full \in SizeTests(t) :
        IF full
        THEN /\ live' = live \ {hand[t]}
             /\ hand' = [hand EXCEPT ![t] = Nobody]
             /\ rel' = [rel EXCEPT ![t] = "no"]
        ELSE /\ rel' = [rel EXCEPT ![t] = "lock"]
             /\ UNCHANGED <<live, hand>>
    /\ UNCHANGED <<state_, queue, opc, wpc, ppc, swaps, logged, objects_, flag_, refs,
                   text, history>>

ReleaseLock(t) ==
    /\ rel[t] = "lock"
    /\ TakeLock(t)
    /\ rel' = [rel EXCEPT ![t] = "push"]
    /\ UNCHANGED <<state_, queue, opc, wpc, ppc, swaps, logged, objects_, live, refs,
                   text, hand, history>>

\* release(): push_back, and the lock guard lets go.
ReleasePush(t) ==
    /\ rel[t] = "push"
    /\ objects_' = Append(objects_, hand[t])
    /\ flag_' = Nobody
    /\ hand' = [hand EXCEPT ![t] = Nobody]
    /\ rel' = [rel EXCEPT ![t] = "no"]
    /\ UNCHANGED <<state_, queue, opc, wpc, ppc, swaps, logged, live, refs, text,
                   history>>

Release(t) == ReleaseTest(t) \/ ReleaseLock(t) \/ ReleasePush(t)

-----------------------------------------------------------------------------
(* The threads that log: logstring(). *)

LogMoves(t, from, to) == ppc[t] = from /\ rel[t] = "no" /\ ppc' = [ppc EXCEPT ![t] = to]

NextLine(t) == [from |-> t, n |-> logged[t] + 1]

\* Faulty variant: the pool is read without its lock.
CreateUnlocked(t) ==
    /\ opc # "construct"
    /\ logged[t] < MaxLines[t]
    /\ LogMoves(t, "idle", "take")
    /\ hand' = [hand EXCEPT ![t] = IF objects_ = <<>> THEN Nobody ELSE objects_[Len(objects_)]]
    /\ UNCHANGED <<state_, queue, opc, wpc, swaps, logged, objects_, flag_, live, refs, text,
                   rel, history>>

\* buffer_cache_.create(): lock the pool and look at its top, if there is one.
CreateLock(t) ==
    /\ opc # "construct"
    /\ logged[t] < MaxLines[t]
    /\ LogMoves(t, "idle", "take")
    /\ TakeLock(t)
    /\ hand' = [hand EXCEPT ![t] = IF objects_ = <<>> THEN Nobody ELSE objects_[Len(objects_)]]
    /\ UNCHANGED <<state_, queue, opc, wpc, swaps, logged, objects_, live, refs, text, rel,
                   history>>

\* create(): pop the top and unlock; without one a new buffer is allocated.  Either way
\* it becomes a shared buffer, and the line is written into it.
CreatePop(t) ==
    LET fresh == CHOOSE b \in Buffers \ live : TRUE
        b == IF hand[t] = Nobody THEN fresh ELSE hand[t]
    IN  /\ hand[t] = Nobody => Buffers \ live # {}
        /\ LogMoves(t, "take", "push")
        /\ objects_' = IF hand[t] = Nobody THEN objects_
                       ELSE SubSeq(objects_, 1, Len(objects_) - 1)
        /\ flag_' = IF flag_ = t THEN Nobody ELSE flag_
        /\ hand' = [hand EXCEPT ![t] = b]
        /\ live' = live \cup {b}
        /\ refs' = [refs EXCEPT ![b] = 1]
        /\ text' = [text EXCEPT ![b] = NextLine(t)]
        /\ UNCHANGED <<state_, queue, opc, wpc, swaps, logged, rel, history>>

\* Faulty variant: the waiting writer is not notified.
LogSilently(t) ==
    /\ LogMoves(t, "push", "drop")
    /\ container_' = Append(container_, hand[t])
    /\ refs' = [refs EXCEPT ![hand[t]] = @ + 1]
    /\ logged' = [logged EXCEPT ![t] = @ + 1]
    /\ accepted' = Append(accepted, NextLine(t))
    /\ UNCHANGED <<state_, exit_, notified, opc, wpc, swaps, objects_, flag_, live,
                   text, hand, rel, written, cutoff>>

\* push_back of the shared pointer and notify_one, under the queue's lock.
Log(t) ==
    /\ LogMoves(t, "push", "drop")
    /\ container_' = Append(container_, hand[t])
    /\ refs' = [refs EXCEPT ![hand[t]] = @ + 1]
    /\ notified' = (notified \/ wpc = "waiting")
    /\ logged' = [logged EXCEPT ![t] = @ + 1]
    /\ accepted' = Append(accepted, NextLine(t))
    /\ UNCHANGED <<state_, exit_, opc, wpc, swaps, objects_, flag_, live, text, hand,
                   rel, written, cutoff>>

\* logstring() returns: its own pointer goes.
Leave(t) ==
    /\ LogMoves(t, "drop", "idle")
    /\ DropRef(t, hand[t])
    /\ UNCHANGED <<state_, queue, opc, wpc, swaps, logged, objects_, flag_, live, history>>

InLog(t) == CreatePop(t) \/ Log(t) \/ Leave(t)

-----------------------------------------------------------------------------
(* The writer. *)

Lines(bs) == [i \in DOMAIN bs |-> text[bs[i]]]

WriterMoves(from, to) == wpc = from /\ rel[Writer] = "no" /\ wpc' = to

\* Spin while state_ is init.
Spin ==
    /\ state_ # "init"
    /\ WriterMoves("spin", "test_state")
    /\ UNCHANGED <<state_, queue, opc, ppc, swaps, logged, pool, history>>

\* Faulty variant: the loop ends as soon as the logger has exited.
TestStateOnly ==
    /\ WriterMoves("test_state", IF state_ = "ready" THEN "clear" ELSE "unwind")
    /\ UNCHANGED <<state_, queue, opc, ppc, swaps, logged, pool, history>>

\* The first half of the condition of the loop: state_ is ready.
TestState ==
    /\ WriterMoves("test_state", IF state_ = "ready" THEN "clear" ELSE "test_size")
    /\ UNCHANGED <<state_, queue, opc, ppc, swaps, logged, pool, history>>

\* The second half: log_queue_.size() != 0, under the queue's lock.
TestSize ==
    /\ WriterMoves("test_size", IF container_ # <<>> THEN "clear" ELSE "unwind")
    /\ UNCHANGED <<state_, queue, opc, ppc, swaps, logged, pool, history>>

\* swaps.clear(), or the end of swaps when write() returns: drop the next buffer.
ClearOne ==
    /\ wpc \in {"clear", "unwind"}
    /\ swaps # <<>>
    /\ WriterMoves(wpc, wpc)
    /\ DropRef(Writer, Head(swaps))
    /\ swaps' = Tail(swaps)
    /\ UNCHANGED <<state_, queue, opc, ppc, logged, objects_, flag_, live, history>>

\* write() returns.
End ==
    /\ swaps = <<>>
    /\ WriterMoves("unwind", "ended")
    /\ UNCHANGED <<state_, queue, opc, ppc, swaps, logged, pool, history>>

\* swap(): there is nothing to take and no exit: release the lock and wait.
Wait ==
    /\ swaps = <<>>
    /\ container_ = <<>>
    /\ ~exit_
    /\ WriterMoves("clear", "waiting")
    /\ notified' = FALSE
    /\ UNCHANGED <<state_, container_, exit_, opc, ppc, swaps, logged, pool, history>>

\* swap(): woken up, test again under the lock.
Wake ==
    /\ notified
    /\ WriterMoves("waiting", "clear")
    /\ notified' = FALSE
    /\ UNCHANGED <<state_, container_, exit_, opc, ppc, swaps, logged, pool, history>>

WakeSpuriously ==
    /\ WriterMoves("waiting", "clear")
    /\ UNCHANGED <<state_, queue, opc, ppc, swaps, logged, pool, history>>

\* swap(): take everything there is.
Swap ==
    /\ swaps = <<>>
    /\ container_ # <<>> \/ exit_
    /\ WriterMoves("clear", "write")
    /\ swaps' = container_
    /\ container_' = <<>>
    /\ UNCHANGED <<state_, exit_, notified, opc, ppc, logged, pool, history>>

\* Write the lines in the swapped buffers and flush.
WriteAll ==
    /\ WriterMoves("write", "test_state")
    /\ written' = written \o Lines(swaps)
    /\ UNCHANGED <<state_, queue, opc, ppc, swaps, logged, pool, accepted, cutoff>>

WriterSteps ==
    \/ Spin \/ TestState \/ TestSize \/ ClearOne \/ End
    \/ Wait \/ Wake \/ Swap \/ WriteAll

-----------------------------------------------------------------------------

Next ==
    \/ Owner
    \/ \E t \in Producers : CreateLock(t) \/ InLog(t)
    \/ \E t \in Threads : Release(t)
    \/ WriterSteps
    \/ WakeSpuriously

SafeSpec == Init /\ [][Next]_vars

\* The writer thread is scheduled, a thread that has begun to log or to release goes on,
\* and so does a wait() that has begun.  Nothing makes the owner call init() or wait() or
\* a thread log, and the system owes no spurious wake-up.
Spec ==
    /\ SafeSpec
    /\ WF_vars(WriterSteps \/ Release(Writer))
    /\ \A t \in Producers : WF_vars(InLog(t) \/ Release(t))
    /\ WF_vars(WaitExit \/ WaitJoin)

-----------------------------------------------------------------------------
(* Properties. *)

\* Every variable has its type.
TypeOK ==
    /\ state_ \in {"init", "ready", "exited"}
    /\ container_ \in Seq(Buffers)
    /\ exit_ \in BOOLEAN
    /\ notified \in BOOLEAN
    /\ opc \in {"construct", "created", "running", "exiting", "joining", "closed"}
    /\ wpc \in {"spin", "test_state", "test_size", "clear", "waiting", "write", "unwind",
                "ended"}
    /\ ppc \in [Producers -> {"idle", "take", "push", "drop"}]
    /\ swaps \in Seq(Buffers)
    /\ logged \in [Producers -> Nat]
    /\ objects_ \in Seq(Buffers)
    /\ flag_ \in Threads \cup {Nobody}
    /\ live \subseteq Buffers
    /\ refs \in [Buffers -> 0..2]
    /\ text \in [Buffers -> Line \cup {Nobody}]
    /\ hand \in [Threads -> Buffers \cup {Nobody}]
    /\ rel \in [Threads -> {"no", "test", "lock", "push"}]
    /\ accepted \in Seq(Line)
    /\ written \in Seq(Line)
    /\ cutoff \in Nat

\* The lines the writer has swapped out and not yet written.
Unwritten == IF wpc = "write" THEN swaps ELSE <<>>

\* Every line pushed is written, about to be written, or queued, exactly once and in
\* the order in which the lines were pushed, and its buffer still holds it: a buffer is
\* not filled with another line before it is written.
InOrder == accepted = written \o Lines(Unwritten) \o Lines(container_)

\* How often a buffer is in the pool, how many pointers share it, and how many threads
\* are releasing it.
Pooled(b) == Cardinality({i \in DOMAIN objects_ : objects_[i] = b})
Referring(b) ==
      Cardinality({i \in DOMAIN container_ : container_[i] = b})
    + Cardinality({i \in DOMAIN swaps : swaps[i] = b})
    + Cardinality({t \in Producers : ppc[t] \in {"push", "drop"} /\ rel[t] = "no" /\ hand[t] = b})
Handling(b) ==
    Cardinality({t \in Threads : hand[t] = b /\ rel[t] # "no"})

\* An allocated buffer is shared, or free in the pool, or on its way from the one to the
\* other in the hands of one thread: never two of these, so that no thread can write into
\* a buffer another still uses, and never none, which would be a leak.  A buffer that is
\* not allocated is nowhere.
OneOwner ==
    \A b \in Buffers :
        /\ Referring(b) = refs[b]
        /\ Pooled(b) + Handling(b) + (IF refs[b] > 0 THEN 1 ELSE 0)
             = (IF b \in live THEN 1 ELSE 0)

\* The pool outgrows its limit by less than the number of threads that release to it,
\* although its size is tested without the lock.
PoolBounded == Len(objects_) < PoolSize + Cardinality(Threads)

\* When wait() returns, every line logged before it was called has been written.
FlushedWhenClosed == opc = "closed" => Len(written) >= cutoff

\* wait() returns, however the exit races with the writer going to sleep and with the
\* threads that hold the pool's lock.
WaitReturns == (opc = "exiting") ~> (opc = "closed")

\* No line is left in the queue of a running logger: once the threads pause, which they
\* do as the lines are bounded, all that was pushed gets written, unless the logger is
\* closed before (then FlushedWhenClosed says what has been written).
LinesGetWritten ==
    (state_ = "ready" /\ written # accepted) ~> (written = accepted \/ opc = "closed")
=============================================================================
