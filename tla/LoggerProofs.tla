----------------------------- MODULE LoggerProofs -----------------------------
(***************************************************************************)
(* Proofs about Logger, for any threads, buffers, lines and size of the    *)
(* pool.  There are two inductive invariants.                              *)
(*                                                                         *)
(* IInv is about the size of the pool.  release() tests it before it takes *)
(* the lock, so that threads which have passed the test may all push.  The *)
(* pool and these threads together are never more than PoolSize - 1 and    *)
(* one for each thread, because who passes the test sees a pool below the  *)
(* limit and was not one of them before (PassedBounded).                   *)
(*                                                                         *)
(* LInv is about the buffers and the lines in them.  It says where the     *)
(* buffers are with sets, so that a step is known by the one buffer it     *)
(* moves: no place holds a buffer twice (Distinct), the places are         *)
(* disjoint and make up what is allocated (Exclusive), and the use counts  *)
(* say which are shared by two (Counted).  The counting that OneOwner does *)
(* follows.  A line is safe while its buffer is queued: who fills a buffer *)
(* has it from the pool, and who clears one drops its last pointer.        *)
(***************************************************************************)
EXTENDS Logger, SequenceTheorems, FiniteSetTheorems, TLAPS

\* The threads that have passed the test and not pushed yet.
Passed == {t \in Threads : rel[t] \in {"lock", "push"}}

\* The types of the pool.
PoolType ==
    /\ objects_ \in Seq(Buffers \cup {Nobody})
    /\ hand \in [Threads -> Buffers \cup {Nobody}]
    /\ rel \in [Threads -> {"no", "test", "lock", "push"}]

\* The buffers that the queues hold, which come back to a hand.
QueueType == container_ \in Seq(Buffers \cup {Nobody}) /\ swaps \in Seq(Buffers \cup {Nobody})

PassedBounded == Len(objects_) + Cardinality(Passed) < PoolSize + Cardinality(Threads)

IInv == PoolType /\ QueueType /\ PassedBounded

\* There are finitely many threads, and no more have passed the test.
LEMMA PassedFinite ==
    ASSUME NEW S \in SUBSET Threads
    PROVE  /\ IsFiniteSet(Threads) /\ IsFiniteSet(S)
           /\ Cardinality(Threads) \in Nat /\ Cardinality(S) \in Nat
           /\ Cardinality(S) <= Cardinality(Threads)
<1>1. IsFiniteSet(Threads)
  BY ThreadsAssumption, FS_AddElement DEF Threads
<1> QED
  BY <1>1, FS_Subset, FS_CardinalityType

\* Steps that leave the pool no larger and no more threads past the test.
LEMMA PassedStep ==
    ASSUME IInv, PoolType', QueueType', Passed' \subseteq Passed, Len(objects_') <= Len(objects_)
    PROVE  IInv'
<1>1. Passed \in SUBSET Threads /\ Passed' \in SUBSET Passed
  BY DEF Passed
<1>2. /\ IsFiniteSet(Passed)
      /\ Cardinality(Passed) \in Nat
      /\ Cardinality(Threads) \in Nat
  BY <1>1, PassedFinite
<1>3. Cardinality(Passed') \in Nat /\ Cardinality(Passed') <= Cardinality(Passed)
  BY <1>1, <1>2, FS_Subset, FS_CardinalityType
<1>4. Len(objects_) \in Nat /\ Len(objects_') \in Nat /\ PoolSize \in Nat
  BY LenProperties, BoundsAssumption DEF IInv, PoolType
<1> QED
  BY <1>2, <1>3, <1>4 DEF IInv, PassedBounded

\* A thread lets go of a reference.
LEMMA DropRefStep ==
    ASSUME IInv, NEW t \in Threads, NEW b \in Buffers \cup {Nobody}, DropRef(t, b),
           rel[t] = "no", QueueType', UNCHANGED objects_
    PROVE  IInv'
<1>1. PoolType' /\ Passed' \subseteq Passed
  BY DEF DropRef, IInv, PoolType, Passed
<1> QED
  BY <1>1, PassedStep, LenProperties DEF IInv, PoolType

LEMMA ReleaseTestStep ==
    ASSUME IInv, NEW t \in Threads, ReleaseTest(t)
    PROVE  IInv'
<1>1. rel[t] = "test" /\ UNCHANGED <<objects_, container_, swaps>>
  BY DEF ReleaseTest, queue
<1>2. PICK full \in SizeTests(t) :
          IF full
          THEN /\ hand' = [hand EXCEPT ![t] = Nobody]
               /\ rel' = [rel EXCEPT ![t] = "no"]
          ELSE /\ rel' = [rel EXCEPT ![t] = "lock"]
               /\ UNCHANGED hand
  BY DEF ReleaseTest
<1>3. PoolType' /\ QueueType'
  BY <1>1, <1>2 DEF IInv, PoolType, QueueType
<1>4. CASE full
  <2>1. Passed' \subseteq Passed
    BY <1>2, <1>4 DEF Passed, IInv, PoolType
  <2> QED
    BY <1>1, <1>3, <2>1, PassedStep, LenProperties DEF IInv, PoolType
<1>5. CASE ~full
  <2>1. Len(objects_) < PoolSize
    <3>1. Len(objects_) \in Nat /\ PoolSize \in Nat
      BY LenProperties, BoundsAssumption DEF IInv, PoolType
    <3>2. SUFFICES ASSUME ~(Len(objects_) < PoolSize) PROVE FALSE
      BY <3>1
    <3>3. (Len(objects_) >= PoolSize) = TRUE
      BY <3>1, <3>2
    <3>4. SizeTests(t) = {Len(objects_) >= PoolSize}
      BY <3>2, Zenon DEF SizeTests
    <3>5. full = (Len(objects_) >= PoolSize)
      BY <3>4, Zenon
    <3> QED
      BY <1>5, <3>3, <3>5, Zenon
  <2>2. Passed' \in SUBSET Threads
    BY DEF Passed
  <2>3. Cardinality(Passed') \in Nat /\ Cardinality(Passed') <= Cardinality(Threads)
        /\ Cardinality(Threads) \in Nat
    BY <2>2, PassedFinite
  <2>4. Len(objects_) \in Nat /\ PoolSize \in Nat /\ Len(objects_') = Len(objects_)
    BY <1>1, LenProperties, BoundsAssumption DEF IInv, PoolType
  <2>5. PassedBounded'
    BY <2>1, <2>3, <2>4 DEF PassedBounded
  <2> QED
    BY <1>3, <2>5 DEF IInv
<1> QED
  BY <1>4, <1>5

LEMMA ReleaseLockStep ==
    ASSUME IInv, NEW t \in Threads, ReleaseLock(t)
    PROVE  IInv'
<1>1. PoolType' /\ QueueType' /\ Passed' = Passed /\ objects_' = objects_
  BY DEF ReleaseLock, queue, IInv, PoolType, QueueType, Passed
<1> QED
  BY <1>1, PassedStep, LenProperties DEF IInv, PoolType

LEMMA ReleasePushStep ==
    ASSUME IInv, NEW t \in Threads, ReleasePush(t)
    PROVE  IInv'
<1>1. /\ rel[t] = "push"
      /\ objects_' = Append(objects_, hand[t])
      /\ hand' = [hand EXCEPT ![t] = Nobody]
      /\ rel' = [rel EXCEPT ![t] = "no"]
      /\ UNCHANGED <<container_, swaps>>
  BY DEF ReleasePush, queue
<1>2. Len(objects_) \in Nat /\ Len(objects_') = Len(objects_) + 1 /\ PoolSize \in Nat
  BY <1>1, LenProperties, AppendProperties, BoundsAssumption DEF IInv, PoolType
<1>3. PoolType' /\ QueueType'
  BY <1>1, AppendProperties DEF IInv, PoolType, QueueType
<1>4. t \in Passed /\ Passed' = Passed \ {t} /\ Passed \in SUBSET Threads
  BY <1>1 DEF Passed, IInv, PoolType
<1>5. /\ IsFiniteSet(Passed) /\ Cardinality(Passed) \in Nat
      /\ Cardinality(Threads) \in Nat
  BY <1>4, PassedFinite
<1>6. Cardinality(Passed') = Cardinality(Passed) - 1
  BY <1>4, <1>5, FS_RemoveElement
<1>7. PassedBounded'
  BY <1>2, <1>5, <1>6 DEF IInv, PassedBounded
<1> QED
  BY <1>3, <1>7 DEF IInv

\* A thread that logs takes a buffer from the pool and puts it into the queue.
LEMMA LogStep ==
    ASSUME IInv, NEW t \in Producers, CreateLock(t) \/ CreatePop(t) \/ Log(t)
    PROVE  IInv'
<1> t \in Threads
  BY DEF Threads
<1>1. \A i \in 1..Len(objects_) : objects_[i] \in Buffers \cup {Nobody}
  BY LenProperties DEF IInv, PoolType
<1>2. CASE CreateLock(t)
  <2>1. objects_ # <<>> => objects_[Len(objects_)] \in Buffers \cup {Nobody}
    BY <1>1, LenProperties, EmptySeq DEF IInv, PoolType
  <2>2. PoolType' /\ QueueType' /\ Passed' = Passed /\ objects_' = objects_
    BY <1>2, <2>1 DEF CreateLock, queue, IInv, PoolType, QueueType, Passed
  <2> QED
    BY <2>2, PassedStep, LenProperties DEF IInv, PoolType
<1>3. CASE CreatePop(t)
  <2> DEFINE fresh == CHOOSE b \in Buffers \ live : TRUE
             b == IF hand[t] = Nobody THEN fresh ELSE hand[t]
  <2>1. b \in Buffers \cup {Nobody}
    BY <1>3 DEF CreatePop, IInv, PoolType
  <2>2. /\ objects_' = objects_ \/ objects_' = SubSeq(objects_, 1, Len(objects_) - 1)
        /\ hand' = [hand EXCEPT ![t] = b]
        /\ UNCHANGED <<rel, container_, swaps>>
    BY <1>3 DEF CreatePop, queue
  <2> HIDE DEF b
  <2>3. /\ objects_' \in Seq(Buffers \cup {Nobody})
        /\ Len(objects_') <= Len(objects_)
    <3>1. objects_ \in Seq(Buffers \cup {Nobody}) /\ Len(objects_) \in Nat
      BY LenProperties DEF IInv, PoolType
    <3> DEFINE n == Len(objects_) - 1
    <3>2. n \in Int /\ \A i \in 1..n : objects_[i] \in Buffers \cup {Nobody}
      BY <1>1, <3>1
    <3>3. /\ SubSeq(objects_, 1, n) \in Seq(Buffers \cup {Nobody})
          /\ Len(SubSeq(objects_, 1, n)) = IF 1 <= n THEN n - 1 + 1 ELSE 0
      <4> HIDE DEF n
      <4> QED
        BY <3>2, SubSeqProperties
    <3> QED
      BY <2>2, <3>1, <3>3
  <2>4. PoolType' /\ QueueType' /\ Passed' = Passed
    BY <2>1, <2>2, <2>3 DEF IInv, PoolType, QueueType, Passed
  <2> QED
    BY <2>3, <2>4, PassedStep
<1>4. CASE Log(t)
  <2>1. hand[t] \in Buffers \cup {Nobody}
    BY DEF IInv, PoolType
  <2>2. QueueType'
    BY <1>4, <2>1, AppendProperties DEF Log, IInv, QueueType
  <2>3. PoolType' /\ Passed' = Passed /\ objects_' = objects_
    BY <1>4 DEF Log, IInv, PoolType, Passed
  <2> QED
    BY <2>2, <2>3, PassedStep, LenProperties DEF IInv, PoolType
<1> QED
  BY <1>2, <1>3, <1>4

LEMMA LeaveStep ==
    ASSUME IInv, NEW t \in Producers, Leave(t)
    PROVE  IInv'
<1>1. hand[t] \in Buffers \cup {Nobody} /\ t \in Threads
  BY DEF IInv, PoolType, Threads
<1> QED
  BY <1>1, DropRefStep DEF Leave, LogMoves, queue, IInv, QueueType

\* The writer.
LEMMA WriterStep ==
    ASSUME IInv, WriterSteps \/ WakeSpuriously
    PROVE  IInv'
<1>1. CASE ClearOne
  <2>1. Head(swaps) \in Buffers \cup {Nobody} /\ Tail(swaps) \in Seq(Buffers \cup {Nobody})
    BY <1>1, HeadTailProperties DEF ClearOne, IInv, QueueType
  <2>2. QueueType'
    BY <1>1, <2>1 DEF ClearOne, queue, IInv, QueueType
  <2> QED
    BY <1>1, <2>1, <2>2, DropRefStep DEF ClearOne, WriterMoves, Threads
<1>2. CASE Spin \/ TestState \/ TestSize \/ End \/ Wait \/ Wake \/ Swap \/ WriteAll
           \/ WakeSpuriously
  <2>1. QueueType'
    BY <1>2, EmptySeq DEF Spin, TestState, TestSize, End, Wait, Wake, Swap, WriteAll,
       WakeSpuriously, queue, IInv, QueueType
  <2>2. UNCHANGED <<objects_, hand, rel>>
    BY <1>2 DEF Spin, TestState, TestSize, End, Wait, Wake, Swap, WriteAll,
       WakeSpuriously, pool
  <2>3. PoolType' /\ Passed' = Passed
    BY <2>2 DEF IInv, PoolType, Passed
  <2> QED
    BY <2>1, <2>2, <2>3, PassedStep, LenProperties DEF IInv, PoolType
<1> QED
  BY <1>1, <1>2 DEF WriterSteps

LEMMA OwnerStep ==
    ASSUME IInv, Owner
    PROVE  IInv'
<1>1. UNCHANGED <<objects_, hand, rel, container_, swaps>>
  BY DEF Owner, Construct, InitLogger, WaitStore, WaitExit, WaitJoin, queue, pool
<1> QED
  BY <1>1 DEF IInv, PoolType, QueueType, PassedBounded, Passed

\* The invariant holds at first and is kept.
LEMMA Invariance == SafeSpec => []IInv
<1>1. Init => IInv
  <2> SUFFICES ASSUME Init PROVE IInv
    OBVIOUS
  <2>1. PoolType /\ QueueType
    BY EmptySeq DEF Init, PoolType, QueueType
  <2>2. Passed = {} /\ Len(objects_) = 0
    BY EmptySeq DEF Init, Passed
  <2>3. Cardinality(Passed) = 0 /\ Cardinality(Threads) \in Nat
    BY <2>2, FS_EmptySet, PassedFinite
  <2>4. PassedBounded
    BY <2>2, <2>3, BoundsAssumption DEF PassedBounded
  <2> QED
    BY <2>1, <2>4 DEF IInv
<1>2. IInv /\ [Next]_vars => IInv'
  <2> SUFFICES ASSUME IInv, [Next]_vars PROVE IInv'
    OBVIOUS
  <2>1. CASE Next
    <3>1. ASSUME NEW t \in Producers, CreateLock(t) \/ InLog(t)
          PROVE  IInv'
      BY <3>1, LogStep, LeaveStep DEF InLog
    <3>2. ASSUME NEW t \in Threads, Release(t)
          PROVE  IInv'
      BY <3>2, ReleaseTestStep, ReleaseLockStep, ReleasePushStep DEF Release
    <3> QED
      BY <2>1, <3>1, <3>2, OwnerStep, WriterStep DEF Next
  <2>2. CASE UNCHANGED vars
    BY <2>2 DEF vars, pool, queue, IInv, PoolType, QueueType, PassedBounded, Passed
  <2> QED
    BY <2>1, <2>2
<1> QED
  BY <1>1, <1>2, PTL DEF SafeSpec

\* The pool outgrows its limit by less than the number of threads, whatever they see of
\* its size without the lock (object_pool::release).
THEOREM PoolStaysBounded == Spec => []PoolBounded
<1>1. IInv => PoolBounded
  <2> SUFFICES ASSUME IInv PROVE PoolBounded
    OBVIOUS
  <2>1. Passed \in SUBSET Threads
    BY DEF Passed
  <2>2. Cardinality(Passed) \in Nat /\ Cardinality(Threads) \in Nat
    BY <2>1, PassedFinite
  <2>3. Len(objects_) \in Nat /\ PoolSize \in Nat
    BY LenProperties, BoundsAssumption DEF IInv, PoolType
  <2> QED
    BY <2>2, <2>3 DEF IInv, PassedBounded, PoolBounded
<1> QED
  BY <1>1, Invariance, PTL DEF Spec

-----------------------------------------------------------------------------
(* Who owns the buffers. *)

\* The buffers in the queue or swapped out of it, those a thread that logs still has a
\* pointer to, the free ones, and those on their way back to the pool.
Queued == Range(container_) \cup Range(swaps)
Holders == {t \in Producers : ppc[t] \in {"push", "drop"} /\ rel[t] = "no"}
Held == {hand[t] : t \in Holders}
Free == Range(objects_)
Releasers == {t \in Threads : rel[t] # "no"}
Released == {hand[t] : t \in Releasers}

\* The types of what the ownership is about.
OwnType ==
    /\ container_ \in Seq(Buffers) /\ swaps \in Seq(Buffers) /\ objects_ \in Seq(Buffers)
    /\ ppc \in [Producers -> {"idle", "take", "push", "drop"}]
    /\ hand \in [Threads -> Buffers \cup {Nobody}]
    /\ rel \in [Threads -> {"no", "test", "lock", "push"}]
    /\ refs \in [Buffers -> Int]
    /\ live \subseteq Buffers

\* What is in a thread's hand: a buffer while the thread pushes or releases it, the
\* top of the pool, if any, while it holds the pool's lock to take it.
Hands ==
    /\ \A t \in Threads : rel[t] # "no" => hand[t] \in Buffers
    /\ \A t \in Producers :
        /\ rel[t] # "no" => ppc[t] = "idle"
        /\ ppc[t] \in {"push", "drop"} => hand[t] \in Buffers
        /\ ppc[t] = "push" => hand[t] \notin Queued
        /\ ppc[t] = "take" =>
            hand[t] = IF objects_ = <<>> THEN Nobody ELSE objects_[Len(objects_)]

\* Who reads the pool or pushes to it holds its lock.
Locked ==
    /\ \A t \in Producers : ppc[t] = "take" => flag_ = t
    /\ \A t \in Threads : rel[t] = "push" => flag_ = t

\* No buffer is twice in the same place, and none in the queue and in swaps.
Distinct ==
    /\ IsInjective(container_) /\ IsInjective(swaps) /\ IsInjective(objects_)
    /\ Range(container_) \cap Range(swaps) = {}
    /\ \A t, u \in Holders : hand[t] = hand[u] => t = u
    /\ \A t, u \in Releasers : hand[t] = hand[u] => t = u

\* The use count counts the queue's pointer and that of the thread that logs.
Counted ==
    \A b \in Buffers :
        refs[b] = (IF b \in Queued THEN 1 ELSE 0) + (IF b \in Held THEN 1 ELSE 0)

\* Each allocated buffer is shared, free or being released, and never two of these.
Exclusive ==
    /\ live = Queued \cup Held \cup Free \cup Released
    /\ (Queued \cup Held) \cap Free = {}
    /\ (Queued \cup Held) \cap Released = {}
    /\ Free \cap Released = {}

Owned == OwnType /\ Hands /\ Locked /\ Distinct /\ Counted /\ Exclusive

Owns == <<container_, swaps, ppc, objects_, flag_, live, refs, hand, rel>>

\* What appending to a sequence, dropping its head and dropping its last element do to
\* its elements.
LEMMA AppendRange ==
    ASSUME NEW S, NEW s \in Seq(S), NEW e \in S
    PROVE  /\ Range(Append(s, e)) = Range(s) \cup {e}
           /\ IsInjective(s) /\ e \notin Range(s) => IsInjective(Append(s, e))
<1> DEFINE a == Append(s, e)
<1>1. /\ a \in Seq(S) /\ Len(a) = Len(s) + 1 /\ a[Len(s) + 1] = e
      /\ \A i \in 1..Len(s) : a[i] = s[i]
  BY AppendProperties
<1>2. Len(s) \in Nat /\ DOMAIN s = 1..Len(s) /\ DOMAIN a = 1..Len(s) + 1
  BY <1>1, LenProperties
<1> HIDE DEF a
<1>3. Range(a) = Range(s) \cup {e}
  BY <1>1, <1>2 DEF Range
<1>4. ASSUME IsInjective(s), e \notin Range(s), NEW i \in DOMAIN a, NEW j \in DOMAIN a, a[i] = a[j]
      PROVE  i = j
  BY <1>1, <1>2, <1>4 DEF IsInjective, Range
<1> QED
  BY <1>3, <1>4 DEF IsInjective, a

LEMMA TailRange ==
    ASSUME NEW S, NEW s \in Seq(S), s # <<>>
    PROVE  /\ Head(s) \in Range(s)
           /\ Range(Tail(s)) \subseteq Range(s)
           /\ IsInjective(s) => /\ Range(Tail(s)) = Range(s) \ {Head(s)}
                                /\ IsInjective(Tail(s))
<1> DEFINE r == Tail(s)
<1>1. /\ r \in Seq(S) /\ Len(r) = Len(s) - 1
      /\ \A i \in 1..Len(r) : r[i] = s[i + 1]
  BY HeadTailProperties
<1>2. Len(s) \in Nat \ {0} /\ DOMAIN s = 1..Len(s) /\ DOMAIN r = 1..Len(s) - 1 /\ Head(s) = s[1]
  BY <1>1, LenProperties, EmptySeq
<1> HIDE DEF r
<1>3. Head(s) \in Range(s) /\ Range(r) \subseteq Range(s)
  BY <1>1, <1>2 DEF Range
<1>4. ASSUME IsInjective(s)
      PROVE  Range(r) = Range(s) \ {Head(s)} /\ IsInjective(r)
  <2>1. ASSUME NEW i \in DOMAIN r, NEW j \in DOMAIN r, r[i] = r[j]
        PROVE  i = j
    <3>1. i \in 1..Len(s) - 1 /\ j \in 1..Len(s) - 1 /\ s[i + 1] = s[j + 1]
      BY <1>1, <1>2, <2>1
    <3>2. i + 1 = j + 1
      BY <1>2, <1>4, <3>1 DEF IsInjective
    <3> QED
      BY <3>1, <3>2
  <2>2. Head(s) \notin Range(r)
    BY SMTT(20), ZenonT(60), <1>1, <1>2, <1>4 DEF IsInjective, Range
  <2>3. ASSUME NEW x \in Range(s), x # Head(s)
        PROVE  x \in Range(r)
    <3>1. PICK i \in 1..Len(s) : s[i] = x
      BY <1>2 DEF Range
    <3>2. i - 1 \in 1..Len(s) - 1 /\ r[i - 1] = x
      BY <1>1, <1>2, <2>3, <3>1
    <3> QED
      BY <1>2, <3>2 DEF Range
  <2> QED
    BY <1>3, <2>1, <2>2, <2>3 DEF IsInjective
<1> QED
  BY <1>3, <1>4 DEF r

LEMMA FrontRange ==
    ASSUME NEW S, NEW s \in Seq(S), s # <<>>, IsInjective(s)
    PROVE  /\ SubSeq(s, 1, Len(s) - 1) \in Seq(S)
           /\ s[Len(s)] \in Range(s)
           /\ Range(SubSeq(s, 1, Len(s) - 1)) = Range(s) \ {s[Len(s)]}
           /\ IsInjective(SubSeq(s, 1, Len(s) - 1))
<1> DEFINE n == Len(s) - 1
           f == SubSeq(s, 1, n)
<1>1. n \in Nat /\ Len(s) = n + 1 /\ DOMAIN s = 1..n + 1 /\ \A i \in 1..n + 1 : s[i] \in S
  BY LenProperties, EmptySeq
<1>2. /\ f \in Seq(S)
      /\ Len(f) = IF 1 <= n THEN n - 1 + 1 ELSE 0
      /\ \A i \in 1..n - 1 + 1 : f[i] = s[1 + i - 1]
  <2>1. n \in Int /\ \A i \in 1..n : s[i] \in S
    BY <1>1
  <2> HIDE DEF n
  <2> QED
    BY <2>1, SubSeqProperties
<1>3. Len(f) = n /\ DOMAIN f = 1..n /\ \A i \in 1..n : f[i] = s[i]
  <2>1. Len(f) = n /\ DOMAIN f = 1..Len(f)
    BY <1>1, <1>2, LenProperties
  <2> HIDE DEF n, f
  <2> QED
    BY <1>1, <1>2, <2>1
<1> HIDE DEF n, f
<1>4. IsInjective(f) /\ Range(f) = Range(s) \ {s[n + 1]} /\ s[n + 1] \in Range(s)
  BY <1>1, <1>3 DEF IsInjective, Range
<1> QED
  BY <1>1, <1>2, <1>4 DEF n, f

\* Steps that leave all of this alone.
LEMMA OwnsSame ==
    ASSUME Owned, UNCHANGED Owns
    PROVE  Owned'
BY DEF Owns, Owned, OwnType, Hands, Locked, Distinct, Counted, Exclusive, Queued, Holders,
   Held, Free, Releasers, Released

\* Releasing: the buffer goes from the hand to nowhere or to the pool.
LEMMA OwnedReleaseTest ==
    ASSUME Owned, NEW t \in Threads, ReleaseTest(t)
    PROVE  Owned'
<1>1. /\ rel[t] = "test"
      /\ UNCHANGED <<container_, swaps, ppc, objects_, flag_, refs>>
  BY DEF ReleaseTest, queue
<1>2. /\ Queued' = Queued /\ Free' = Free
  BY <1>1 DEF Queued, Free
<1>3. CASE /\ live' = live \ {hand[t]}
           /\ hand' = [hand EXCEPT ![t] = Nobody]
           /\ rel' = [rel EXCEPT ![t] = "no"]
  <2>1. Holders' = Holders /\ t \notin Holders
    BY <1>1, <1>3 DEF Owned, OwnType, Hands, Holders, Threads
  <2>2. \A u \in Holders : hand'[u] = hand[u]
    BY <1>3, <2>1 DEF Holders, Owned, OwnType, Threads
  <2>3. Held' = Held
    BY <2>1, <2>2 DEF Held
  <2>4. Releasers' = Releasers \ {t} /\ t \in Releasers
    BY <1>1, <1>3 DEF Releasers, Owned, OwnType
  <2>5. \A u \in Releasers' : hand'[u] = hand[u]
    BY <1>3, <2>4 DEF Releasers, Owned, OwnType
  <2>6. Released' = Released \ {hand[t]} /\ hand[t] \in Released
    BY <2>4, <2>5 DEF Released, Owned, Distinct
  <2>7. OwnType' /\ Hands' /\ Locked'
    BY <1>1, <1>2, <1>3 DEF Owned, OwnType, Hands, Locked
  <2>8. Distinct'
    BY <1>1, <2>1, <2>2, <2>4, <2>5 DEF Owned, Distinct
  <2>9. Counted' /\ Exclusive'
    BY <1>1, <1>2, <1>3, <2>3, <2>6 DEF Owned, Counted, Exclusive
  <2> QED
    BY <2>7, <2>8, <2>9 DEF Owned
<1>4. CASE rel' = [rel EXCEPT ![t] = "lock"] /\ UNCHANGED <<live, hand>>
  <2>1. Holders' = Holders /\ Releasers' = Releasers
    BY <1>1, <1>4 DEF Owned, OwnType, Holders, Releasers
  <2>2. Held' = Held /\ Released' = Released
    BY <1>4, <2>1 DEF Held, Released
  <2>3. OwnType' /\ Hands' /\ Locked'
    BY <1>1, <1>2, <1>4 DEF Owned, OwnType, Hands, Locked
  <2>4. Distinct' /\ Counted' /\ Exclusive'
    BY <1>1, <1>2, <1>4, <2>1, <2>2 DEF Owned, Distinct, Counted, Exclusive
  <2> QED
    BY <2>3, <2>4 DEF Owned
<1> QED
  BY <1>3, <1>4 DEF ReleaseTest

LEMMA OwnedReleaseLock ==
    ASSUME Owned, NEW t \in Threads, ReleaseLock(t)
    PROVE  Owned'
<1>1. /\ rel[t] = "lock" /\ flag_ = Nobody /\ flag_' = t
      /\ rel' = [rel EXCEPT ![t] = "push"]
      /\ UNCHANGED <<container_, swaps, ppc, objects_, refs, live, hand>>
  BY DEF ReleaseLock, TakeLock, queue
<1>2. Holders' = Holders /\ Releasers' = Releasers
  BY <1>1 DEF Owned, OwnType, Holders, Releasers
<1>3. Queued' = Queued /\ Free' = Free /\ Held' = Held /\ Released' = Released
  BY <1>1, <1>2 DEF Queued, Free, Held, Released
<1>4. OwnType' /\ Hands'
  BY <1>1, <1>3 DEF Owned, OwnType, Hands
<1>5. Locked'
  BY <1>1, ThreadsAssumption DEF Owned, OwnType, Locked, Threads
<1>6. Distinct' /\ Counted' /\ Exclusive'
  BY <1>1, <1>2, <1>3 DEF Owned, Distinct, Counted, Exclusive
<1> QED
  BY <1>4, <1>5, <1>6 DEF Owned

LEMMA OwnedReleasePush ==
    ASSUME Owned, NEW t \in Threads, ReleasePush(t)
    PROVE  Owned'
<1>1. /\ rel[t] = "push" /\ flag_' = Nobody
      /\ objects_' = Append(objects_, hand[t])
      /\ hand' = [hand EXCEPT ![t] = Nobody]
      /\ rel' = [rel EXCEPT ![t] = "no"]
      /\ UNCHANGED <<container_, swaps, ppc, refs, live>>
  BY DEF ReleasePush, queue
<1>2. flag_ = t /\ hand[t] \in Buffers
  BY <1>1 DEF Owned, Locked, Hands
<1>3. Holders' = Holders /\ t \notin Holders
  BY <1>1 DEF Owned, OwnType, Hands, Holders, Threads
<1>4. \A u \in Holders : hand'[u] = hand[u]
  BY <1>1, <1>3 DEF Holders, Owned, OwnType, Threads
<1>5. Releasers' = Releasers \ {t} /\ t \in Releasers
  BY <1>1 DEF Releasers, Owned, OwnType
<1>6. \A u \in Releasers' : hand'[u] = hand[u]
  BY <1>1, <1>5 DEF Releasers, Owned, OwnType
<1>7. Released' = Released \ {hand[t]} /\ hand[t] \in Released
  BY <1>5, <1>6 DEF Released, Owned, Distinct
<1>8. hand[t] \notin Free
  BY <1>7 DEF Owned, Exclusive
<1>9. objects_' \in Seq(Buffers) /\ Free' = Free \cup {hand[t]} /\ IsInjective(objects_)'
  BY <1>1, <1>2, <1>8, AppendRange, AppendProperties DEF Owned, OwnType, Distinct, Free
<1>10. Queued' = Queued /\ Held' = Held
  BY <1>1, <1>3, <1>4 DEF Queued, Held
<1>11. OwnType'
  BY <1>1, <1>9 DEF Owned, OwnType
<1>12. \A u \in Producers : ppc[u] # "take"
  BY <1>1, <1>2 DEF Owned, Hands, Locked
<1>13. Hands'
  BY <1>1, <1>10, <1>12 DEF Owned, OwnType, Hands
<1>14. Locked'
  BY <1>1, <1>2, <1>12 DEF Owned, OwnType, Locked
<1>15. Distinct'
  BY <1>1, <1>3, <1>4, <1>5, <1>6, <1>9 DEF Owned, Distinct
<1>16. Counted' /\ Exclusive'
  BY <1>1, <1>7, <1>9, <1>10 DEF Owned, Counted, Exclusive
<1> QED
  BY <1>11, <1>13, <1>14, <1>15, <1>16 DEF Owned

\* A thread that logs looks at the top of the pool under its lock,
LEMMA OwnedCreateLock ==
    ASSUME Owned, NEW t \in Producers, CreateLock(t)
    PROVE  Owned'
<1> t \in Threads
  BY DEF Threads
<1>1. /\ ppc[t] = "idle" /\ rel[t] = "no" /\ flag_ = Nobody /\ flag_' = t
      /\ ppc' = [ppc EXCEPT ![t] = "take"]
      /\ hand' = [hand EXCEPT ![t] = IF objects_ = <<>> THEN Nobody
                                     ELSE objects_[Len(objects_)]]
      /\ UNCHANGED <<container_, swaps, objects_, live, refs, rel>>
  BY DEF CreateLock, LogMoves, TakeLock, queue
<1>2. objects_ # <<>> => objects_[Len(objects_)] \in Buffers
  BY LenProperties, EmptySeq DEF Owned, OwnType
<1>3. Holders' = Holders /\ t \notin Holders
  BY <1>1 DEF Owned, OwnType, Holders
<1>4. Releasers' = Releasers /\ t \notin Releasers
  BY <1>1 DEF Releasers
<1>5. \A u \in Holders \cup Releasers : hand'[u] = hand[u]
  BY <1>1, <1>3, <1>4 DEF Holders, Releasers, Threads, Owned, OwnType
<1>6. Queued' = Queued /\ Free' = Free /\ Held' = Held /\ Released' = Released
  BY <1>1, <1>3, <1>4, <1>5 DEF Queued, Free, Held, Released
<1>7. OwnType'
  BY <1>1, <1>2 DEF Owned, OwnType
<1>8. Hands'
  BY <1>1, <1>6 DEF Owned, OwnType, Hands, Threads
<1>9. Locked'
  BY <1>1, ThreadsAssumption DEF Owned, OwnType, Locked, Threads
<1>10. Distinct'
  BY <1>1, <1>3, <1>4, <1>5 DEF Owned, Distinct
<1>11. Counted' /\ Exclusive'
  BY <1>1, <1>6 DEF Owned, Counted, Exclusive
<1> QED
  BY <1>7, <1>8, <1>9, <1>10, <1>11 DEF Owned

\* and takes it, or allocates a buffer.  Either way nobody else has this one.
LEMMA OwnedCreatePop ==
    ASSUME Owned, NEW t \in Producers, CreatePop(t)
    PROVE  Owned' /\ hand'[t] \in Buffers /\ hand'[t] \notin Queued
<1> t \in Threads
  BY DEF Threads
<1> DEFINE b == IF hand[t] = Nobody THEN CHOOSE x \in Buffers \ live : TRUE ELSE hand[t]
<1>1. /\ ppc[t] = "take" /\ rel[t] = "no"
      /\ ppc' = [ppc EXCEPT ![t] = "push"]
      /\ objects_' = IF hand[t] = Nobody THEN objects_
                     ELSE SubSeq(objects_, 1, Len(objects_) - 1)
      /\ flag_' = IF flag_ = t THEN Nobody ELSE flag_
      /\ hand' = [hand EXCEPT ![t] = b]
      /\ live' = live \cup {b}
      /\ refs' = [refs EXCEPT ![b] = 1]
      /\ hand[t] = Nobody => Buffers \ live # {}
      /\ UNCHANGED <<container_, swaps, rel>>
  BY DEF CreatePop, LogMoves, queue
<1>2. flag_ = t /\ hand[t] = IF objects_ = <<>> THEN Nobody ELSE objects_[Len(objects_)]
  BY <1>1 DEF Owned, Locked, Hands
<1>3. /\ b \in Buffers /\ b \notin Queued \cup Held \cup Released
      /\ objects_' \in Seq(Buffers) /\ IsInjective(objects_)'
      /\ Free' = Free \ {b}
  <2>1. CASE hand[t] = Nobody
    <3>1. b \in Buffers \ live
      BY <1>1, <2>1
    <3> QED
      BY <1>1, <2>1, <3>1 DEF Owned, OwnType, Distinct, Exclusive, Free
  <2>2. CASE hand[t] # Nobody
    <3>1. objects_ # <<>> /\ b = objects_[Len(objects_)]
      BY <1>2, <2>2
    <3>2. objects_' = SubSeq(objects_, 1, Len(objects_) - 1)
      BY <1>1, <2>2
    <3>3. objects_ \in Seq(Buffers) /\ IsInjective(objects_)
      BY DEF Owned, OwnType, Distinct
    <3>4. /\ objects_' \in Seq(Buffers)
          /\ b \in Free
          /\ Free' = Free \ {b}
          /\ IsInjective(objects_')
      BY <3>1, <3>2, <3>3, FrontRange DEF Free
    <3> QED
      BY <3>4 DEF Owned, OwnType, Exclusive
  <2> QED
    BY <2>1, <2>2
<1> HIDE DEF b
<1>4. Holders' = Holders \cup {t} /\ t \notin Holders
  BY <1>1 DEF Owned, OwnType, Holders
<1>5. Releasers' = Releasers /\ t \notin Releasers
  BY <1>1 DEF Releasers
<1>6. hand'[t] = b /\ \A u \in Holders \cup Releasers : hand'[u] = hand[u]
  BY <1>1, <1>4, <1>5 DEF Holders, Releasers, Threads, Owned, OwnType
<1>7. Queued' = Queued /\ Held' = Held \cup {b} /\ Released' = Released
  BY <1>1, <1>4, <1>5, <1>6 DEF Queued, Held, Released
<1>8. OwnType'
  BY <1>1, <1>3 DEF Owned, OwnType
<1>9. \A u \in Producers : u # t => ppc[u] # "take"
  BY <1>2 DEF Owned, Locked
<1>10. Hands'
  BY <1>1, <1>3, <1>7, <1>9 DEF Owned, OwnType, Hands, Threads
<1>11. Locked'
  BY <1>1, <1>2, <1>9 DEF Owned, OwnType, Locked
<1>12. \A u \in Holders : hand[u] # b
  BY <1>3 DEF Held
<1>13. Distinct'
  BY <1>1, <1>3, <1>4, <1>5, <1>6, <1>12 DEF Owned, Distinct
<1>14. Counted' /\ Exclusive'
  BY <1>1, <1>3, <1>7 DEF Owned, OwnType, Counted, Exclusive
<1> QED
  BY <1>3, <1>6, <1>8, <1>10, <1>11, <1>13, <1>14 DEF Owned

\* A thread shares its buffer with the queue,
LEMMA OwnedLog ==
    ASSUME Owned, NEW t \in Producers, Log(t)
    PROVE  Owned' /\ hand[t] \in Buffers
<1> t \in Threads
  BY DEF Threads
<1>1. /\ ppc[t] = "push" /\ rel[t] = "no"
      /\ ppc' = [ppc EXCEPT ![t] = "drop"]
      /\ container_' = Append(container_, hand[t])
      /\ refs' = [refs EXCEPT ![hand[t]] = @ + 1]
      /\ UNCHANGED <<swaps, objects_, flag_, live, hand, rel>>
  BY DEF Log, LogMoves
<1>2. hand[t] \in Buffers /\ hand[t] \notin Queued
  BY <1>1 DEF Owned, Hands
<1>3. /\ container_' \in Seq(Buffers) /\ Range(container_') = Range(container_) \cup {hand[t]}
      /\ IsInjective(container_')
  BY <1>1, <1>2, AppendRange, AppendProperties DEF Owned, OwnType, Distinct, Queued
<1>4. Holders' = Holders /\ Releasers' = Releasers /\ t \in Holders
  BY <1>1 DEF Owned, OwnType, Holders, Releasers
<1>5. /\ Queued' = Queued \cup {hand[t]} /\ Free' = Free
      /\ Held' = Held /\ Released' = Released /\ hand[t] \in Held
  BY <1>1, <1>3, <1>4 DEF Queued, Free, Held, Released
<1>6. OwnType'
  BY <1>1, <1>2, <1>3 DEF Owned, OwnType
<1>7. ASSUME NEW u \in Producers, u # t, ppc[u] = "push"
      PROVE  hand[u] # hand[t]
  BY <1>4, <1>7 DEF Owned, Hands, Distinct, Holders, Threads
<1>8. Hands'
  BY <1>1, <1>5, <1>7 DEF Owned, OwnType, Hands
<1>9. Locked'
  BY <1>1 DEF Owned, OwnType, Locked
<1>10. Distinct'
  BY <1>1, <1>2, <1>3, <1>4 DEF Owned, Distinct, Queued
<1>11. Counted' /\ Exclusive'
  BY <1>1, <1>2, <1>5 DEF Owned, OwnType, Counted, Exclusive
<1> QED
  BY <1>2, <1>6, <1>8, <1>9, <1>10, <1>11 DEF Owned

\* and lets go of its own pointer.
LEMMA OwnedLeave ==
    ASSUME Owned, NEW t \in Producers, Leave(t)
    PROVE  Owned' /\ (refs[hand[t]] = 1 => hand[t] \notin Queued)
<1> t \in Threads
  BY DEF Threads
<1> DEFINE b == hand[t]
<1>1. /\ ppc[t] = "drop" /\ rel[t] = "no"
      /\ ppc' = [ppc EXCEPT ![t] = "idle"]
      /\ refs' = [refs EXCEPT ![b] = @ - 1]
      /\ UNCHANGED <<container_, swaps, objects_, flag_, live>>
      /\ IF refs[b] = 1
         THEN rel' = [rel EXCEPT ![t] = "test"] /\ hand' = [hand EXCEPT ![t] = b]
         ELSE hand' = [hand EXCEPT ![t] = Nobody] /\ UNCHANGED rel
  BY DEF Leave, LogMoves, DropRef, queue
<1>2. b \in Buffers
  BY <1>1 DEF Owned, Hands
<1> HIDE DEF b
<1>2a. /\ rel' \in [Threads -> {"no", "test", "lock", "push"}]
       /\ hand' \in [Threads -> Buffers \cup {Nobody}]
       /\ rel'[t] \in {"no", "test"} /\ (rel'[t] = "test" => hand'[t] \in Buffers)
       /\ \A u \in Threads \ {t} : rel'[u] = rel[u] /\ hand'[u] = hand[u]
  BY <1>1, <1>2 DEF Owned, OwnType
<1>3. t \in Holders /\ t \notin Releasers /\ b \in Held
  BY <1>1 DEF Holders, Releasers, Held, b
<1>4. refs[b] = (IF b \in Queued THEN 1 ELSE 0) + 1
  BY <1>2, <1>3 DEF Owned, Counted
<1>5. Holders' = Holders \ {t}
  BY <1>1, <1>3, <1>2a DEF Owned, OwnType, Holders, Threads
<1>6. \A u \in (Holders \cup Releasers) \ {t} : hand'[u] = hand[u]
  BY <1>1 DEF Holders, Releasers, Threads, Owned, OwnType
<1>7. Queued' = Queued /\ Free' = Free
  BY <1>1 DEF Queued, Free
<1>8. Held' = Held \ {b}
  BY <1>3, <1>5, <1>6 DEF Held, Owned, Distinct, b
<1>9. OwnType'
  BY <1>1, <1>2, <1>2a DEF Owned, OwnType
<1>10. Hands'
  BY SMTT(20), ZenonT(60), <1>1, <1>2, <1>7, <1>2a DEF Owned, OwnType, Hands, Threads
<1>11. Locked'
  BY <1>1 DEF Owned, OwnType, Locked
<1>12. CASE refs[b] = 1
  <2>1. b \notin Queued
    BY <1>4, <1>12
  <2>2. Releasers' = Releasers \cup {t} /\ hand'[t] = b
    BY <1>1, <1>12 DEF Owned, OwnType, Releasers
  <2>3. Released' = Released \cup {b}
    BY <1>3, <1>6, <2>2 DEF Released
  <2>4. \A u \in Releasers : hand[u] # b
    BY <1>3 DEF Owned, Exclusive, Released
  <2>5. Distinct'
    BY <1>1, <1>3, <1>5, <1>6, <2>2, <2>4 DEF Owned, Distinct
  <2>6. Counted' /\ Exclusive'
    BY <1>1, <1>2, <1>3, <1>4, <1>7, <1>8, <2>1, <2>3 DEF Owned, OwnType, Counted, Exclusive
  <2> QED
    BY <1>9, <1>10, <1>11, <2>1, <2>5, <2>6 DEF Owned, b
<1>13. CASE refs[b] # 1
  <2>1. b \in Queued
    BY <1>4, <1>13
  <2>2. Releasers' = Releasers
    BY <1>1, <1>13 DEF Releasers
  <2>3. Released' = Released
    BY <1>3, <1>6, <2>2 DEF Released
  <2>5. Distinct'
    BY <1>1, <1>3, <1>5, <1>6, <2>2 DEF Owned, Distinct
  <2>6. Counted' /\ Exclusive'
    BY <1>1, <1>2, <1>3, <1>4, <1>7, <1>8, <2>1, <2>3 DEF Owned, OwnType, Counted, Exclusive
  <2> QED
    BY <1>9, <1>10, <1>11, <1>13, <2>5, <2>6 DEF Owned, b
<1> QED
  BY <1>12, <1>13

\* The writer drops a buffer it has written,
LEMMA OwnedClearOne ==
    ASSUME Owned, ClearOne
    PROVE  /\ Owned'
           /\ refs[Head(swaps)] = 1 => /\ Head(swaps) \notin Range(container_)
                                       /\ Head(swaps) \notin Held
<1> DEFINE b == Head(swaps)
<1>1. /\ swaps # <<>> /\ rel[Writer] = "no"
      /\ swaps' = Tail(swaps)
      /\ refs' = [refs EXCEPT ![b] = @ - 1]
      /\ UNCHANGED <<container_, ppc, objects_, flag_, live>>
      /\ IF refs[b] = 1
         THEN rel' = [rel EXCEPT ![Writer] = "test"] /\ hand' = [hand EXCEPT ![Writer] = b]
         ELSE hand' = [hand EXCEPT ![Writer] = Nobody] /\ UNCHANGED rel
  BY DEF ClearOne, WriterMoves, DropRef, queue
<1>2. Writer \in Threads /\ Writer \notin Producers
  BY ThreadsAssumption DEF Threads
<1>3. swaps \in Seq(Buffers) /\ IsInjective(swaps)
  BY DEF Owned, OwnType, Distinct
<1>4. /\ b \in Buffers /\ b \in Range(swaps)
      /\ swaps' \in Seq(Buffers) /\ Range(swaps') = Range(swaps) \ {b}
      /\ IsInjective(swaps')
  BY <1>1, <1>3, TailRange, HeadTailProperties
<1>4a. /\ rel' \in [Threads -> {"no", "test", "lock", "push"}]
       /\ hand' \in [Threads -> Buffers \cup {Nobody}]
       /\ rel'[Writer] \in {"no", "test"} /\ (rel'[Writer] = "test" => hand'[Writer] \in Buffers)
       /\ \A u \in Threads \ {Writer} : rel'[u] = rel[u] /\ hand'[u] = hand[u]
  BY <1>1, <1>2, <1>4 DEF Owned, OwnType
<1> HIDE DEF b
<1>5. b \in Queued /\ b \notin Range(container_) /\ Queued' = Queued \ {b}
  BY <1>1, <1>4 DEF Queued, Owned, Distinct
<1>6. Holders' = Holders
  BY <1>1, <1>2, <1>4a DEF Holders, Threads
<1>7. \A u \in (Holders \cup Releasers) : hand'[u] = hand[u] /\ u # Writer
  BY <1>1, <1>2 DEF Holders, Releasers, Threads, Owned, OwnType
<1>8. Held' = Held /\ Free' = Free
  BY <1>1, <1>6, <1>7 DEF Held, Free
<1>9. refs[b] = 1 + (IF b \in Held THEN 1 ELSE 0)
  BY <1>4, <1>5 DEF Owned, Counted
<1>10. OwnType'
  BY <1>1, <1>4, <1>4a DEF Owned, OwnType
<1>11. Hands'
  BY SMTT(40), <1>1, <1>2, <1>4, <1>5 DEF Owned, OwnType, Hands, Threads
<1>12. Locked'
  BY <1>1 DEF Owned, OwnType, Locked
<1>13. CASE refs[b] = 1
  <2>1. b \notin Held
    BY <1>9, <1>13
  <2>2. Releasers' = Releasers \cup {Writer} /\ hand'[Writer] = b
    BY <1>1, <1>2, <1>13 DEF Owned, OwnType, Releasers
  <2>3. Released' = Released \cup {b}
    BY <1>7, <2>2 DEF Released
  <2>4. \A u \in Releasers : hand[u] # b
    BY <1>5 DEF Owned, Exclusive, Released
  <2>5. Distinct'
    BY <1>1, <1>4, <1>6, <1>7, <2>2, <2>4 DEF Owned, Distinct
  <2>6. Counted' /\ Exclusive'
    BY SMTT(20), ZenonT(60), <1>1, <1>4, <1>5, <1>8, <1>9, <2>1, <2>3 DEF Owned, OwnType, Counted, Exclusive
  <2> QED
    BY <1>5, <1>10, <1>11, <1>12, <2>1, <2>5, <2>6 DEF Owned, b
<1>14. CASE refs[b] # 1
  <2>1. b \in Held
    BY <1>9, <1>14
  <2>2. Releasers' = Releasers
    BY <1>1, <1>14 DEF Releasers
  <2>3. Released' = Released
    BY <1>7, <2>2 DEF Released
  <2>5. Distinct'
    BY <1>1, <1>4, <1>6, <1>7, <2>2 DEF Owned, Distinct
  <2>6. Counted' /\ Exclusive'
    BY <1>1, <1>4, <1>5, <1>8, <1>9, <2>1, <2>3 DEF Owned, OwnType, Counted, Exclusive
  <2> QED
    BY <1>10, <1>11, <1>12, <1>14, <2>5, <2>6 DEF Owned, b
<1> QED
  BY <1>13, <1>14

LEMMA EmptyRange == Range(<<>>) = {} /\ IsInjective(<<>>)
BY DEF Range, IsInjective

\* and takes all there is in the queue.
LEMMA OwnedSwap ==
    ASSUME Owned, Swap
    PROVE  Owned'
<1>1. /\ swaps = <<>> /\ swaps' = container_ /\ container_' = <<>>
      /\ UNCHANGED <<ppc, objects_, flag_, live, refs, hand, rel>>
  BY DEF Swap, pool
<1>2. Queued' = Queued
  BY <1>1, EmptyRange DEF Queued
<1>3. /\ Holders' = Holders /\ Releasers' = Releasers /\ Held' = Held
      /\ Free' = Free /\ Released' = Released
  BY <1>1 DEF Holders, Releasers, Held, Free, Released
<1>4. OwnType' /\ Hands' /\ Locked'
  BY <1>1, <1>2, EmptySeq DEF Owned, OwnType, Hands, Locked
<1>5. Distinct'
  BY <1>1, <1>3, EmptyRange DEF Owned, Distinct
<1>6. Counted' /\ Exclusive'
  BY <1>1, <1>2, <1>3 DEF Owned, Counted, Exclusive
<1> QED
  BY <1>4, <1>5, <1>6 DEF Owned

-----------------------------------------------------------------------------
(* What becomes of the lines. *)

\* The types of the rest.
FlowType ==
    /\ state_ \in {"init", "ready", "exited"}
    /\ exit_ \in BOOLEAN
    /\ notified \in BOOLEAN
    /\ opc \in {"construct", "created", "running", "exiting", "joining", "closed"}
    /\ wpc \in {"spin", "test_state", "test_size", "clear", "waiting", "write", "unwind",
                "ended"}
    /\ logged \in [Producers -> Nat]
    /\ flag_ \in Threads \cup {Nobody}
    /\ text \in [Buffers -> Line \cup {Nobody}]
    /\ accepted \in Seq(Line)
    /\ written \in Seq(Line)
    /\ cutoff \in Nat

\* A buffer that waits to be written holds a line, and the one a thread is about to push
\* holds that thread's next line.
Filled ==
    /\ \A b \in Range(container_) \cup Range(Unwritten) : text[b] \in Line
    /\ \A t \in Producers : ppc[t] = "push" => text[hand[t]] = NextLine(t)

\* How far the owner and the writer are.
Phases ==
    /\ opc \in {"construct", "created"} => state_ = "init"
    /\ opc = "running" => state_ = "ready"
    /\ opc \in {"exiting", "joining", "closed"} => state_ = "exited"
    /\ wpc # "spin" => state_ # "init"
    /\ wpc \in {"test_size", "unwind", "ended"} => state_ = "exited"
    /\ opc = "closed" => wpc = "ended"

\* Who left the loop found the queue empty after the logger had exited.
Flushed ==
    /\ cutoff <= Len(accepted)
    /\ wpc \in {"unwind", "ended"} => cutoff <= Len(written)

Told == Filled /\ InOrder

LInv == Owned /\ FlowType /\ Told /\ Phases /\ Flushed

\* The lines in a sequence of buffers.
LinesOf(tx, bs) == [i \in DOMAIN bs |-> tx[bs[i]]]

LEMMA LinesAre ==
    ASSUME NEW tx, NEW s \in Seq(Buffers), \A b \in Range(s) : tx[b] \in Line
    PROVE  /\ LinesOf(tx, s) \in Seq(Line)
           /\ \A b \in Buffers : tx[b] \in Line =>
                LinesOf(tx, Append(s, b)) = Append(LinesOf(tx, s), tx[b])
           /\ \A ty : (\A b \in Range(s) : ty[b] = tx[b]) => LinesOf(ty, s) = LinesOf(tx, s)
<1>1. Len(s) \in Nat /\ DOMAIN s = 1..Len(s)
  BY LenProperties
<1>2. LinesOf(tx, s) \in Seq(Line) /\ Len(LinesOf(tx, s)) = Len(s)
  <2>1. \A i \in 1..Len(s) : tx[s[i]] \in Line
    BY <1>1 DEF Range
  <2>2. [i \in 1..Len(s) |-> tx[s[i]]] \in Seq(Line)
    BY <1>1, <2>1, IsASeq
  <2> QED
    BY <1>1, <2>2, LenProperties DEF LinesOf
<1>3. ASSUME NEW b \in Buffers, tx[b] \in Line
      PROVE  LinesOf(tx, Append(s, b)) = Append(LinesOf(tx, s), tx[b])
  <2> DEFINE a == Append(s, b)
             ls == LinesOf(tx, s)
             la == LinesOf(tx, a)
             al == Append(ls, tx[b])
  <2>1. /\ a \in Seq(Buffers) /\ Len(a) = Len(s) + 1 /\ a[Len(s) + 1] = b
        /\ \A i \in 1..Len(s) : a[i] = s[i]
    BY AppendProperties
  <2>2. /\ al \in Seq(Line) /\ Len(al) = Len(s) + 1 /\ al[Len(s) + 1] = tx[b]
        /\ \A i \in 1..Len(s) : al[i] = ls[i]
    BY <1>2, <1>3, AppendProperties
  <2>3. DOMAIN a = 1..Len(s) + 1 /\ DOMAIN al = 1..Len(s) + 1
    BY <2>1, <2>2, LenProperties
  <2>4. la = [i \in 1..Len(s) + 1 |-> tx[a[i]]]
    BY <2>3 DEF LinesOf
  <2>5. \A i \in 1..Len(s) : ls[i] = tx[s[i]]
    BY <1>1 DEF LinesOf
  <2> HIDE DEF a, ls, al, la
  <2>6. al = [i \in 1..Len(s) + 1 |-> al[i]]
    BY <2>2, <2>3, LenProperties
  <2>7. \A i \in 1..Len(s) + 1 : al[i] = tx[a[i]]
    BY <1>1, <2>1, <2>2, <2>5
  <2>8. la = al
    BY <2>4, <2>6, <2>7
  <2> QED
    BY <2>8 DEF a, ls, la, al
<1>4. ASSUME NEW ty, \A b \in Range(s) : ty[b] = tx[b]
      PROVE  LinesOf(ty, s) = LinesOf(tx, s)
  BY <1>4 DEF LinesOf, Range
<1> QED
  BY <1>2, <1>3, <1>4

LEMMA LinesIsLinesOf ==
    /\ Lines(container_) = LinesOf(text, container_)
    /\ Lines(container_)' = LinesOf(text', container_')
    /\ Lines(Unwritten) = LinesOf(text, Unwritten)
    /\ Lines(Unwritten)' = LinesOf(text', Unwritten')
    /\ Lines(swaps) = LinesOf(text, swaps)
BY DEF Lines, LinesOf

\* What waits to be written are sequences of lines.
LEMMA WaitingLines ==
    ASSUME LInv
    PROVE  /\ Unwritten \in Seq(Buffers) /\ container_ \in Seq(Buffers)
           /\ Lines(Unwritten) \in Seq(Line) /\ Lines(container_) \in Seq(Line)
           /\ written \o Lines(Unwritten) \in Seq(Line)
<1>1. Unwritten \in Seq(Buffers) /\ container_ \in Seq(Buffers)
  BY EmptySeq DEF LInv, Owned, OwnType, Unwritten
<1>2. \A b \in Range(container_) \cup Range(Unwritten) : text[b] \in Line
  BY DEF LInv, Told, Filled
<1>3. Lines(Unwritten) \in Seq(Line)
  BY <1>1, <1>2, LinesAre, LinesIsLinesOf
<1>4. Lines(container_) \in Seq(Line)
  BY <1>1, <1>2, LinesAre, LinesIsLinesOf
<1> QED
  BY <1>1, <1>3, <1>4, ConcatProperties DEF LInv, FlowType

\* Steps that leave the lines that wait and the buffers they are in alone.
LEMMA InOrderSame ==
    ASSUME LInv, UNCHANGED <<container_, accepted, written>>, Unwritten' = Unwritten,
           \A b \in Range(container_) \cup Range(Unwritten) : text'[b] = text[b]
    PROVE  /\ InOrder'
           /\ (\A b \in Range(container_) \cup Range(Unwritten) : text[b] \in Line)'
<1>1. \A b \in Range(container_) \cup Range(Unwritten) : text[b] \in Line
  BY DEF LInv, Told, Filled
<1>2. Lines(container_)' = Lines(container_)
  BY <1>1, WaitingLines, LinesAre, LinesIsLinesOf
<1>3. Lines(Unwritten)' = Lines(Unwritten)
  BY SMTT(20), ZenonT(60), <1>1, WaitingLines, LinesAre, LinesIsLinesOf
<1>4. InOrder
  BY DEF LInv, Told
<1> QED
  BY <1>1, <1>2, <1>3, <1>4 DEF InOrder

Flow == <<state_, opc, wpc, written, accepted, cutoff>>

\* The parts of the invariant that few steps touch.
LEMMA FlowSame ==
    ASSUME LInv, UNCHANGED Flow
    PROVE  Phases' /\ Flushed'
BY DEF LInv, Flow, Phases, Flushed

LEMMA ReleaseKeeps ==
    ASSUME LInv, NEW t \in Threads, Release(t)
    PROVE  LInv'
<1>1. Owned'
  BY OwnedReleaseTest, OwnedReleaseLock, OwnedReleasePush DEF Release, LInv
<1>2. /\ rel[t] # "no"
      /\ UNCHANGED <<state_, container_, exit_, notified, opc, wpc, ppc, swaps, logged, text,
                     accepted, written, cutoff>>
      /\ flag_' \in {flag_, t, Nobody}
      /\ \A u \in Threads \ {t} : hand'[u] = hand[u]
  BY DEF Release, ReleaseTest, ReleaseLock, ReleasePush, TakeLock, queue, history, LInv, Owned,
     OwnType
<1>3. FlowType' /\ Phases' /\ Flushed'
  BY <1>2, FlowSame DEF LInv, FlowType, Flow
<1>4. InOrder' /\ (\A b \in Range(container_) \cup Range(Unwritten) : text[b] \in Line)'
  BY <1>2, InOrderSame DEF Unwritten
<1>5. ASSUME NEW u \in Producers, ppc[u] = "push"
      PROVE  hand'[u] = hand[u]
  BY <1>2, <1>5 DEF LInv, Owned, Hands, Threads
<1>6. Filled'
  BY <1>2, <1>4, <1>5 DEF LInv, Told, Filled, NextLine
<1> QED
  BY <1>1, <1>3, <1>4, <1>6 DEF LInv, Told

LEMMA CreateLockKeeps ==
    ASSUME LInv, NEW t \in Producers, CreateLock(t)
    PROVE  LInv'
<1>1. Owned'
  BY OwnedCreateLock DEF LInv
<1>2. /\ UNCHANGED <<state_, container_, exit_, notified, opc, wpc, swaps, logged, text,
                     accepted, written, cutoff>>
      /\ flag_' = t /\ ppc' = [ppc EXCEPT ![t] = "take"]
      /\ \A u \in Threads \ {t} : hand'[u] = hand[u]
  BY DEF CreateLock, LogMoves, TakeLock, queue, history, LInv, Owned, OwnType
<1>3. FlowType' /\ Phases' /\ Flushed'
  BY <1>2, FlowSame DEF LInv, FlowType, Flow, Threads
<1>4. InOrder' /\ (\A b \in Range(container_) \cup Range(Unwritten) : text[b] \in Line)'
  BY <1>2, InOrderSame DEF Unwritten
<1>5. ASSUME NEW u \in Producers, ppc'[u] = "push"
      PROVE  ppc[u] = "push" /\ hand'[u] = hand[u]
  BY <1>2, <1>5 DEF LInv, Owned, OwnType, Threads
<1>6. Filled'
  BY <1>2, <1>4, <1>5 DEF LInv, Told, Filled, NextLine
<1> QED
  BY <1>1, <1>3, <1>4, <1>6 DEF LInv, Told

\* The line is written into a buffer that is not in the queue.
LEMMA CreatePopKeeps ==
    ASSUME LInv, NEW t \in Producers, CreatePop(t)
    PROVE  LInv'
<1>1. Owned' /\ hand'[t] \in Buffers /\ hand'[t] \notin Queued
  BY OwnedCreatePop DEF LInv
<1>2. /\ UNCHANGED <<state_, container_, exit_, notified, opc, wpc, swaps, logged,
                     accepted, written, cutoff>>
      /\ flag_' \in {flag_, Nobody} /\ ppc[t] = "take" /\ ppc' = [ppc EXCEPT ![t] = "push"]
      /\ \A u \in Threads \ {t} : hand'[u] = hand[u]
      /\ text' = [text EXCEPT ![hand'[t]] = NextLine(t)]
  <2> DEFINE b == IF hand[t] = Nobody THEN CHOOSE x \in Buffers \ live : TRUE ELSE hand[t]
  <2>1. /\ UNCHANGED <<state_, container_, exit_, notified, opc, wpc, swaps, logged,
                       accepted, written, cutoff>>
        /\ flag_' \in {flag_, Nobody} /\ ppc[t] = "take" /\ ppc' = [ppc EXCEPT ![t] = "push"]
        /\ hand' = [hand EXCEPT ![t] = b]
        /\ text' = [text EXCEPT ![b] = NextLine(t)]
    BY DEF CreatePop, LogMoves, queue, history
  <2> HIDE DEF b
  <2> QED
    BY <2>1 DEF LInv, Owned, OwnType, Threads
<1>3. NextLine(t) \in Line
  BY DEF NextLine, Line, LInv, FlowType
<1>4. FlowType' /\ Phases' /\ Flushed'
  BY <1>1, <1>2, <1>3, FlowSame DEF LInv, FlowType, Flow
<1>5. Unwritten' = Unwritten /\ Range(Unwritten) \subseteq Range(swaps)
  BY <1>2, EmptyRange DEF Unwritten
<1>6. \A b \in Range(container_) \cup Range(Unwritten) : text'[b] = text[b]
  BY <1>1, <1>2, <1>5, WaitingLines, RangeOfSeq DEF Queued, LInv, FlowType
<1>7. InOrder' /\ (\A b \in Range(container_) \cup Range(Unwritten) : text[b] \in Line)'
  BY <1>2, <1>5, <1>6, InOrderSame
<1>8. text'[hand'[t]] = NextLine(t)
  BY <1>1, <1>2 DEF LInv, FlowType
<1>9. ASSUME NEW u \in Producers, u # t, ppc'[u] = "push"
      PROVE  text'[hand'[u]] = NextLine(u)
  <2>1. ppc[u] = "push" /\ hand'[u] = hand[u] /\ text[hand[u]] = NextLine(u)
    BY <1>2, <1>9 DEF LInv, Owned, OwnType, Told, Filled, Threads
  <2>2. u \in Holders' /\ t \in Holders'
    BY <1>1, <1>2, <1>9 DEF Owned, Hands, OwnType, Holders, LInv
  <2>3. hand'[u] # hand'[t] /\ hand[u] \in Buffers
    BY <1>1, <1>9, <2>1, <2>2 DEF Owned, Distinct, Hands, LInv
  <2> QED
    BY <1>2, <2>1, <2>3 DEF LInv, FlowType
<1>10. Filled'
  BY <1>2, <1>7, <1>8, <1>9 DEF Filled, NextLine
<1> QED
  BY <1>1, <1>4, <1>7, <1>10 DEF LInv, Told

LEMMA LogKeeps ==
    ASSUME LInv, NEW t \in Producers, Log(t)
    PROVE  LInv'
<1>1. Owned' /\ hand[t] \in Buffers
  BY OwnedLog DEF LInv
<1>2. /\ UNCHANGED <<state_, exit_, opc, wpc, swaps, text, flag_, hand, written, cutoff>>
      /\ ppc[t] = "push" /\ ppc' = [ppc EXCEPT ![t] = "drop"]
      /\ container_' = Append(container_, hand[t])
      /\ notified' = (notified \/ wpc = "waiting")
      /\ logged' = [logged EXCEPT ![t] = @ + 1]
      /\ accepted' = Append(accepted, NextLine(t))
  BY DEF Log, LogMoves
<1>3. NextLine(t) \in Line /\ text[hand[t]] = NextLine(t)
  BY <1>2 DEF NextLine, Line, LInv, FlowType, Told, Filled
<1>4. /\ accepted' \in Seq(Line)
      /\ Len(accepted') = Len(accepted) + 1 /\ Len(accepted) \in Nat
  BY <1>2, <1>3, AppendProperties, LenProperties DEF LInv, FlowType
<1>5. notified' \in BOOLEAN
  BY <1>2, Zenon DEF LInv, FlowType
<1>6. FlowType'
  BY <1>2, <1>4, <1>5 DEF LInv, FlowType
<1>7. Phases' /\ Flushed'
  BY <1>2, <1>4 DEF LInv, FlowType, Phases, Flushed
<1>8. Unwritten' = Unwritten /\ Lines(Unwritten)' = Lines(Unwritten)
  BY <1>2 DEF Unwritten, Lines
<1>9. Lines(container_)' = Append(Lines(container_), NextLine(t))
  <2>1. container_ \in Seq(Buffers) /\ \A b \in Range(container_) : text[b] \in Line
    BY WaitingLines DEF LInv, Told, Filled
  <2>2. LinesOf(text, Append(container_, hand[t]))
          = Append(LinesOf(text, container_), text[hand[t]])
    BY <1>1, <1>3, <2>1, LinesAre
  <2> QED
    BY <1>2, <1>3, <2>2, LinesIsLinesOf
<1>10. InOrder'
  <2> DEFINE w == written \o Lines(Unwritten)
             c == Lines(container_)
             l == NextLine(t)
  <2>1. w \in Seq(Line) /\ c \in Seq(Line) /\ l \in Line /\ <<l>> \in Seq(Line)
    BY <1>3, WaitingLines
  <2>2. accepted = w \o c
    BY DEF LInv, Told, InOrder
  <2>3. InOrder' <=> accepted' = w \o Append(c, l)
    BY <1>2, <1>8, <1>9 DEF InOrder
  <2> HIDE DEF w, c, l
  <2>4. w \o c \in Seq(Line) /\ Append(w \o c, l) = (w \o c) \o <<l>> /\ Append(c, l) = c \o <<l>>
    BY <2>1, ConcatProperties, AppendIsConcat
  <2>5. (w \o c) \o <<l>> = w \o (c \o <<l>>)
    BY <2>1, ConcatAssociative
  <2>6. accepted' = Append(w \o c, l)
    BY <1>2, <2>2 DEF l
  <2> QED
    BY <2>3, <2>4, <2>5, <2>6
<1>11. Filled'
  <2>1. Range(container_') = Range(container_) \cup {hand[t]}
    BY <1>1, <1>2, WaitingLines, AppendRange
  <2>2. ASSUME NEW u \in Producers, ppc'[u] = "push"
        PROVE  u # t /\ ppc[u] = "push" /\ NextLine(u)' = NextLine(u)
    BY <1>2, <2>2 DEF LInv, Owned, OwnType, FlowType, NextLine
  <2> QED
    BY <1>2, <1>3, <1>8, <2>1, <2>2 DEF LInv, Told, Filled
<1> QED
  BY <1>1, <1>6, <1>7, <1>10, <1>11 DEF LInv, Told

LEMMA LeaveKeeps ==
    ASSUME LInv, NEW t \in Producers, Leave(t)
    PROVE  LInv'
<1> DEFINE b == hand[t]
<1>1. Owned' /\ (refs[b] = 1 => b \notin Queued)
  BY OwnedLeave DEF LInv
<1>2. /\ UNCHANGED <<state_, container_, exit_, notified, opc, wpc, swaps, logged, flag_,
                     accepted, written, cutoff>>
      /\ ppc[t] = "drop" /\ rel[t] = "no" /\ ppc' = [ppc EXCEPT ![t] = "idle"]
      /\ \A u \in Threads \ {t} : hand'[u] = hand[u]
      /\ text' = IF refs[b] = 1 THEN [text EXCEPT ![b] = Nobody] ELSE text
  BY DEF Leave, LogMoves, DropRef, queue, history, LInv, Owned, OwnType
<1>3. b \in Buffers /\ t \in Holders
  BY <1>2 DEF LInv, Owned, Hands, Holders
<1> HIDE DEF b
<1>4. FlowType' /\ Phases' /\ Flushed'
  BY SMTT(20), ZenonT(60), <1>2, FlowSame DEF LInv, FlowType, Flow
<1>5. Unwritten' = Unwritten /\ Range(Unwritten) \subseteq Range(swaps)
  BY <1>2, EmptyRange DEF Unwritten
<1>6. \A x \in Range(container_) \cup Range(Unwritten) : text'[x] = text[x]
  BY <1>1, <1>2, <1>5, WaitingLines, RangeOfSeq DEF Queued, LInv, FlowType
<1>7. InOrder' /\ (\A x \in Range(container_) \cup Range(Unwritten) : text[x] \in Line)'
  BY <1>2, <1>5, <1>6, InOrderSame
<1>8. ASSUME NEW u \in Producers, ppc'[u] = "push"
      PROVE  text'[hand'[u]] = NextLine(u)
  <2>1. u # t /\ ppc[u] = "push" /\ hand'[u] = hand[u] /\ text[hand[u]] = NextLine(u)
    BY <1>2, <1>8 DEF LInv, Owned, OwnType, Told, Filled, Threads
  <2>2. u \in Holders /\ hand[u] \in Buffers
    BY <2>1 DEF LInv, Owned, Hands, Holders, OwnType, Threads
  <2>3. hand[u] # b
    BY <1>3, <2>1, <2>2 DEF LInv, Owned, Distinct, b
  <2> QED
    BY <1>2, <2>1, <2>2, <2>3 DEF LInv, FlowType
<1>9. Filled'
  BY <1>2, <1>7, <1>8 DEF Filled, NextLine
<1> QED
  BY <1>1, <1>4, <1>7, <1>9 DEF LInv, Told

LEMMA ClearOneKeeps ==
    ASSUME LInv, ClearOne
    PROVE  LInv'
<1> DEFINE b == Head(swaps)
<1>1. Owned' /\ (refs[b] = 1 => b \notin Range(container_) /\ b \notin Held)
  BY OwnedClearOne DEF LInv
<1>2. /\ UNCHANGED <<state_, container_, exit_, notified, opc, ppc, logged, flag_,
                     accepted, written, cutoff>>
      /\ wpc \in {"clear", "unwind"} /\ wpc' = wpc
      /\ \A u \in Producers : hand'[u] = hand[u]
      /\ text' = IF refs[b] = 1 THEN [text EXCEPT ![b] = Nobody] ELSE text
  BY ThreadsAssumption
  DEF ClearOne, WriterMoves, DropRef, queue, history, LInv, Owned, OwnType, Threads
<1>3. b \in Buffers
  BY HeadTailProperties DEF ClearOne, LInv, Owned, OwnType
<1> HIDE DEF b
<1>4. FlowType' /\ Phases' /\ Flushed'
  BY <1>2, FlowSame DEF LInv, FlowType, Flow
<1>5. Unwritten' = Unwritten /\ Range(Unwritten) = {}
  BY <1>2, EmptyRange DEF Unwritten
<1>6. \A x \in Range(container_) \cup Range(Unwritten) : text'[x] = text[x]
  BY <1>1, <1>2, <1>5, WaitingLines, RangeOfSeq DEF LInv, FlowType
<1>7. InOrder' /\ (\A x \in Range(container_) \cup Range(Unwritten) : text[x] \in Line)'
  BY <1>2, <1>5, <1>6, InOrderSame
<1>8. ASSUME NEW u \in Producers, ppc[u] = "push"
      PROVE  text'[hand[u]] = NextLine(u)
  <2>1. hand[u] \in Held /\ hand[u] \in Buffers /\ text[hand[u]] = NextLine(u)
    BY <1>8 DEF LInv, Owned, Hands, Holders, Held, OwnType, Threads, Told, Filled
  <2> QED
    BY <1>1, <1>2, <2>1 DEF LInv, FlowType
<1>9. Filled'
  BY <1>2, <1>7, <1>8 DEF Filled, NextLine
<1> QED
  BY <1>1, <1>4, <1>7, <1>9 DEF LInv, Told

LEMMA SwapKeeps ==
    ASSUME LInv, Swap
    PROVE  LInv'
<1>1. Owned'
  BY OwnedSwap DEF LInv
<1>2. /\ UNCHANGED <<state_, exit_, notified, opc, ppc, logged, flag_, text, hand, accepted,
                     written, cutoff>>
      /\ wpc = "clear" /\ wpc' = "write"
      /\ swaps' = container_ /\ container_' = <<>>
  BY DEF Swap, WriterMoves, pool, history
<1>3. FlowType' /\ Phases' /\ Flushed'
  BY <1>2 DEF LInv, FlowType, Phases, Flushed
<1>4. Unwritten = <<>> /\ Unwritten' = container_
  BY <1>2 DEF Unwritten
<1>5. Filled'
  BY <1>2, <1>4, EmptyRange DEF LInv, Told, Filled, NextLine
<1>6. /\ Lines(Unwritten) = <<>> /\ Lines(container_)' = <<>>
      /\ Lines(Unwritten)' = Lines(container_)
  <2>1. LinesOf(text, <<>>) = <<>>
    BY DEF LinesOf
  <2> QED
    BY <1>2, <1>4, <2>1, LinesIsLinesOf
<1>7. InOrder'
  <2> DEFINE c == Lines(container_)
  <2>1. c \in Seq(Line) /\ written \in Seq(Line) /\ accepted = (written \o <<>>) \o c
    BY <1>6, WaitingLines DEF LInv, FlowType, Told, InOrder
  <2>2. InOrder' <=> accepted = (written \o c) \o <<>>
    BY <1>2, <1>6 DEF InOrder
  <2> HIDE DEF c
  <2>3. written \o c \in Seq(Line)
    BY <2>1, ConcatProperties
  <2> QED
    BY <2>1, <2>2, <2>3, ConcatEmptySeq
<1> QED
  BY <1>1, <1>3, <1>5, <1>7 DEF LInv, Told

LEMMA WriteAllKeeps ==
    ASSUME LInv, WriteAll
    PROVE  LInv'
<1>1. /\ UNCHANGED <<state_, container_, exit_, notified, opc, ppc, swaps, logged, objects_,
                     flag_, live, refs, text, hand, rel, accepted, cutoff>>
      /\ wpc = "write" /\ wpc' = "test_state"
      /\ written' = written \o Lines(swaps)
  BY DEF WriteAll, WriterMoves, pool, queue
<1>2. Owned'
  BY <1>1, OwnsSame DEF LInv, Owns
<1>3. Unwritten = swaps /\ Unwritten' = <<>>
  BY <1>1 DEF Unwritten
<1>4. written' \in Seq(Line)
  BY <1>1, <1>3, WaitingLines
<1>5. FlowType' /\ Phases' /\ Flushed'
  BY <1>1, <1>4 DEF LInv, FlowType, Phases, Flushed
<1>6. Filled'
  BY <1>1, <1>3, EmptyRange DEF LInv, Told, Filled, NextLine
<1>7. InOrder'
  <2>1. Lines(Unwritten)' = <<>> /\ Lines(container_)' = Lines(container_)
    BY <1>1, <1>3 DEF Lines
  <2> QED
    BY <1>1, <1>3, <1>4, <2>1, ConcatEmptySeq DEF InOrder, LInv, Told
<1> QED
  BY <1>2, <1>5, <1>6, <1>7 DEF LInv, Told

\* The writer's other steps move no buffer and no line.  It leaves the loop with an empty
\* queue, when all that was pushed before wait() has been written.
LEMMA WriterTestKeeps ==
    ASSUME LInv, Spin \/ TestState \/ TestSize \/ End \/ Wait \/ Wake \/ WakeSpuriously
    PROVE  LInv'
<1>1. /\ UNCHANGED <<state_, container_, exit_, opc, ppc, swaps, logged, objects_,
                     flag_, live, refs, text, hand, rel, accepted, written, cutoff>>
      /\ notified' \in {notified, FALSE}
      /\ wpc # "write" /\ wpc' # "write"
      /\ wpc' \in {"test_state", "test_size", "clear", "waiting", "unwind", "ended"}
  BY DEF Spin, TestState, TestSize, End, Wait, Wake, WakeSpuriously, WriterMoves, pool, queue,
     history
<1>2. Owned'
  BY <1>1, OwnsSame DEF LInv, Owns
<1>3. FlowType'
  BY SMTT(20), ZenonT(60), <1>1 DEF LInv, FlowType
<1>4. Unwritten' = Unwritten
  BY <1>1 DEF Unwritten
<1>5. InOrder' /\ Filled'
  BY <1>1, <1>4, InOrderSame DEF LInv, Told, Filled, NextLine
<1>6. Phases'
  BY DEF LInv, FlowType, Phases, Spin, TestState, TestSize, End, Wait, Wake, WakeSpuriously,
     WriterMoves, queue, pool
<1>7. Flushed'
  <2>1. CASE TestSize /\ container_ = <<>>
    <3>1. Lines(container_) = <<>> /\ Lines(Unwritten) = <<>>
      BY <1>1, <2>1 DEF Lines, Unwritten
    <3>2. accepted = written
      BY <3>1, ConcatEmptySeq DEF LInv, FlowType, Told, InOrder
    <3> QED
      BY <1>1, <3>2 DEF LInv, Flushed
  <2>2. CASE ~(TestSize /\ container_ = <<>>)
    BY <1>1, <2>2 DEF LInv, Flushed, Spin, TestState, TestSize, End, Wait, Wake, WakeSpuriously,
       WriterMoves
  <2> QED
    BY <2>1, <2>2
<1> QED
  BY <1>2, <1>3, <1>5, <1>6, <1>7 DEF LInv, Told

LEMMA OwnerKeeps ==
    ASSUME LInv, Owner
    PROVE  LInv'
<1>1. /\ UNCHANGED <<container_, wpc, ppc, swaps, logged, objects_,
                     flag_, live, refs, text, hand, rel, accepted, written>>
      /\ exit_' \in {exit_, TRUE} /\ notified' \in {notified, wpc = "waiting"}
      /\ cutoff' \in {cutoff, Len(accepted)}
  BY DEF Owner, Construct, InitLogger, WaitStore, WaitExit, WaitJoin, OwnerMoves, pool, queue,
     history
<1>2. Owned'
  BY <1>1, OwnsSame DEF LInv, Owns
<1>3. Len(accepted) \in Nat /\ notified' \in BOOLEAN
  BY <1>1, LenProperties DEF LInv, FlowType
<1>4. FlowType' /\ Phases'
  BY <1>1, <1>3 DEF LInv, FlowType, Phases, Owner, Construct, InitLogger, WaitStore, WaitExit,
     WaitJoin, OwnerMoves
<1>5. Flushed'
  BY <1>1, <1>3
  DEF LInv, FlowType, Phases, Flushed, Owner, Construct, InitLogger, WaitStore, WaitExit,
      WaitJoin, OwnerMoves, history
<1>6. InOrder' /\ Filled'
  BY <1>1, InOrderSame DEF LInv, Told, Filled, NextLine, Unwritten
<1> QED
  BY <1>2, <1>4, <1>5, <1>6 DEF LInv, Told

\* All of this holds at first and is kept.
LEMMA LinesInvariance == SafeSpec => []LInv
<1>1. Init => LInv
  <2> SUFFICES ASSUME Init PROVE LInv
    OBVIOUS
  <2>1. Queued = {} /\ Held = {} /\ Free = {} /\ Released = {} /\ Holders = {} /\ Releasers = {}
    BY EmptyRange DEF Init, Queued, Holders, Held, Free, Releasers, Released
  <2>2. OwnType /\ Hands /\ Locked
    BY EmptySeq DEF Init, OwnType, Hands, Locked
  <2>3. Distinct /\ Counted /\ Exclusive
    BY <2>1, EmptyRange DEF Init, Distinct, Counted, Exclusive
  <2>4. FlowType /\ Phases /\ Flushed
    <3>1. text \in [Buffers -> Line \cup {Nobody}]
      BY DEF Init
    <3>2. accepted \in Seq(Line) /\ written \in Seq(Line) /\ Len(accepted) = 0
      BY EmptySeq DEF Init
    <3>3. state_ = "init" /\ opc = "construct" /\ wpc = "spin" /\ cutoff = 0
      BY DEF Init
    <3>4. Phases /\ Flushed
      BY <3>2, <3>3 DEF Phases, Flushed
    <3>5. exit_ \in BOOLEAN /\ notified \in BOOLEAN
      BY DEF Init
    <3>6. logged \in [Producers -> Nat] /\ flag_ \in Threads \cup {Nobody}
      BY DEF Init
    <3> QED
      BY <3>1, <3>2, <3>3, <3>4, <3>5, <3>6 DEF FlowType
  <2>5. Filled
    BY EmptyRange DEF Init, Filled, Unwritten
  <2>6. InOrder
    <3>1. Lines(Unwritten) = <<>> /\ Lines(container_) = <<>>
      BY DEF Init, Unwritten, Lines
    <3>2. <<>> \in Seq(Line)
      BY EmptySeq
    <3> QED
      BY <3>1, <3>2, ConcatEmptySeq DEF Init, InOrder
  <2> QED
    BY <2>2, <2>3, <2>4, <2>5, <2>6 DEF LInv, Owned, Told
<1>2. LInv /\ [Next]_vars => LInv'
  <2> SUFFICES ASSUME LInv, [Next]_vars PROVE LInv'
    OBVIOUS
  <2>1. CASE Owner
    BY <2>1, OwnerKeeps
  <2>2. ASSUME NEW t \in Producers, CreateLock(t) \/ InLog(t)
        PROVE  LInv'
    BY <2>2, CreateLockKeeps, CreatePopKeeps, LogKeeps, LeaveKeeps DEF InLog
  <2>3. ASSUME NEW t \in Threads, Release(t)
        PROVE  LInv'
    BY <2>3, ReleaseKeeps
  <2>4. CASE WriterSteps \/ WakeSpuriously
    BY <2>4, ClearOneKeeps, SwapKeeps, WriteAllKeeps, WriterTestKeeps DEF WriterSteps
  <2>5. CASE UNCHANGED vars
    <3>1. /\ UNCHANGED <<container_, exit_, notified, accepted, written, cutoff, state_, opc,
                         wpc, ppc, swaps, logged, objects_, flag_, live, refs, text, hand, rel>>
      BY <2>5 DEF vars, pool, queue, history
    <3>2. Owned' /\ FlowType' /\ Phases' /\ Flushed'
      BY <3>1, OwnsSame, FlowSame DEF LInv, Owns, FlowType, Flow
    <3>3. InOrder' /\ Filled'
      BY <3>1, InOrderSame DEF LInv, Told, Filled, NextLine, Unwritten
    <3> QED
      BY <3>2, <3>3 DEF LInv, Told
  <2> QED
    BY <2>1, <2>2, <2>3, <2>4, <2>5 DEF Next
<1> QED
  BY <1>1, <1>2, PTL DEF SafeSpec

-----------------------------------------------------------------------------
(* What the runs check. *)

\* How often an element is in a sequence without repetition.
LEMMA CountInjective ==
    ASSUME NEW s \in Seq(Buffers), IsInjective(s), NEW b
    PROVE  Cardinality({i \in DOMAIN s : s[i] = b}) = IF b \in Range(s) THEN 1 ELSE 0
<1>1. CASE b \in Range(s)
  <2>1. PICK i \in DOMAIN s : s[i] = b
    BY <1>1 DEF Range
  <2>2. {j \in DOMAIN s : s[j] = b} = {i}
    BY <2>1 DEF IsInjective
  <2> QED
    BY <1>1, <2>2, FS_Singleton
<1>2. CASE b \notin Range(s)
  <2>1. {j \in DOMAIN s : s[j] = b} = {}
    BY <1>2 DEF Range
  <2> QED
    BY <1>2, <2>1, FS_EmptySet
<1> QED
  BY <1>1, <1>2

\* How many threads have a buffer in their hands, when none of them share one.
LEMMA CountHands ==
    ASSUME NEW T, NEW h, \A t, u \in T : h[t] = h[u] => t = u, NEW b
    PROVE  Cardinality({t \in T : h[t] = b}) = IF b \in {h[t] : t \in T} THEN 1 ELSE 0
<1>1. CASE b \in {h[t] : t \in T}
  <2>1. PICK t \in T : h[t] = b
    BY <1>1
  <2>2. {u \in T : h[u] = b} = {t}
    BY <2>1
  <2> QED
    BY <1>1, <2>2, FS_Singleton
<1>2. CASE b \notin {h[t] : t \in T}
  <2>1. {u \in T : h[u] = b} = {}
    BY <1>2
  <2> QED
    BY <1>2, <2>1, FS_EmptySet
<1> QED
  BY <1>1, <1>2

LEMMA OwnedOneOwner ==
    ASSUME Owned
    PROVE  OneOwner
<1> SUFFICES ASSUME NEW b \in Buffers
             PROVE  /\ Referring(b) = refs[b]
                    /\ Pooled(b) + Handling(b) + (IF refs[b] > 0 THEN 1 ELSE 0)
                         = (IF b \in live THEN 1 ELSE 0)
  BY DEF OneOwner
<1>1. /\ Cardinality({i \in DOMAIN container_ : container_[i] = b})
           = IF b \in Range(container_) THEN 1 ELSE 0
      /\ Cardinality({i \in DOMAIN swaps : swaps[i] = b}) = IF b \in Range(swaps) THEN 1 ELSE 0
      /\ Pooled(b) = IF b \in Free THEN 1 ELSE 0
  BY CountInjective DEF Owned, OwnType, Distinct, Pooled, Free
<1>2. Cardinality({t \in Producers : ppc[t] \in {"push", "drop"} /\ rel[t] = "no" /\ hand[t] = b})
        = IF b \in Held THEN 1 ELSE 0
  <2>1. {t \in Producers : ppc[t] \in {"push", "drop"} /\ rel[t] = "no" /\ hand[t] = b}
          = {t \in Holders : hand[t] = b}
    BY DEF Holders
  <2>2. \A t, u \in Holders : hand[t] = hand[u] => t = u
    BY DEF Owned, Distinct
  <2>3. Cardinality({t \in Holders : hand[t] = b})
          = IF b \in {hand[t] : t \in Holders} THEN 1 ELSE 0
    BY <2>2, CountHands
  <2> QED
    BY <2>1, <2>3 DEF Held
<1>3. Handling(b) = IF b \in Released THEN 1 ELSE 0
  <2>1. {t \in Threads : hand[t] = b /\ rel[t] # "no"} = {t \in Releasers : hand[t] = b}
    BY DEF Releasers
  <2>2. \A t, u \in Releasers : hand[t] = hand[u] => t = u
    BY DEF Owned, Distinct
  <2>3. Cardinality({t \in Releasers : hand[t] = b})
          = IF b \in {hand[t] : t \in Releasers} THEN 1 ELSE 0
    BY <2>2, CountHands
  <2> QED
    BY <2>1, <2>3 DEF Released, Handling
<1>4. ~(b \in Range(container_) /\ b \in Range(swaps))
  BY DEF Owned, Distinct
<1>5. Referring(b) = refs[b]
  BY <1>1, <1>2, <1>4 DEF Owned, Counted, Queued, Referring
<1>6. refs[b] > 0 <=> b \in Queued \cup Held
  BY DEF Owned, Counted
<1> QED
  BY <1>1, <1>3, <1>5, <1>6 DEF Owned, Exclusive

\* Every variable has its type, the use counts of the buffers among them.
THEOREM TypeCorrect == Spec => []TypeOK
<1>1. LInv => TypeOK
  <2> SUFFICES ASSUME LInv PROVE TypeOK
    OBVIOUS
  <2>1. \A b \in Buffers : refs[b] \in 0..2
    BY DEF LInv, Owned, Counted
  <2>2. refs \in [Buffers -> 0..2]
    BY <2>1 DEF LInv, Owned, OwnType
  <2> QED
    BY <2>2 DEF LInv, Owned, OwnType, FlowType, TypeOK
<1> QED
  BY <1>1, LinesInvariance, PTL DEF Spec

\* A buffer is shared, or free in the pool, or on its way back to it in the hands of one
\* thread, and its use count is the number of its owners: no two threads ever write into
\* one buffer and none is lost (logger::logstring, object_pool::create and release).
THEOREM EachBufferOneOwner == Spec => []OneOwner
<1>1. LInv => OneOwner
  BY OwnedOneOwner DEF LInv
<1> QED
  BY <1>1, LinesInvariance, PTL DEF Spec

\* Lines are written once each, in the order in which they were pushed, and from buffers
\* that still hold them (logger::logstring and logger::write).
THEOREM LinesStayInOrder == Spec => []InOrder
<1>1. LInv => InOrder
  BY DEF LInv, Told
<1> QED
  BY <1>1, LinesInvariance, PTL DEF Spec

\* When wait() returns, all that was logged before it was called has been written
\* (logger::wait).
THEOREM WaitFlushes == Spec => []FlushedWhenClosed
<1>1. LInv => FlushedWhenClosed
  BY DEF LInv, Phases, Flushed, FlowType, FlushedWhenClosed
<1> QED
  BY <1>1, LinesInvariance, PTL DEF Spec
=============================================================================
