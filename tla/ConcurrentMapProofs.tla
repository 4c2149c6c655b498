------------------------ MODULE ConcurrentMapProofs ------------------------
(***************************************************************************)
(* Theorems about ConcurrentMap, for any finite set of threads: the count  *)
(* of readers is exact, the lock excludes, and the map under it behaves    *)
(* like an atomic one.                                                     *)
(***************************************************************************)
EXTENDS ConcurrentMap, FiniteSetTheorems, TLAPS

\* write_ is set exactly while a writer has announced itself, and one at most has.
\* A thread between its lookup and its change knows whether the entry exists, and the
\* table is torn only during a change.  Only readers read and only setters write.
LockOK ==
    /\ \A t, u \in Announced : t = u
    /\ write_ <=> Announced # {}
    /\ \A t \in Threads : pc[t] = "w_store" => found[t] = data_
    /\ torn => \E t \in Threads : pc[t] = "w_commit"
    /\ \A t \in Threads :
           /\ pc[t] \in {"r_spin", "r_add", "r_check", "r_undo", "reading", "r_unlock"}
                => op[t] = "try_get_value"
           /\ pc[t] \in {"w_spin", "w_drain", "w_find", "w_store", "w_commit", "w_unlock"}
                => op[t] \in {"try_set", "set"}

IInv == TypeOK /\ LockOK /\ MutualExclusion

\* One reader more is counted when it arrives.
LEMMA OneMore ==
    ASSUME NEW S, NEW T, IsFiniteSet(T), S \subseteq T, NEW t \in T, t \notin S
    PROVE  Cardinality(S \cup {t}) = Cardinality(S) + 1
  BY FS_Subset, FS_AddElement

\* One reader less is counted when it leaves.
LEMMA OneLess ==
    ASSUME NEW S, NEW T, IsFiniteSet(T), S \subseteq T, NEW t \in S
    PROVE  Cardinality(S \ {t}) = Cardinality(S) - 1
  BY FS_Subset, FS_RemoveElement

\* A count of zero means that there is no reader.
LEMMA NoReader ==
    ASSUME NEW S, NEW T, IsFiniteSet(T), S \subseteq T, Cardinality(S) = 0
    PROVE  S = {}
  BY FS_Subset, FS_EmptySet

\* The initial state satisfies the invariant.
LEMMA InitInv == Init => IInv
  <1> SUFFICES ASSUME Init
               PROVE  IInv
    OBVIOUS
  <1>1. Counted = {} /\ Announced = {} /\ Writers = {}
    BY DEF Init, Counted, Announced, Writers
  <1>2. Cardinality(Counted) = 0
    BY <1>1, FS_EmptySet
  <1> QED
    BY <1>1, <1>2, ThreadsAssumption
    DEF Init, IInv, TypeOK, LockOK, MutualExclusion

\* The steps that count a reader or take it back keep read_ exact.
LEMMA StepCount ==
    ASSUME TypeOK, [Next]_vars
    PROVE  read_' = Cardinality(Counted')
  <1> USE ThreadsAssumption
  <1>0. Counted \subseteq Threads /\ IsFiniteSet(Threads)
    BY DEF Counted
  <1>1. ASSUME Counted' = Counted, read_' = read_
        PROVE  read_' = Cardinality(Counted')
    BY <1>1 DEF TypeOK
  <1>2. ASSUME NEW t \in Threads, CountReader(t)
        PROVE  read_' = Cardinality(Counted')
    <2>1. t \notin Counted /\ Counted' = Counted \cup {t}
      BY <1>2 DEF TypeOK, CountReader, Move, Counted
    <2> QED
      BY <1>0, <1>2, <2>1, OneMore DEF TypeOK, CountReader
  <1>3. ASSUME NEW t \in Threads, Retreat(t) \/ UnlockShared(t)
        PROVE  read_' = Cardinality(Counted')
    <2>1. t \in Counted /\ Counted' = Counted \ {t}
      BY <1>3 DEF TypeOK, Retreat, UnlockShared, Move, Counted
    <2> QED
      BY <1>0, <1>3, <2>1, OneLess DEF TypeOK, Retreat, UnlockShared
  <1>4. ASSUME NEW t \in Threads,
               \/ BeginGet(t) \/ SeeNoWriter(t) \/ CheckWriter(t) \/ Read(t)
               \/ BeginSet(t) \/ TakeWrite(t) \/ WaitReaders(t) \/ Find(t)
               \/ Store(t) \/ Refuse(t) \/ Commit(t) \/ Unlock(t)
        PROVE  read_' = Cardinality(Counted')
    <2>1. Counted' = Counted
      BY <1>4 DEF TypeOK, Counted, Move, BeginGet, SeeNoWriter, CheckWriter, Read,
                  BeginSet, TakeWrite, WaitReaders, Find, Store, Refuse, Commit, Unlock
    <2> QED
      BY <1>1, <1>4, <2>1 DEF BeginGet, SeeNoWriter, CheckWriter, Read, BeginSet,
                              TakeWrite, WaitReaders, Find, Store, Refuse, Commit,
                              Unlock
  <1>5. CASE UNCHANGED vars
    BY <1>1, <1>5 DEF vars, Counted
  <1> QED
    BY <1>2, <1>3, <1>4, <1>5 DEF Next, Step

\* Every step has a well-typed result.
LEMMA StepTypeOK == TypeOK /\ [Next]_vars => TypeOK'
  <1> SUFFICES ASSUME TypeOK, [Next]_vars
               PROVE  TypeOK'
    OBVIOUS
  <1>1. read_' = Cardinality(Counted')
    BY StepCount
  <1> USE DEF TypeOK, Move
  <1>2. ASSUME NEW t \in Threads,
               \/ BeginGet(t) \/ SeeNoWriter(t) \/ CountReader(t) \/ CheckWriter(t)
               \/ Retreat(t) \/ UnlockShared(t) \/ BeginSet(t) \/ WaitReaders(t)
        PROVE  TypeOK'
    BY <1>1, <1>2 DEF BeginGet, SeeNoWriter, CountReader, CheckWriter, Retreat,
                      UnlockShared, BeginSet, WaitReaders
  <1>3. ASSUME NEW t \in Threads, Read(t) \/ Find(t)
        PROVE  TypeOK'
    BY <1>1, <1>3 DEF Read, Find, Looked
  <1>4. ASSUME NEW t \in Threads, TakeWrite(t) \/ Unlock(t)
        PROVE  TypeOK'
    BY <1>1, <1>4 DEF TakeWrite, Unlock
  <1>5. ASSUME NEW t \in Threads, Store(t) \/ Refuse(t) \/ Commit(t)
        PROVE  TypeOK'
    BY <1>1, <1>5 DEF Store, Refuse, Commit
  <1>6. CASE UNCHANGED vars
    BY <1>1, <1>6 DEF vars
  <1> QED
    BY <1>2, <1>3, <1>4, <1>5, <1>6 DEF Next, Step

\* Every step preserves the invariant of the lock and of the table.
LEMMA StepInv == IInv /\ [Next]_vars => IInv'
  <1> SUFFICES ASSUME IInv, [Next]_vars
               PROVE  IInv'
    OBVIOUS
  <1> DEFINE Rest == LockOK /\ MutualExclusion
  <1> USE ThreadsAssumption DEF IInv, LockOK, MutualExclusion, Announced, Writers, Readers
  <1>1. ASSUME NEW t \in Threads, BeginGet(t) \/ BeginSet(t) \/ SeeNoWriter(t)
                                  \/ CountReader(t) \/ Retreat(t) \/ UnlockShared(t)
        PROVE  Rest'
    BY <1>1 DEF TypeOK, Move, BeginGet, BeginSet, SeeNoWriter, CountReader, Retreat,
                UnlockShared
  <1>2. ASSUME NEW t \in Threads, CheckWriter(t)
        PROVE  Rest'
    BY <1>2 DEF TypeOK, Move, CheckWriter
  <1>3. ASSUME NEW t \in Threads, Read(t)
        PROVE  Rest'
    BY <1>3 DEF TypeOK, Move, Read
  <1>4. ASSUME NEW t \in Threads, TakeWrite(t)
        PROVE  Rest'
    BY <1>4 DEF TypeOK, Move, TakeWrite
  <1>5. ASSUME NEW t \in Threads, WaitReaders(t)
        PROVE  Rest'
    <2>1. Counted = {}
      <3>1. Cardinality(Counted) = 0
        BY <1>5 DEF TypeOK, WaitReaders
      <3>2. IsFiniteSet(Threads) /\ Counted \subseteq Threads
        BY DEF Counted
      <3> QED
        BY <3>1, <3>2, NoReader
    <2>2. Readers = {}
      BY <2>1 DEF Counted
    <2> QED
      BY <1>5, <2>2 DEF TypeOK, Move, WaitReaders
  <1>6. ASSUME NEW t \in Threads, Find(t)
        PROVE  Rest'
    BY <1>6 DEF TypeOK, Move, Find, Looked
  <1>7. ASSUME NEW t \in Threads, Store(t) \/ Refuse(t) \/ Commit(t)
        PROVE  Rest'
    BY <1>7 DEF TypeOK, Move, Store, Refuse, Commit
  <1>8. ASSUME NEW t \in Threads, Unlock(t)
        PROVE  Rest'
    BY <1>8 DEF TypeOK, Move, Unlock
  <1>9. ASSUME UNCHANGED vars
        PROVE  Rest'
    BY <1>9 DEF TypeOK, vars
  <1>10. Rest'
    BY <1>1, <1>2, <1>3, <1>4, <1>5, <1>6, <1>7, <1>8, <1>9 DEF Next, Step
  <1>11. TypeOK'
    BY StepTypeOK
  <1> QED
    BY <1>10, <1>11

\* The invariant holds in every reachable state.
LEMMA Invariance == SafeSpec => []IInv
  BY InitInv, StepInv, PTL DEF SafeSpec

-----------------------------------------------------------------------------

\* read_ counts the threads inside or retreating, whatever the interleaving.
THEOREM ReadersAreCounted == SafeSpec => []TypeOK
  BY Invariance, PTL DEF IInv

\* The read-write lock excludes, for any number of threads.
THEOREM LockExcludes == SafeSpec => []MutualExclusion
  BY Invariance, PTL DEF IInv

-----------------------------------------------------------------------------
(* The refinement. *)

\* A step of t that leaves the other threads' places and finds alone changes no answer
\* and no call but those of t.
LEMMA OwnView ==
    ASSUME TypeOK, NEW t \in Threads, NEW place, NEW f,
           pc' = [pc EXCEPT ![t] = place], found' = [found EXCEPT ![t] = f],
           op' = op
    PROVE  /\ Calls' = [Calls EXCEPT ![t] = CallOf(t)']
           /\ Answers' = [Answers EXCEPT ![t] = AnswerOf(t)']
  BY DEF TypeOK, Calls, Answers, CallOf, AnswerOf, Changes

LEMMA AMInit == Init => AM!Init
  BY DEF Init, AM!Init, Calls, Answers, CallOf, AnswerOf

\* Every step of the map is one of the atomic map, or invisible.
LEMMA AMStep ==
    ASSUME IInv, [Next]_vars
    PROVE  [AM!Next]_(AM!vars)
  <1> USE ThreadsAssumption DEF IInv
  <1> DEFINE Own(t) == /\ Calls' = [Calls EXCEPT ![t] = CallOf(t)']
                       /\ Answers' = [Answers EXCEPT ![t] = AnswerOf(t)']
  <1>1. ASSUME NEW t \in Threads, BeginGet(t) \/ BeginSet(t)
        PROVE  AM!Next
    <2>1. PICK o \in AM!Operations :
              /\ pc[t] = "idle"
              /\ pc' = [pc EXCEPT ![t] = IF o = "try_get_value" THEN "r_spin" ELSE "w_spin"]
              /\ op' = [op EXCEPT ![t] = o]
              /\ UNCHANGED <<found, data_>>
      BY <1>1 DEF BeginGet, BeginSet, Move, AM!Operations
    <2>2. AM!Call(t, o)
      BY <2>1 DEF TypeOK, AM!Call, Calls, Answers, CallOf, AnswerOf, Changes, AM!Operations
    <2> QED
      BY <2>2 DEF AM!Next
  <1>2. ASSUME NEW t \in Threads, Read(t)
        PROVE  AM!Next
    <2>1. ~torn
      BY <1>2 DEF TypeOK, LockOK, MutualExclusion, Writers, Readers, Read, Move
    <2>2. Own(t)
      BY <1>2, <2>1, OwnView DEF Read, Move, Looked
    <2>3. CallOf(t) = op[t] /\ CallOf(t)' = CallOf(t) /\ AnswerOf(t) = Pending
      BY <1>2 DEF TypeOK, Read, Move, CallOf, AnswerOf
    <2>4. AnswerOf(t)' = data_ /\ op[t] = "try_get_value"
      BY <1>2, <2>1 DEF TypeOK, LockOK, Read, Move, Looked, AnswerOf
    <2>5. AM!Get(t)
      BY <1>2, <2>2, <2>3, <2>4 DEF AM!Get, AM!Answer, Calls, Answers, Read
    <2> QED
      BY <2>5 DEF AM!Next
  <1>3. ASSUME NEW t \in Threads, Store(t) \/ Refuse(t)
        PROVE  AM!Next
    <2>1. Own(t)
      BY <1>3, OwnView DEF TypeOK, Store, Refuse, Move
    <2>2. CallOf(t) = op[t] /\ CallOf(t)' = CallOf(t) /\ AnswerOf(t) = Pending
      BY <1>3 DEF TypeOK, Store, Refuse, Move, CallOf, AnswerOf
    <2>3. found[t] = data_ /\ op[t] \in {"try_set", "set"}
      BY <1>3 DEF TypeOK, LockOK, Store, Refuse, Move
    <2>4. CASE op[t] = "set"
      <3>1. data_' = t /\ AnswerOf(t)' = "stored"
        BY <1>3, <2>4 DEF TypeOK, Store, Refuse, Move, Changes, AnswerOf
      <3>2. AM!Set(t)
        BY <2>1, <2>2, <2>4, <3>1 DEF AM!Set, AM!Answer, Calls, Answers
      <3> QED
        BY <3>2 DEF AM!Next
    <2>5. CASE op[t] = "try_set"
      <3>1. /\ data_' = IF data_ = Nobody THEN t ELSE data_
            /\ AnswerOf(t)' = IF data_ = Nobody THEN "stored" ELSE "refused"
        BY <1>3, <2>3, <2>5 DEF TypeOK, Store, Refuse, Move, Changes, AnswerOf
      <3>2. AM!TrySet(t)
        BY <2>1, <2>2, <2>5, <3>1 DEF AM!TrySet, AM!Answer, Calls, Answers
      <3> QED
        BY <3>2 DEF AM!Next
    <2> QED
      BY <2>3, <2>4, <2>5
  <1>4. ASSUME NEW t \in Threads, UnlockShared(t) \/ Unlock(t)
        PROVE  AM!Next
    <2>1. Own(t) /\ data_' = data_
      <3>1. pc' = [pc EXCEPT ![t] = "idle"] /\ UNCHANGED <<op, found, data_>>
        BY <1>4 DEF UnlockShared, Unlock, Move
      <3>2. found' = [found EXCEPT ![t] = found[t]]
        BY <3>1 DEF TypeOK
      <3> QED
        BY <3>1, <3>2, OwnView
    <2>2. CallOf(t)' = "none" /\ AnswerOf(t)' = Pending
      BY <1>4 DEF TypeOK, UnlockShared, Unlock, Move, CallOf, AnswerOf
    <2>3. AnswerOf(t) # Pending
      BY <1>4 DEF TypeOK, UnlockShared, Unlock, Move, AnswerOf
    <2>4. AM!Return(t)
      BY <2>1, <2>2, <2>3 DEF AM!Return, Calls, Answers
    <2> QED
      BY <2>4 DEF AM!Next
  <1>5. ASSUME NEW t \in Threads,
               \/ SeeNoWriter(t) \/ CountReader(t) \/ CheckWriter(t) \/ Retreat(t)
               \/ TakeWrite(t) \/ WaitReaders(t) \/ Find(t) \/ Commit(t)
        PROVE  UNCHANGED AM!vars
    <2>1. PICK place, f :
              /\ pc' = [pc EXCEPT ![t] = place] /\ found' = [found EXCEPT ![t] = f]
              /\ UNCHANGED <<op, data_>>
              /\ \/ /\ pc[t] \notin {"idle", "r_unlock", "w_commit", "w_unlock"}
                    /\ place \notin {"idle", "r_unlock", "w_commit", "w_unlock"}
                 \/ pc[t] = "w_commit" /\ place = "w_unlock" /\ f = found[t]
      <3>1. found' = found => found' = [found EXCEPT ![t] = found[t]]
        BY DEF TypeOK
      <3> QED
        BY <1>5, <3>1 DEF SeeNoWriter, CountReader, CheckWriter, Retreat, TakeWrite,
                          WaitReaders, Find, Commit, Move
    <2>2. Own(t)
      BY <2>1, OwnView
    <2>3. CallOf(t)' = CallOf(t) /\ AnswerOf(t)' = AnswerOf(t)
      BY <2>1 DEF TypeOK, CallOf, AnswerOf, Changes
    <2> QED
      BY <2>1, <2>2, <2>3 DEF AM!vars, Calls, Answers
  <1>6. CASE UNCHANGED vars
    BY <1>6 DEF vars, AM!vars, Calls, Answers, CallOf, AnswerOf, Changes
  <1> QED
    BY <1>1, <1>2, <1>3, <1>4, <1>5, <1>6 DEF Next, Step

\* The map under its lock implements the atomic map, for any number of threads: reads,
\* try_set and set each take effect at one instant, and of all threads that try to set
\* a unique name one is told that it did.
THEOREM RefinesAtomicMap == SafeSpec => ImplementsAtomicMap
  <1>1. SafeSpec => []IInv
    BY Invariance
  <1>2. IInv /\ [Next]_vars => [AM!Next]_(AM!vars)
    BY AMStep
  <1> QED
    BY <1>1, <1>2, AMInit, PTL DEF SafeSpec, ImplementsAtomicMap, AM!Spec
=============================================================================
