------------------------- MODULE WorkerQueueProofs -------------------------
(***************************************************************************)
(* Theorems about WorkerQueue, for any set of sending threads and any      *)
(* bounds: no wake-up is lost, at most one update event is outstanding,    *)
(* and the two queues implement the abstract mailbox (its safety part).    *)
(***************************************************************************)
EXTENDS WorkerQueue, SequenceTheorems, TLAPS

\* The worker runs tasks only while it has not exited, and swapmq_ is empty except
\* while the drain task handles it.
WorkerOK ==
    /\ wpc \notin {"loop", "stopped"} => state_ = "ready"
    /\ wpc # "handling" => swapmq_ = <<>>

\* Only main posts update events.
MainOK == \A t \in Threads : pc[t] = "post_update" => t = Main

IInv == TypeOK /\ NoLostWakeup /\ AtMostOneUpdate /\ WorkerOK /\ MainOK

-----------------------------------------------------------------------------
(* Facts about sequences. *)

\* An element of a queue is still there, and at the same place, after an append.
LEMMA AppendKeeps ==
    ASSUME NEW S, NEW s \in Seq(S), NEW e \in S
    PROVE  /\ Append(s, e) \in Seq(S)
           /\ Len(Append(s, e)) = Len(s) + 1
           /\ \A i \in 1..Len(s) : Append(s, e)[i] = s[i]
           /\ Append(s, e)[Len(s) + 1] = e
  OBVIOUS

\* What is left of a queue when its front is popped.
LEMMA TailKeeps ==
    ASSUME NEW S, NEW s \in Seq(S), s # <<>>
    PROVE  /\ Head(s) \in S
           /\ Head(s) = s[1]
           /\ Tail(s) \in Seq(S)
           /\ Len(s) \in Nat \ {0}
           /\ Len(Tail(s)) = Len(s) - 1
           /\ \A i \in 1..Len(Tail(s)) : i + 1 \in 1..Len(s) /\ Tail(s)[i] = s[i + 1]
  OBVIOUS

\* Appending to the second of two queues appends to both together.
LEMMA ConcatAppend ==
    ASSUME NEW S, NEW s \in Seq(S), NEW r \in Seq(S), NEW e \in S
    PROVE  s \o Append(r, e) = Append(s \o r, e)
  OBVIOUS

\* Popping the first of two queues pops both together.
LEMMA ConcatTail ==
    ASSUME NEW S, NEW s \in Seq(S), NEW r \in Seq(S), s # <<>>
    PROVE  /\ s \o r # <<>>
           /\ Head(s \o r) = Head(s)
           /\ Tail(s \o r) = Tail(s) \o r
  OBVIOUS

\* An empty queue adds nothing.
LEMMA ConcatEmpty ==
    ASSUME NEW S, NEW s \in Seq(S)
    PROVE  s \o <<>> = s /\ <<>> \o s = s
  OBVIOUS

-----------------------------------------------------------------------------
(* The inductive invariant. *)

\* The initial state satisfies it.
LEMMA InitInv == Init => IInv
  <1> SUFFICES ASSUME Init
               PROVE  IInv
    OBVIOUS
  <1>1. TypeOK
    <2>1. pc \in [Threads -> Program] /\ sent \in [Threads -> 0..MaxSend]
      BY BoundsAssumption DEF Init, Program
    <2>2. <<>> \in Seq(Task) /\ <<>> \in Seq(Message)
      OBVIOUS
    <2>3. commands \in 0..MaxCommands
      BY BoundsAssumption DEF Init
    <2> QED
      BY <2>1, <2>2, <2>3 DEF Init, TypeOK, WorkerProgram
  <1>2. \A task : ~Queued(task)
    BY DEF Init, Queued
  <1>3. AtMostOneUpdate
    BY <1>2 DEF Init, AtMostOneUpdate, Threads
  <1>4. NoLostWakeup /\ WorkerOK /\ MainOK
    BY DEF Init, NoLostWakeup, WorkerOK, MainOK
  <1> QED
    BY <1>1, <1>3, <1>4 DEF IInv

\* A popped task makes a queued one of another kind no less queued.
LEMMA PopQueued ==
    ASSUME TypeOK, queue_ # <<>>, queue_' = Tail(queue_), NEW task \in Task
    PROVE  /\ Queued(task) => Queued(task)' \/ Head(queue_) = task
           /\ Queued(task)' => Queued(task)
  <1>1. /\ Head(queue_) = queue_[1]
        /\ Len(queue_) \in Nat \ {0}
        /\ Len(queue_') = Len(queue_) - 1
        /\ \A i \in 1..Len(queue_') : i + 1 \in 1..Len(queue_) /\ queue_'[i] = queue_[i + 1]
    BY TailKeeps DEF TypeOK
  <1>2. ASSUME NEW i \in 1..Len(queue_), queue_[i] = task
        PROVE  Queued(task)' \/ Head(queue_) = task
    <2>1. CASE i = 1
      BY <1>1, <1>2, <2>1
    <2>2. CASE i # 1
      <3>1. i - 1 \in 1..Len(queue_') /\ queue_'[i - 1] = queue_[i]
        BY <1>1, <2>2
      <3> QED
        BY <1>2, <3>1 DEF Queued
    <2> QED
      BY <2>1, <2>2
  <1>3. Queued(task)' => Queued(task)
    BY <1>1 DEF Queued
  <1> QED
    BY <1>2, <1>3 DEF Queued

\* An appended task is queued, and so is what was queued before.
LEMMA PostQueued ==
    ASSUME TypeOK, NEW t \in Task, queue_' = Append(queue_, t), NEW task \in Task
    PROVE  Queued(task)' <=> Queued(task) \/ t = task
  <1>1. /\ Len(queue_) \in Nat
        /\ Len(queue_') = Len(queue_) + 1
        /\ \A i \in 1..Len(queue_) : queue_'[i] = queue_[i]
        /\ queue_'[Len(queue_) + 1] = t
    BY AppendKeeps DEF TypeOK
  <1>2. \A i \in 1..Len(queue_') : i \in 1..Len(queue_) \/ i = Len(queue_) + 1
    BY <1>1
  <1>3. Queued(task) => Queued(task)'
    BY <1>1 DEF Queued
  <1>4. t = task => Queued(task)'
    BY <1>1, Len(queue_) + 1 \in 1..Len(queue_') DEF Queued
  <1>5. Queued(task)' => Queued(task) \/ t = task
    BY <1>1, <1>2 DEF Queued
  <1> QED
    BY <1>3, <1>4, <1>5

\* Every step has a well-typed result.
LEMMA StepTypeOK == TypeOK /\ [Next]_vars => TypeOK'
  <1> SUFFICES ASSUME TypeOK, [Next]_vars
               PROVE  TypeOK'
    OBVIOUS
  <1> USE ThreadsAssumption, BoundsAssumption DEF Threads, Program, WorkerProgram, Task
  <1>1. ASSUME NEW t \in Senders \cup {Self}, SendPush(t)
        PROVE  TypeOK'
    <2>1. [from |-> t, n |-> sent[t] + 1] \in Message
      BY <1>1 DEF TypeOK, SendPush, Message
    <2>2. mq_' \in Seq(Message)
      BY <1>1, <2>1, AppendKeeps DEF TypeOK, SendPush
    <2> QED
      BY <1>1, <2>2 DEF TypeOK, SendPush
  <1>2. ASSUME NEW t \in Senders \cup {Self}, SendPost(t)
        PROVE  TypeOK'
    BY <1>2, AppendKeeps DEF TypeOK, SendPost
  <1>3. ASSUME NEW t \in Senders \cup {Self}, PostCommand(t)
        PROVE  TypeOK'
    BY <1>3, AppendKeeps DEF TypeOK, PostCommand
  <1>4. CASE UpdateTestAndSet
    BY <1>4 DEF TypeOK, UpdateTestAndSet
  <1>5. CASE UpdatePost
    BY <1>5, AppendKeeps DEF TypeOK, UpdatePost
  <1>6. CASE PopTask
    <2>1. Head(queue_) \in Task /\ queue_' \in Seq(Task)
      BY <1>6, TailKeeps DEF TypeOK, PopTask
    <2> QED
      BY <1>6, <2>1 DEF TypeOK, PopTask, TaskEntry
  <1>7. CASE LeaveLoop
    BY <1>7 DEF TypeOK, LeaveLoop
  <1>8. CASE DrainSize
    BY <1>8 DEF TypeOK, DrainSize
  <1>9. CASE DrainSwap
    BY <1>9 DEF TypeOK, DrainSwap
  <1>10. CASE DrainHandle
    BY <1>10, TailKeeps, AppendKeeps DEF TypeOK, DrainHandle
  <1>11. CASE DrainDone
    BY <1>11 DEF TypeOK, DrainDone
  <1>12. CASE UpdateDone
    BY <1>12 DEF TypeOK, UpdateDone
  <1>13. CASE CommandDone
    BY <1>13 DEF TypeOK, CommandDone
  <1>14. CASE UNCHANGED vars
    BY <1>14 DEF TypeOK, vars
  <1> QED
    BY <1>1, <1>2, <1>3, <1>4, <1>5, <1>6, <1>7, <1>8, <1>9, <1>10, <1>11, <1>12, <1>13,
       <1>14 DEF Next, WorkerStep

\* No wake-up is lost in a step.
LEMMA StepNoLostWakeup == TypeOK /\ NoLostWakeup /\ [Next]_vars => NoLostWakeup'
  <1> SUFFICES ASSUME TypeOK, NoLostWakeup, [Next]_vars
               PROVE  NoLostWakeup'
    OBVIOUS
  <1> USE ThreadsAssumption DEF Threads
  <1>1. ASSUME NEW t \in Senders \cup {Self}, SendPush(t)
        PROVE  NoLostWakeup'
    <2>1. CASE mq_ = <<>>
      <3>1. pc'[t] = "post_drain"
        BY <1>1, <2>1 DEF TypeOK, SendPush
      <3> QED
        BY <3>1 DEF NoLostWakeup
    <2>2. CASE mq_ # <<>>
      <3>1. \A u \in Threads : pc[u] = "post_drain" => pc'[u] = "post_drain"
        BY <1>1 DEF TypeOK, SendPush, MaySend
      <3> QED
        BY <1>1, <2>2, <3>1 DEF NoLostWakeup, SendPush, Queued
    <2> QED
      BY <2>1, <2>2
  <1>2. ASSUME NEW t \in Senders \cup {Self}, SendPost(t)
        PROVE  NoLostWakeup'
    <2>1. Queued("drain")'
      BY <1>2, PostQueued DEF SendPost, Task
    <2> QED
      BY <2>1 DEF NoLostWakeup
  <1>3. ASSUME NEW t \in Senders \cup {Self}, PostCommand(t)
        PROVE  NoLostWakeup'
    <2>1. Queued("drain") => Queued("drain")'
      BY <1>3, PostQueued DEF PostCommand, Task
    <2> QED
      BY <1>3, <2>1 DEF NoLostWakeup, PostCommand
  <1>4. CASE UpdateTestAndSet
    <2>1. \A u \in Threads : pc[u] = "post_drain" => pc'[u] = "post_drain"
      BY <1>4 DEF TypeOK, UpdateTestAndSet
    <2> QED
      BY <1>4, <2>1 DEF NoLostWakeup, UpdateTestAndSet, Queued
  <1>5. CASE UpdatePost
    <2>1. Queued("drain") => Queued("drain")'
      BY <1>5, PostQueued DEF UpdatePost, Task
    <2>2. \A u \in Threads : pc[u] = "post_drain" => pc'[u] = "post_drain"
      BY <1>5 DEF TypeOK, UpdatePost
    <2> QED
      BY <1>5, <2>1, <2>2 DEF NoLostWakeup, UpdatePost
  <1>6. CASE PopTask
    <2>1. Queued("drain") => Queued("drain")' \/ wpc' = "drain_size"
      BY <1>6, PopQueued DEF PopTask, Task, TaskEntry
    <2> QED
      BY <1>6, <2>1 DEF NoLostWakeup, PopTask, WorkerAt
  <1>7. CASE DrainSize
    BY <1>7 DEF TypeOK, NoLostWakeup, DrainSize, Queued
  <1>8. CASE DrainSwap
    BY <1>8 DEF NoLostWakeup, DrainSwap
  <1>9. CASE LeaveLoop \/ DrainHandle \/ DrainDone \/ UpdateDone \/ CommandDone
    BY <1>9 DEF NoLostWakeup, LeaveLoop, DrainHandle, DrainDone, UpdateDone, CommandDone,
                WorkerAt, Queued
  <1>10. CASE UNCHANGED vars
    BY <1>10 DEF NoLostWakeup, vars, Queued
  <1> QED
    BY <1>1, <1>2, <1>3, <1>4, <1>5, <1>6, <1>7, <1>8, <1>9, <1>10 DEF Next, WorkerStep

\* At most one update event is outstanding after a step.
LEMMA StepAtMostOneUpdate == IInv /\ [Next]_vars => AtMostOneUpdate'
  <1> SUFFICES ASSUME IInv, [Next]_vars
               PROVE  AtMostOneUpdate'
    OBVIOUS
  <1> USE ThreadsAssumption DEF Threads, IInv
  <1>1. ASSUME queue_' = queue_ \/ queue_' = Append(queue_, "drain")
                                \/ queue_' = Append(queue_, "command"),
               pc'[Main] = pc[Main],
               wpc' = wpc \/ wpc' # "updating",
               UNCHANGED update_state_
        PROVE  AtMostOneUpdate'
    <2>1. Queued("update")' <=> Queued("update")
      BY <1>1, PostQueued DEF Task, Queued
    <2>2. \A i, j \in 1..Len(queue_') :
              queue_'[i] = "update" /\ queue_'[j] = "update" => i = j
      <3>1. CASE queue_' = queue_
        BY <3>1 DEF AtMostOneUpdate
      <3>2. ASSUME NEW e \in Task, e # "update", queue_' = Append(queue_, e)
            PROVE  \A i, j \in 1..Len(queue_') :
                       queue_'[i] = "update" /\ queue_'[j] = "update" => i = j
        <4>1. /\ Len(queue_) \in Nat
              /\ Len(queue_') = Len(queue_) + 1
              /\ \A i \in 1..Len(queue_) : queue_'[i] = queue_[i]
              /\ queue_'[Len(queue_) + 1] # "update"
          BY <3>2, AppendKeeps DEF TypeOK
        <4>2. \A i \in 1..Len(queue_') : i \in 1..Len(queue_) \/ i = Len(queue_) + 1
          BY <4>1
        <4> QED
          BY <4>1, <4>2 DEF AtMostOneUpdate
      <3> QED
        BY <1>1, <3>1, <3>2 DEF Task
    <2> QED
      BY <1>1, <2>1, <2>2 DEF AtMostOneUpdate
  <1>2. ASSUME NEW t \in Senders \cup {Self}, SendPush(t) \/ SendPost(t) \/ PostCommand(t)
        PROVE  AtMostOneUpdate'
    BY <1>1, <1>2 DEF TypeOK, SendPush, SendPost, PostCommand
  <1>3. CASE UpdateTestAndSet
    BY <1>3 DEF TypeOK, AtMostOneUpdate, UpdateTestAndSet, Queued
  <1>4. CASE UpdatePost
    <2>1. ~Queued("update") /\ Queued("update")'
      BY <1>4, PostQueued DEF AtMostOneUpdate, UpdatePost, Task
    <2>2. \A i, j \in 1..Len(queue_') :
              queue_'[i] = "update" /\ queue_'[j] = "update" => i = j
      BY <1>4, <2>1, AppendKeeps DEF TypeOK, Task, UpdatePost, Queued
    <2> QED
      BY <1>4, <2>1, <2>2 DEF TypeOK, AtMostOneUpdate, UpdatePost
  <1>5. CASE PopTask
    <2> DEFINE n == Len(queue_)
    <2>1. /\ n \in Nat \ {0}
          /\ Head(queue_) = queue_[1]
          /\ Head(queue_) \in Task
          /\ Len(queue_') = n - 1
          /\ \A i \in 1..(n - 1) : i + 1 \in 1..n /\ queue_'[i] = queue_[i + 1]
      BY <1>5, TailKeeps DEF TypeOK, PopTask
    <2>2. \A i, j \in 1..Len(queue_') :
              queue_'[i] = "update" /\ queue_'[j] = "update" => i = j
      BY <2>1 DEF AtMostOneUpdate
    <2>3. Head(queue_) = "update" => ~Queued("update")'
      BY <2>1 DEF AtMostOneUpdate, Queued
    <2>4. Queued("update")' => Queued("update")
      BY <1>5, PopQueued DEF PopTask, Task
    <2>5. wpc' = "updating" <=> Head(queue_) = "update"
      BY <1>5, <2>1 DEF PopTask, TaskEntry, Task
    <2>6. Head(queue_) = "update" => Queued("update")
      BY <2>1 DEF Queued
    <2> QED
      BY <1>5, <2>2, <2>3, <2>4, <2>5, <2>6 DEF AtMostOneUpdate, PopTask
  <1>6. CASE LeaveLoop \/ DrainSize \/ DrainSwap \/ DrainHandle \/ DrainDone \/ CommandDone
    BY <1>1, <1>6 DEF LeaveLoop, DrainSize, DrainSwap, DrainHandle, DrainDone, CommandDone
  <1>7. CASE UpdateDone
    BY <1>7 DEF AtMostOneUpdate, UpdateDone, WorkerAt, Queued
  <1>8. CASE UNCHANGED vars
    BY <1>1, <1>8 DEF vars
  <1> QED
    BY <1>2, <1>3, <1>4, <1>5, <1>6, <1>7, <1>8 DEF Next, WorkerStep

\* Every step preserves the invariant.
LEMMA StepInv == IInv /\ [Next]_vars => IInv'
  <1> SUFFICES ASSUME IInv, [Next]_vars
               PROVE  IInv'
    OBVIOUS
  <1>1. WorkerOK'
    BY DEF IInv, WorkerOK, TypeOK, Next, WorkerStep, vars, SendPush, SendPost, PostCommand,
           UpdateTestAndSet, UpdatePost, PopTask, LeaveLoop, DrainSize, DrainSwap,
           DrainHandle, DrainDone, UpdateDone, CommandDone, WorkerAt
  <1>2. MainOK'
    BY ThreadsAssumption
    DEF IInv, MainOK, TypeOK, Threads, Next, WorkerStep, vars, SendPush, SendPost,
        PostCommand, UpdateTestAndSet, UpdatePost, PopTask, LeaveLoop, DrainSize,
        DrainSwap, DrainHandle, DrainDone, UpdateDone, CommandDone
  <1> QED
    BY <1>1, <1>2, StepTypeOK, StepNoLostWakeup, StepAtMostOneUpdate DEF IInv

\* The invariant holds in every reachable state.
LEMMA Invariance == SafeSpec => []IInv
  BY InitInv, StepInv, PTL DEF SafeSpec

-----------------------------------------------------------------------------
(* The theorems. *)

\* The variables of the pump keep the types worker.h gives them.
THEOREM Typing == SafeSpec => []TypeOK
  BY Invariance, PTL DEF IInv

\* send() loses no wake-up: a message in mq_ always has a drain task that is queued,
\* about to be queued, or running and not yet past its swap.
THEOREM NoWakeupIsLost == SafeSpec => []NoLostWakeup
  BY Invariance, PTL DEF IInv

\* update() has at most one event outstanding at any time.
THEOREM UpdateEventsAreBounded == SafeSpec => []AtMostOneUpdate
  BY Invariance, PTL DEF IInv

\* A step of the pump is a step of the mailbox or leaves it alone.
LEMMA StepSimulation == IInv /\ [Next]_vars => [MB!Next]_(MB!vars)
  <1> SUFFICES ASSUME IInv, [Next]_vars
               PROVE  [MB!Next]_(MB!vars)
    OBVIOUS
  <1> USE ThreadsAssumption DEF Threads, IInv
  <1>1. ASSUME NEW t \in Senders \cup {Self}, SendPush(t)
        PROVE  MB!Next
    <2> DEFINE m == [from |-> t, n |-> sent[t] + 1]
    <2>1. m \in Message
      BY <1>1, BoundsAssumption DEF TypeOK, SendPush, Message
    <2>2. swapmq_' \o mq_' = Append(swapmq_ \o mq_, m)
      BY SMTT(40), <1>1, <2>1, ConcatAppend DEF TypeOK, SendPush
    <2> QED
      BY <1>1, <2>1, <2>2 DEF MB!Next, MB!Put, SendPush
  <1>2. CASE DrainSwap
    <2>1. swapmq_ \o mq_ = mq_ /\ swapmq_' \o mq_' = mq_
      BY <1>2, ConcatEmpty DEF TypeOK, WorkerOK, DrainSwap, WorkerAt
    <2> QED
      BY <1>2, <2>1 DEF MB!vars, DrainSwap
  <1>3. CASE DrainHandle
    <2>1. state_ = "ready"
      BY <1>3 DEF WorkerOK, DrainHandle, WorkerAt
    <2>2. /\ swapmq_ \o mq_ # <<>>
          /\ Head(swapmq_ \o mq_) = Head(swapmq_)
          /\ Tail(swapmq_ \o mq_) = Tail(swapmq_) \o mq_
      BY <1>3, ConcatTail DEF TypeOK, DrainHandle
    <2> QED
      BY <1>3, <2>1, <2>2 DEF MB!Next, MB!Take, DrainHandle
  <1>4. CASE CommandDone
    <2>1. state_ = "ready"
      BY <1>4 DEF WorkerOK, CommandDone, WorkerAt
    <2>2. CASE state_' = "ready"
      BY <1>4, <2>1, <2>2 DEF MB!vars, CommandDone
    <2>3. CASE state_' = "exited"
      BY <1>4, <2>3 DEF MB!Next, MB!Close, CommandDone
    <2> QED
      BY <1>4, <2>2, <2>3 DEF CommandDone
  <1>5. ASSUME UNCHANGED <<mq_, swapmq_, handled, state_>>
        PROVE  UNCHANGED MB!vars
    BY <1>5 DEF MB!vars
  <1>6. ASSUME NEW t \in Senders \cup {Self}, SendPost(t) \/ PostCommand(t)
        PROVE  UNCHANGED MB!vars
    BY <1>5, <1>6 DEF SendPost, PostCommand
  <1>7. CASE \/ UpdateTestAndSet \/ UpdatePost \/ PopTask \/ LeaveLoop \/ DrainSize
             \/ DrainDone \/ UpdateDone \/ UNCHANGED vars
    BY <1>5, <1>7 DEF UpdateTestAndSet, UpdatePost, PopTask, LeaveLoop, DrainSize,
                      DrainDone, UpdateDone, vars
  <1> QED
    BY <1>1, <1>2, <1>3, <1>4, <1>6, <1>7 DEF Next, WorkerStep

\* The pump implements the mailbox: whatever the interleaving, messages are handled
\* in the order in which they were pushed, each at most once, none out of thin air
\* and none after the worker has exited.
THEOREM RefinesMailbox == SafeSpec => MB!SafeSpec
  <1>1. Init => MB!Init
    BY ConcatEmpty DEF Init, MB!Init
  <1> QED
    BY <1>1, Invariance, StepSimulation, PTL DEF SafeSpec, MB!SafeSpec
=============================================================================
