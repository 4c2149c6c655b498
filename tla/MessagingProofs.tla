--------------------------- MODULE MessagingProofs ---------------------------
(***************************************************************************)
(* Proofs about Messaging, for any workers, services and bounds.           *)
(*                                                                         *)
(* handle_one keeps a bare pointer to the service of the previous message. *)
(* It does not dangle because a service is only removed by a task of its   *)
(* own worker, which is not inside a drain task then, and every drain task *)
(* begins without a service (PreviousIsThere).                             *)
(*                                                                         *)
(* A service hears a broadcast once because each worker is sent one        *)
(* message for it, which is in one of its two queues until it is handled   *)
(* (BroadcastsOK), and who has heard it belongs to a worker that has       *)
(* handled it (HeardOK).                                                   *)
(*                                                                         *)
(* A request is answered once, and not forgotten, because it is like a     *)
(* coin: at any time it is in one place (Where), which is a queue, a       *)
(* remove task, a script or the answers that were seen.  A step leaves it  *)
(* there, moves it to another place, or loses it for a reason that lost    *)
(* records; no step copies it (Token).  What the steps need for that is    *)
(* that messages are with the worker of their receiver and that only the   *)
(* living keep requests (Books).                                           *)
(*                                                                         *)
(* The error for a request that was taken up before its callback failed is *)
(* a second coin (Second): it lies with the request itself, as long as no  *)
(* callback has it, then with the error, and there is only one of it       *)
(* (Shadow).                                                               *)
(***************************************************************************)
EXTENDS Messaging, SequenceTheorems, FiniteSetTheorems, TLAPS

-----------------------------------------------------------------------------
(* Queues of messages. *)

Queues == [Workers -> Seq(Message)]

Numbers == 1..MaxBroadcasts

\* The queue q holds the broadcast b, holds it at most once, and only from s.
Carries(q, b) == \E i \in 1..Len(q) : q[i].broadcast = b
Single(q, b) == \A i, j \in 1..Len(q) : q[i].broadcast = b /\ q[j].broadcast = b => i = j
From(q, b, s) == \A i \in 1..Len(q) : q[i].broadcast = b => q[i].sender = s

\* The queues r are the queues q and messages that are no broadcasts.
Kept(q, r) ==
    /\ r \in Queues
    /\ \A w \in Workers, b \in Numbers :
           /\ Carries(r[w], b) => Carries(q[w], b)
           /\ Single(q[w], b) => Single(r[w], b)
           /\ \A s \in Services : From(q[w], b, s) => From(r[w], b, s)

\* A message that is not the broadcast b leaves what is said of b.
LEMMA AppendOther ==
    ASSUME NEW q \in Seq(Message), NEW m \in Message, NEW b, m.broadcast # b
    PROVE  /\ Carries(Append(q, m), b) => Carries(q, b)
           /\ Single(q, b) => Single(Append(q, m), b)
           /\ \A s \in Services : From(q, b, s) => From(Append(q, m), b, s)
<1>1. /\ Len(Append(q, m)) = Len(q) + 1
      /\ Len(q) \in Nat
      /\ \A i \in 1..Len(q) : Append(q, m)[i] = q[i]
      /\ Append(q, m)[Len(q) + 1] = m
  BY AppendProperties, LenProperties
<1>2. \A i \in 1..Len(Append(q, m)) : Append(q, m)[i].broadcast = b => i \in 1..Len(q)
  BY <1>1
<1> QED
  BY <1>1, <1>2 DEF Carries, Single, From

\* A broadcast that is not there is there once when it is appended, from its sender.
LEMMA AppendNew ==
    ASSUME NEW q \in Seq(Message), NEW m \in Message, NEW b, ~Carries(q, b)
    PROVE  /\ Single(Append(q, m), b)
           /\ From(Append(q, m), b, m.sender)
<1>1. /\ Len(Append(q, m)) = Len(q) + 1
      /\ Len(q) \in Nat
      /\ \A i \in 1..Len(q) : Append(q, m)[i] = q[i]
      /\ Append(q, m)[Len(q) + 1] = m
  BY AppendProperties, LenProperties
<1>2. \A i \in 1..Len(Append(q, m)) : Append(q, m)[i].broadcast = b => i = Len(q) + 1
  BY <1>1 DEF Carries
<1> QED
  BY <1>1, <1>2 DEF Single, From

\* Taking the first message away, which is the only one to hold its broadcast.
LEMMA TailOf ==
    ASSUME NEW q \in Seq(Message), q # <<>>, NEW b
    PROVE  /\ Tail(q) \in Seq(Message)
           /\ Head(q) \in Message
           /\ Carries(Tail(q), b) => Carries(q, b)
           /\ Single(q, b) => Single(Tail(q), b)
           /\ \A s \in Services : From(q, b, s) => From(Tail(q), b, s)
           /\ Head(q).broadcast = b => Carries(q, b)
           /\ Head(q).broadcast = b /\ Single(q, b) => ~Carries(Tail(q), b)
           /\ \A s \in Services : Head(q).broadcast = b /\ From(q, b, s) => Head(q).sender = s
<1>1. /\ Tail(q) \in Seq(Message)
      /\ Head(q) \in Message
      /\ Len(q) \in Nat \ {0}
      /\ Len(Tail(q)) = Len(q) - 1
      /\ \A i \in 1..Len(Tail(q)) : Tail(q)[i] = q[i + 1]
      /\ Head(q) = q[1]
  BY HeadTailProperties, LenProperties, EmptySeq
<1>2. \A i \in 1..Len(Tail(q)) : i + 1 \in 1..Len(q) /\ i + 1 # 1
  BY <1>1
<1>3. 1 \in 1..Len(q)
  BY <1>1
<1>4. Single(q, b) => Single(Tail(q), b)
  <2>1. SUFFICES ASSUME Single(q, b),
                        NEW i \in 1..Len(Tail(q)), NEW j \in 1..Len(Tail(q)),
                        Tail(q)[i].broadcast = b, Tail(q)[j].broadcast = b
                 PROVE  i = j
    BY DEF Single
  <2>2. i + 1 = j + 1
    BY <1>1, <1>2, <2>1 DEF Single
  <2> QED
    BY <1>1, <2>2
<1>5. Carries(Tail(q), b) => Carries(q, b)
  BY <1>1, <1>2 DEF Carries
<1>6. \A s \in Services : From(q, b, s) => From(Tail(q), b, s)
  BY <1>1, <1>2 DEF From
<1>7. Head(q).broadcast = b /\ Single(q, b) => ~Carries(Tail(q), b)
  BY <1>1, <1>2, <1>3 DEF Carries, Single
<1> QED
  BY <1>1, <1>3, <1>4, <1>5, <1>6, <1>7 DEF Carries, From

\* Nothing is in an empty queue.
LEMMA EmptyQueue ==
    ASSUME NEW b
    PROVE  /\ <<>> \in Seq(Message)
           /\ ~Carries(<<>>, b)
           /\ Single(<<>>, b)
           /\ \A s \in Services : From(<<>>, b, s)
BY EmptySeq DEF Carries, Single, From

LEMMA KeptReflexive == ASSUME NEW q \in Queues PROVE Kept(q, q)
BY DEF Kept

LEMMA KeptTransitive ==
    ASSUME NEW q, NEW r, NEW t, Kept(q, r), Kept(r, t)
    PROVE  Kept(q, t)
BY DEF Kept

-----------------------------------------------------------------------------
(* The router. *)

\* A message of send() or response() is one, and no broadcast.
LEMMA MailType ==
    ASSUME NEW s \in Services \cup {Nobody}, NEW r \in Services \cup {Nobody},
           NEW n \in -MaxSends..MaxSends
    PROVE  Mail(s, r, n) \in Message /\ Mail(s, r, n).broadcast = 0
BY MessagingAssumption DEF Mail, Message

\* Sending one leaves the broadcasts as they are.
LEMMA SentKeeps ==
    ASSUME NEW q \in Queues, NEW m \in Message, m.broadcast = 0
    PROVE  Kept(q, Sent(q, m))
<1>1. CASE ~Deliverable(m)
  BY <1>1, KeptReflexive DEF Sent
<1>2. CASE Deliverable(m)
  <2> DEFINE v == WorkerOf[m.receiver]
             r == Sent(q, m)
  <2>1. v \in Workers /\ r = [q EXCEPT ![v] = Append(q[v], m)]
    BY <1>2 DEF Deliverable, workerid_valid, Sent
  <2>2. q[v] \in Seq(Message)
    BY <2>1 DEF Queues
  <2>3. r \in Queues
    BY <2>1, <2>2, AppendProperties DEF Queues
  <2>4. ASSUME NEW w \in Workers, NEW b \in Numbers
        PROVE  /\ Carries(r[w], b) => Carries(q[w], b)
               /\ Single(q[w], b) => Single(r[w], b)
               /\ \A s \in Services : From(q[w], b, s) => From(r[w], b, s)
    <3>1. CASE w = v
      <4>1. m.broadcast # b
        BY DEF Numbers
      <4>2. r[w] = Append(q[w], m)
        BY <2>1, <3>1 DEF Queues
      <4> HIDE DEF r
      <4> QED
        BY <2>2, <3>1, <4>1, <4>2, AppendOther
    <3>2. CASE w # v
      BY <2>1, <3>2 DEF Queues
    <3> QED
      BY <3>1, <3>2
  <2> QED
    BY <2>3, <2>4 DEF Kept
<1> QED
  BY <1>1, <1>2

\* So does an error of the runtime.
LEMMA ResponseKeeps ==
    ASSUME NEW q \in Queues, NEW to \in Services \cup {Nobody}, NEW n \in -MaxSends..MaxSends
    PROVE  Kept(q, Response(q, to, n))
<1>1. Mail(Nobody, to, n) \in Message /\ Mail(Nobody, to, n).broadcast = 0
  BY MailType
<1> QED
  BY <1>1, SentKeeps, KeptReflexive DEF Response

\* And an error followed by a message.
LEMMA ResponseSentKeeps ==
    ASSUME NEW q \in Queues, NEW to \in Services \cup {Nobody}, NEW n \in -MaxSends..MaxSends,
           NEW m \in Message, m.broadcast = 0
    PROVE  Kept(q, Sent(Response(q, to, n), m))
<1>1. Kept(q, Response(q, to, n))
  BY ResponseKeeps
<1>2. Response(q, to, n) \in Queues
  BY <1>1 DEF Kept
<1>3. Kept(Response(q, to, n), Sent(Response(q, to, n), m))
  BY <1>2, SentKeeps
<1> QED
  BY <1>1, <1>3, KeptTransitive

-----------------------------------------------------------------------------
(* The inductive invariant. *)

\* The bound on messages bounds the requests of each service.
AskedBySends == \A s \in Services : asked[s] <= sends

\* The service of the previous message is alive and belongs to the worker.
PreviousIsThere ==
    \A w \in Workers :
        Handles(w) /\ ser[w] # Nobody => ser[w] \in alive /\ WorkerOf[ser[w]] = w

\* Each worker holds a broadcast at most once, in one of its queues, from its sender, and
\* no broadcast that has not been made.
BroadcastsOK ==
    \A w \in Workers, b \in Numbers :
        /\ Single(mq_[w], b) /\ Single(swapmq_[w], b)
        /\ ~(Carries(mq_[w], b) /\ Carries(swapmq_[w], b))
        /\ Carries(mq_[w], b) \/ Carries(swapmq_[w], b) => b <= Len(speakers)
        /\ b <= Len(speakers) =>
               From(mq_[w], b, speakers[b]) /\ From(swapmq_[w], b, speakers[b])

\* A broadcast has been heard once where it is not queued any more, and not by its
\* sender unless it was resent.
HeardOK ==
    \A b \in Numbers, s \in Services :
        /\ heard[b][s] \in {0, 1}
        /\ heard[b][s] = 1 =>
               /\ b <= Len(speakers)
               /\ WorkerOf[s] \in Workers
               /\ ~Carries(mq_[WorkerOf[s]], b)
               /\ ~Carries(swapmq_[WorkerOf[s]], b)
               /\ b \notin resent => s # speakers[b]

Aloud == BroadcastsOK /\ HeardOK /\ Len(speakers) <= MaxBroadcasts

IInv == TypeOK /\ AskedBySends /\ PreviousIsThere /\ Aloud

-----------------------------------------------------------------------------
(* Broadcasts. *)

\* Steps that send mail, and may handle some.
LEMMA QuietStep ==
    ASSUME IInv, Kept(mq_, mq_'), UNCHANGED <<speakers, heard, resent>>,
           \/ UNCHANGED swapmq_
           \/ \E w \in Workers :
                  swapmq_[w] # <<>> /\ swapmq_' = [swapmq_ EXCEPT ![w] = Tail(@)]
    PROVE  mq_' \in Queues /\ swapmq_' \in Queues /\ Aloud'
<1>1. mq_' \in Queues /\ mq_ \in Queues /\ swapmq_ \in Queues
  BY DEF Kept, IInv, TypeOK, Queues
<1>2. swapmq_' \in Queues
      /\ \A w \in Workers, b \in Numbers :
             /\ Carries(swapmq_'[w], b) => Carries(swapmq_[w], b)
             /\ Single(swapmq_[w], b) => Single(swapmq_'[w], b)
             /\ \A s \in Services : From(swapmq_[w], b, s) => From(swapmq_'[w], b, s)
  <2>1. CASE UNCHANGED swapmq_
    BY <1>1, <2>1
  <2>2. ASSUME NEW v \in Workers, swapmq_[v] # <<>>,
               swapmq_' = [swapmq_ EXCEPT ![v] = Tail(@)]
        PROVE  <1>2
    <3>1. swapmq_[v] \in Seq(Message)
      BY <1>1 DEF Queues
    <3>2. Tail(swapmq_[v]) \in Seq(Message)
      BY <2>2, <3>1, TailOf
    <3>3. swapmq_' \in Queues
      BY <1>1, <2>2, <3>2 DEF Queues
    <3>4. ASSUME NEW w \in Workers, NEW b \in Numbers
          PROVE  /\ Carries(swapmq_'[w], b) => Carries(swapmq_[w], b)
                 /\ Single(swapmq_[w], b) => Single(swapmq_'[w], b)
                 /\ \A s \in Services :
                        From(swapmq_[w], b, s) => From(swapmq_'[w], b, s)
      <4>1. CASE w = v
        <5>1. swapmq_'[w] = Tail(swapmq_[v])
          BY <1>1, <2>2, <4>1 DEF Queues
        <5> QED
          BY <2>2, <3>1, <4>1, <5>1, TailOf
      <4>2. CASE w # v
        BY <1>1, <2>2, <4>2 DEF Queues
      <4> QED
        BY <4>1, <4>2
    <3> QED
      BY <3>3, <3>4
  <2> QED
    BY <2>1, <2>2
<1>3. \A b \in Numbers : b <= Len(speakers) => speakers[b] \in Services
  BY LenProperties DEF IInv, TypeOK, Numbers
<1>4. BroadcastsOK'
  BY <1>2, <1>3 DEF IInv, Aloud, BroadcastsOK, Kept
<1>5. HeardOK'
  BY <1>2 DEF IInv, Aloud, HeardOK, Kept
<1> QED
  BY <1>1, <1>2, <1>4, <1>5 DEF Aloud, IInv

\* A service broadcasts, after some mail.
LEMMA BroadcastStep ==
    ASSUME IInv, NEW s \in Services, NEW q, Kept(mq_, q), Broadcast(s, q),
           UNCHANGED <<swapmq_, heard, resent>>
    PROVE  mq_' \in Queues /\ speakers' \in Seq(Services) /\ Aloud'
<1> DEFINE n == Len(speakers) + 1
           m == [sender |-> s, receiver |-> Nobody, session |-> 0, broadcast |-> n,
                 forwarded |-> FALSE, second |-> FALSE]
<1>1. /\ n \in Numbers
      /\ speakers' = Append(speakers, s)
      /\ mq_' = [w \in Workers |-> Append(q[w], m)]
  BY LenProperties DEF Broadcast, IInv, TypeOK, Numbers
<1>2. m \in Message
  BY <1>1, MessagingAssumption DEF Message, Numbers
<1>3. q \in Queues /\ \A w \in Workers : q[w] \in Seq(Message)
  BY DEF Kept, Queues
<1>4. mq_' \in Queues
  BY <1>1, <1>2, <1>3, AppendProperties DEF Queues
<1>5. /\ speakers' \in Seq(Services)
      /\ Len(speakers') = n
      /\ speakers'[n] = s
      /\ \A b \in Numbers : b <= Len(speakers) =>
             speakers'[b] = speakers[b] /\ speakers[b] \in Services /\ b # n
      /\ \A b \in Numbers : b <= n => b <= Len(speakers) \/ b = n
  BY <1>1, AppendProperties, LenProperties DEF IInv, TypeOK, Numbers
<1>6. m.broadcast = n /\ m.sender = s
  OBVIOUS
<1>7. ASSUME NEW w \in Workers, NEW b \in Numbers, b # n
      PROVE  /\ Carries(mq_'[w], b) => Carries(mq_[w], b)
             /\ Single(mq_[w], b) => Single(mq_'[w], b)
             /\ \A t \in Services : From(mq_[w], b, t) => From(mq_'[w], b, t)
  <2>1. mq_'[w] = Append(q[w], m) /\ q[w] \in Seq(Message) /\ m.broadcast # b
    BY <1>1, <1>3, <1>6, <1>7
  <2>2. /\ Carries(Append(q[w], m), b) => Carries(q[w], b)
        /\ Single(q[w], b) => Single(Append(q[w], m), b)
        /\ \A t \in Services : From(q[w], b, t) => From(Append(q[w], m), b, t)
    BY <1>2, <2>1, AppendOther
  <2> HIDE DEF m
  <2> QED
    BY <2>1, <2>2 DEF Kept
<1>8. ASSUME NEW w \in Workers
      PROVE  /\ Single(mq_'[w], n)
             /\ From(mq_'[w], n, s)
             /\ ~Carries(swapmq_[w], n)
             /\ Single(swapmq_[w], n)
             /\ From(swapmq_[w], n, s)
  <2>1. ~Carries(mq_[w], n) /\ ~Carries(swapmq_[w], n) /\ Single(swapmq_[w], n)
    <3>1. ~(n <= Len(speakers))
      BY LenProperties DEF IInv, TypeOK
    <3> QED
      BY <1>1, <3>1 DEF IInv, Aloud, BroadcastsOK
  <2>2. ~Carries(q[w], n)
    BY <1>1, <2>1 DEF Kept
  <2>3. Single(Append(q[w], m), n) /\ From(Append(q[w], m), n, s)
    BY <1>2, <1>3, <1>6, <2>2, AppendNew
  <2>4. mq_'[w] = Append(q[w], m)
    BY <1>1
  <2> HIDE DEF m, n
  <2> QED
    BY <2>1, <2>3, <2>4 DEF Carries, From
<1> HIDE DEF m, n
<1>9. BroadcastsOK'
  <2> SUFFICES ASSUME NEW w \in Workers, NEW b \in Numbers
               PROVE  /\ Single(mq_'[w], b) /\ Single(swapmq_[w], b)
                      /\ ~(Carries(mq_'[w], b) /\ Carries(swapmq_[w], b))
                      /\ Carries(mq_'[w], b) \/ Carries(swapmq_[w], b) => b <= Len(speakers')
                      /\ b <= Len(speakers') =>
                             /\ From(mq_'[w], b, speakers'[b])
                             /\ From(swapmq_[w], b, speakers'[b])
    BY DEF BroadcastsOK
  <2>1. CASE b = n
    BY <1>1, <1>5, <1>8, <2>1 DEF Numbers
  <2>2. CASE b # n
    <3>1. b <= Len(speakers) => b <= Len(speakers')
      BY <1>5, LenProperties DEF IInv, TypeOK, Numbers, n
    <3> QED
      BY <1>5, <1>7, <2>2, <3>1 DEF IInv, Aloud, BroadcastsOK
  <2> QED
    BY <2>1, <2>2
<1>10. HeardOK'
  <2> SUFFICES ASSUME NEW b \in Numbers, NEW t \in Services, heard[b][t] = 1
               PROVE  /\ b <= Len(speakers')
                      /\ ~Carries(mq_'[WorkerOf[t]], b)
                      /\ b \notin resent => t # speakers'[b]
    BY DEF IInv, Aloud, HeardOK
  <2>1. /\ b <= Len(speakers)
        /\ WorkerOf[t] \in Workers
        /\ ~Carries(mq_[WorkerOf[t]], b)
        /\ b \notin resent => t # speakers[b]
    BY DEF IInv, Aloud, HeardOK
  <2>2. b # n /\ speakers'[b] = speakers[b]
    BY <1>5, <2>1
  <2>3. b <= Len(speakers')
    BY <1>5, <2>1, LenProperties DEF IInv, TypeOK, Numbers, n
  <2> QED
    BY <1>7, <2>1, <2>2, <2>3
<1>11. Len(speakers') <= MaxBroadcasts
  BY <1>1, <1>5, MessagingAssumption DEF Numbers
<1> QED
  BY <1>4, <1>5, <1>9, <1>10, <1>11 DEF Aloud

\* A worker's drain task swaps its queues.
LEMMA SwapStep ==
    ASSUME IInv, NEW w \in Workers, Swap(w)
    PROVE  mq_' \in Queues /\ swapmq_' \in Queues /\ Aloud'
<1>1. /\ swapmq_[w] = <<>>
      /\ swapmq_' = [swapmq_ EXCEPT ![w] = mq_[w]]
      /\ mq_' = [mq_ EXCEPT ![w] = <<>>]
      /\ UNCHANGED <<speakers, heard, resent>>
  BY DEF Swap, Between, history
<1>2. mq_ \in Queues /\ swapmq_ \in Queues
  BY DEF IInv, TypeOK, Queues
<1>3. mq_' \in Queues /\ swapmq_' \in Queues
  BY <1>1, <1>2, EmptyQueue DEF Queues
<1>4. \A v \in Workers : \/ mq_'[v] = mq_[v] /\ swapmq_'[v] = swapmq_[v]
                         \/ mq_'[v] = <<>> /\ swapmq_'[v] = mq_[v]
  BY <1>1, <1>2 DEF Queues
<1>5. \A b \in Numbers : b <= Len(speakers) => speakers[b] \in Services
  BY LenProperties DEF IInv, TypeOK, Numbers
<1>6. BroadcastsOK'
  BY <1>1, <1>4, <1>5, EmptyQueue DEF IInv, Aloud, BroadcastsOK
<1>7. HeardOK'
  BY <1>1, <1>4, EmptyQueue DEF IInv, Aloud, HeardOK
<1> QED
  BY <1>1, <1>3, <1>6, <1>7 DEF Aloud, IInv

\* A worker handles a broadcast: who hears it belongs to the worker, and could not have
\* heard it before, because it was still queued.
LEMMA HandleBroadcastStep ==
    ASSUME IInv, NEW w \in Workers, HandleBroadcast(w) \/ HandleBroadcastResent(w)
    PROVE  /\ mq_' \in Queues /\ swapmq_' \in Queues
           /\ heard' \in [Numbers -> [Services -> Nat]]
           /\ resent' \subseteq Numbers
           /\ Aloud'
<1> DEFINE m == Head(swapmq_[w])
           n == m.broadcast
<1>1. /\ swapmq_[w] # <<>>
      /\ n # 0
      /\ swapmq_' = [swapmq_ EXCEPT ![w] = Tail(@)]
      /\ mq_' = mq_
      /\ speakers' = speakers
  BY DEF HandleBroadcast, HandleBroadcastResent, Handles, Handled
<1>2. mq_ \in Queues /\ swapmq_ \in Queues /\ swapmq_[w] \in Seq(Message)
  BY DEF IInv, TypeOK, Queues
<1>3. m \in Message /\ Tail(swapmq_[w]) \in Seq(Message)
  BY <1>1, <1>2, TailOf
<1>4. n \in Numbers
  BY <1>1, <1>3 DEF Message, Numbers
<1>5. PICK S \in SUBSET Here(w) :
          /\ heard' = [heard EXCEPT ![n] = [s \in Services |-> IF s \in S THEN @[s] + 1
                                                                ELSE @[s]]]
          /\ \/ resent' = resent /\ m.sender \notin S
             \/ resent' = resent \cup {n}
  <2>1. CASE HandleBroadcast(w)
    <3>1. /\ heard' = [heard EXCEPT ![n] =
                 [s \in Services |-> IF s \in Listeners(w, m) THEN @[s] + 1 ELSE @[s]]]
          /\ resent' = resent
      BY <2>1 DEF HandleBroadcast
    <3>2. Listeners(w, m) \in SUBSET Here(w) /\ m.sender \notin Listeners(w, m)
      BY DEF Listeners
    <3> QED
      BY <3>1, <3>2
  <2>2. CASE HandleBroadcastResent(w)
    <3>1. PICK late \in SUBSET {m.sender} :
              /\ late \subseteq Here(w) \ Mute
              /\ heard' = [heard EXCEPT ![n] =
                     [t \in Services |-> IF t \in Listeners(w, m) \cup late
                                         THEN @[t] + 1 ELSE @[t]]]
              /\ resent' = resent \cup {n}
      BY <2>2 DEF HandleBroadcastResent
    <3>2. Listeners(w, m) \cup late \in SUBSET Here(w)
      BY <3>1 DEF Listeners
    <3> QED
      BY <3>1, <3>2
  <2> QED
    BY <2>1, <2>2
<1>6. /\ Carries(swapmq_[w], n) /\ ~Carries(Tail(swapmq_[w]), n) /\ ~Carries(mq_[w], n)
      /\ n <= Len(speakers) /\ speakers[n] \in Services /\ m.sender = speakers[n]
  <2>1. Carries(swapmq_[w], n) /\ Single(swapmq_[w], n)
    BY <1>1, <1>2, <1>4, TailOf DEF IInv, Aloud, BroadcastsOK
  <2>2. ~Carries(mq_[w], n) /\ n <= Len(speakers) /\ From(swapmq_[w], n, speakers[n])
    BY <1>4, <2>1 DEF IInv, Aloud, BroadcastsOK
  <2>3. speakers[n] \in Services
    BY <1>4, <2>2, LenProperties DEF IInv, TypeOK, Numbers
  <2> QED
    BY <1>1, <1>2, <2>1, <2>2, <2>3, TailOf
<1> HIDE DEF m, n
<1>7. heard \in [Numbers -> [Services -> Nat]]
  BY DEF IInv, TypeOK, Numbers
<1>8. /\ heard' \in [Numbers -> [Services -> Nat]]
      /\ \A b \in Numbers, s \in Services :
             heard'[b][s] = IF b = n /\ s \in S THEN heard[b][s] + 1 ELSE heard[b][s]
  BY <1>4, <1>5, <1>7
<1>9. resent' \subseteq Numbers /\ resent \subseteq resent'
  BY <1>4, <1>5 DEF IInv, TypeOK, Numbers
<1>10. swapmq_' \in Queues
  BY <1>1, <1>2, <1>3 DEF Queues
<1>11. \A v \in Workers : swapmq_'[v] = IF v = w THEN Tail(swapmq_[w]) ELSE swapmq_[v]
  BY <1>1, <1>2 DEF Queues
<1>12. \A v \in Workers, b \in Numbers :
           /\ Carries(swapmq_'[v], b) => Carries(swapmq_[v], b)
           /\ Single(swapmq_[v], b) => Single(swapmq_'[v], b)
           /\ \A s \in Services : From(swapmq_[v], b, s) => From(swapmq_'[v], b, s)
  BY <1>1, <1>2, <1>11, TailOf
<1>13. \A b \in Numbers : b <= Len(speakers) => speakers[b] \in Services
  BY LenProperties DEF IInv, TypeOK, Numbers
<1>14. BroadcastsOK'
  BY <1>1, <1>12, <1>13 DEF IInv, Aloud, BroadcastsOK
<1>15. HeardOK'
  <2> SUFFICES ASSUME NEW b \in Numbers, NEW s \in Services
               PROVE  /\ heard'[b][s] \in {0, 1}
                      /\ heard'[b][s] = 1 =>
                             /\ b <= Len(speakers)
                             /\ WorkerOf[s] \in Workers
                             /\ ~Carries(mq_[WorkerOf[s]], b)
                             /\ ~Carries(swapmq_'[WorkerOf[s]], b)
                             /\ b \notin resent' => s # speakers[b]
    BY <1>1 DEF HeardOK
  <2>1. CASE b = n /\ s \in S
    <3>1. WorkerOf[s] = w
      BY <2>1 DEF Here
    <3>2. heard[n][s] = 0
      BY <1>4, <1>6, <3>1 DEF IInv, Aloud, HeardOK
    <3>3. heard'[n][s] = 1
      BY <1>4, <1>8, <2>1, <3>2
    <3>4. n \notin resent' => s # speakers[n]
      BY <1>5, <1>6, <2>1
    <3> QED
      BY <1>6, <1>11, <2>1, <3>1, <3>3, <3>4
  <2>2. CASE ~(b = n /\ s \in S)
    <3>1. heard'[b][s] = heard[b][s]
      BY <1>8, <2>2
    <3> QED
      BY <1>9, <1>12, <3>1 DEF IInv, Aloud, HeardOK
  <2> QED
    BY <2>1, <2>2
<1> QED
  BY <1>1, <1>2, <1>8, <1>9, <1>10, <1>14, <1>15 DEF Aloud, IInv
-----------------------------------------------------------------------------
(* Scripts. *)

\* What a script does in a callback leaves the tables and the drain tasks alone.
LEMMA ScriptStep ==
    ASSUME IInv,
           mq_' \in Queues, Aloud',
           sends' \in 0..MaxSends, sends <= sends', twists' \in 0..MaxTwists,
           removals' \subseteq Removal,
           asked' \in [Services -> 0..MaxSends], \A s \in Services : asked'[s] <= sends',
           owed' \in [Services -> SUBSET Request],
           lost' \subseteq Request,
           speakers' \in Seq(Services),
           UNCHANGED <<swapmq_, ser, alive, exited, got, again, heard, resent>>
    PROVE  IInv'
<1>1. TypeOK'
  BY DEF IInv, TypeOK, Queues
<1>2. PreviousIsThere'
  BY DEF IInv, PreviousIsThere, Handles
<1> QED
  BY <1>1, <1>2 DEF IInv, AskedBySends

\* The number of the next request of a service.
LEMMA NextRequest ==
    ASSUME IInv, NEW s \in Services, sends < MaxSends, sends' = sends + 1
    PROVE  /\ sends' \in 0..MaxSends
           /\ sends <= sends'
           /\ asked[s] + 1 \in Sessions
           /\ asked[s] + 1 \in -MaxSends..MaxSends
           /\ -(asked[s] + 1) \in -MaxSends..MaxSends
           /\ [from |-> s, n |-> asked[s] + 1] \in Request
           /\ \A a : a = [asked EXCEPT ![s] = @ + 1] =>
                  a \in [Services -> 0..MaxSends] /\ \A t \in Services : a[t] <= sends'
           /\ \A t \in Services : asked[t] <= sends'
<1>1. /\ asked \in [Services -> 0..MaxSends]
      /\ \A t \in Services : asked[t] <= sends
      /\ sends \in Nat /\ MaxSends \in Nat
  BY MessagingAssumption DEF IInv, TypeOK, AskedBySends
<1>2. asked[s] \in 0..MaxSends /\ asked[s] + 1 \in 1..MaxSends
  BY <1>1
<1> QED
  BY <1>1, <1>2 DEF Sessions, Request

\* What is lost when a message goes nowhere is a request.
LEMMA LostType ==
    ASSUME NEW m \in Message
    PROVE  /\ LostWith(m) \subseteq Request
           /\ IsRequest(m) => RequestOf(m) \in Request
BY MessagingAssumption DEF LostWith, IsRequest, RequestOf, Request, Message, Sessions

LEMMA ScriptNotifyStep ==
    ASSUME IInv, NEW s \in Services, NEW r \in Services, ScriptNotify(s, r)
    PROVE  IInv'
<1>1. 0 \in -MaxSends..MaxSends
  BY MessagingAssumption
<1>2. Kept(mq_, mq_')
  BY <1>1, MailType, SentKeeps DEF ScriptNotify, IInv, TypeOK, Queues
<1>3. mq_' \in Queues /\ Aloud'
  BY <1>2, QuietStep DEF ScriptNotify, history
<1> QED
  BY <1>3, NextRequest, ScriptStep
  DEF ScriptNotify, history, tables, IInv, TypeOK

LEMMA ScriptAskStep ==
    ASSUME IInv, NEW s \in Services, NEW r \in Services, ScriptAsk(s, r)
    PROVE  IInv'
<1> DEFINE m == Mail(s, r, -(asked[s] + 1))
<1>1. m \in Message /\ m.broadcast = 0
  BY NextRequest, MailType DEF ScriptAsk
<1>2. Kept(mq_, mq_')
  BY <1>1, SentKeeps DEF ScriptAsk, IInv, TypeOK, Queues
<1>3. mq_' \in Queues /\ Aloud'
  BY <1>2, QuietStep DEF ScriptAsk
<1>4. lost' \subseteq Request
  BY <1>1, LostType DEF ScriptAsk, IInv, TypeOK
<1> QED
  BY <1>3, <1>4, NextRequest, ScriptStep DEF ScriptAsk, tables, IInv, TypeOK

LEMMA ScriptAnswerStep ==
    ASSUME IInv, NEW s \in Services, NEW q \in owed[s], ScriptAnswer(s, q)
    PROVE  IInv'
<1>1. q \in Request
  BY DEF IInv, TypeOK
<1>2. q.from \in Services /\ q.n \in -MaxSends..MaxSends
  BY <1>1, MessagingAssumption DEF Request, Sessions
<1>3. Kept(mq_, mq_')
  BY <1>2, MailType, SentKeeps DEF ScriptAnswer, IInv, TypeOK, Queues
<1>4. mq_' \in Queues /\ Aloud'
  BY <1>3, QuietStep DEF ScriptAnswer, history
<1>5. owed' \in [Services -> SUBSET Request]
  BY DEF ScriptAnswer, IInv, TypeOK
<1>6. sends <= sends' /\ \A t \in Services : asked'[t] <= sends'
  BY MessagingAssumption DEF ScriptAnswer, bounds, IInv, TypeOK, AskedBySends
<1> QED
  BY <1>4, <1>5, <1>6, ScriptStep DEF ScriptAnswer, history, tables, bounds, IInv, TypeOK

LEMMA ScriptBroadcastStep ==
    ASSUME IInv, NEW s \in Services, ScriptBroadcast(s)
    PROVE  IInv'
<1>1. Kept(mq_, mq_)
  BY KeptReflexive DEF IInv, TypeOK, Queues
<1>2. mq_' \in Queues /\ speakers' \in Seq(Services) /\ Aloud'
  BY <1>1, BroadcastStep DEF ScriptBroadcast
<1> QED
  BY <1>2, NextRequest, ScriptStep DEF ScriptBroadcast, tables, IInv, TypeOK

LEMMA ScriptBroadcastNothingStep ==
    ASSUME IInv, NEW s \in Services, ScriptBroadcastNothing(s)
    PROVE  IInv'
<1> DEFINE m == Mail(s, Nobody, 0)
<1>1. 0 \in -MaxSends..MaxSends
  BY MessagingAssumption
<1>2. m \in Message /\ m.broadcast = 0
  BY <1>1, MailType
<1>3. mq_' = [w \in Workers |-> Append(mq_[w], m)]
  BY DEF ScriptBroadcastNothing
<1> HIDE DEF m
<1>4. \A w \in Workers : mq_[w] \in Seq(Message)
  BY DEF IInv, TypeOK
<1>5. mq_' \in Queues
  BY <1>2, <1>3, <1>4, AppendProperties DEF Queues
<1>6. \A b \in Numbers : m.broadcast # b
  BY <1>2 DEF Numbers
<1>7. Kept(mq_, mq_')
  BY <1>2, <1>3, <1>4, <1>5, <1>6, AppendOther DEF Kept
<1>8. Aloud'
  BY <1>7, QuietStep DEF ScriptBroadcastNothing, history
<1> QED
  BY <1>5, <1>8, NextRequest, ScriptStep
  DEF ScriptBroadcastNothing, history, tables, IInv, TypeOK

LEMMA ScriptRemoveStep ==
    ASSUME IInv, NEW s \in Services, NEW r \in Services, ScriptRemove(s, r)
    PROVE  IInv'
<1> DEFINE n == asked[s] + 1
<1>1. /\ n \in -MaxSends..MaxSends
      /\ [from |-> s, n |-> n] \in Request
  BY NextRequest DEF ScriptRemove
<1>2. Kept(mq_, mq_) /\ mq_ \in Queues
  BY KeptReflexive DEF IInv, TypeOK, Queues
<1>3. Kept(mq_, mq_')
  BY <1>1, <1>2, ResponseKeeps DEF ScriptRemove
<1>4. mq_' \in Queues /\ Aloud'
  BY <1>3, QuietStep DEF ScriptRemove, history
<1>5. removals' \subseteq Removal
  BY <1>1 DEF ScriptRemove, IInv, TypeOK, Removal
<1>6. /\ asked' \in [Services -> 0..MaxSends]
      /\ \A t \in Services : asked'[t] <= sends'
      /\ sends' \in 0..MaxSends
      /\ sends <= sends'
  BY NextRequest DEF ScriptRemove
<1> QED
  BY <1>4, <1>5, <1>6, ScriptStep DEF ScriptRemove, history, IInv, TypeOK

-----------------------------------------------------------------------------
(* The drain task. *)

\* After a message that is no broadcast, the service of the previous message is the one
\* that was found, which is alive and belongs to the worker.
LEMMA PreviousStep ==
    ASSUME IInv, NEW w \in Workers, Handles(w), Handled(w), UNCHANGED alive,
           \/ UNCHANGED ser
           \/ ser' = [ser EXCEPT ![w] = Nobody]
           \/ ser' = [ser EXCEPT ![w] = Found(w, Head(swapmq_[w]))]
    PROVE  PreviousIsThere'
<1>1. ser \in [Workers -> Services \cup {Nobody}] /\ swapmq_ \in Queues
  BY DEF IInv, TypeOK, Queues
<1>2. ser'[w] = Nobody \/ (ser'[w] \in alive /\ WorkerOf[ser'[w]] = w)
  BY <1>1 DEF IInv, PreviousIsThere, Found, Here
<1>3. \A v \in Workers : v # w => ser'[v] = ser[v] /\ swapmq_'[v] = swapmq_[v]
  BY <1>1 DEF Handled, Queues
<1> QED
  BY <1>2, <1>3 DEF IInv, PreviousIsThere, Handles

LEMMA BroadcastsHandled ==
    ASSUME IInv, NEW w \in Workers, HandleBroadcast(w) \/ HandleBroadcastResent(w)
    PROVE  IInv'
<1>1. /\ mq_' \in Queues /\ swapmq_' \in Queues
      /\ heard' \in [Numbers -> [Services -> Nat]]
      /\ resent' \subseteq Numbers
      /\ Aloud'
  BY HandleBroadcastStep
<1>2. PreviousIsThere'
  BY PreviousStep DEF HandleBroadcast, HandleBroadcastResent, tables
<1>3. twists' \in 0..MaxTwists
  <2>1. twists \in 0..MaxTwists /\ MaxTwists \in Nat
    BY MessagingAssumption DEF IInv, TypeOK
  <2>2. twists' = twists \/ (twists < MaxTwists /\ twists' = twists + 1)
    BY DEF HandleBroadcast, HandleBroadcastResent, bounds
  <2> QED
    BY <2>1, <2>2
<1>4. UNCHANGED <<ser, alive, removals, exited, sends, asked, owed, got, again, lost,
                  speakers>>
  BY DEF HandleBroadcast, HandleBroadcastResent, bounds, tables
<1>5. TypeOK'
  BY <1>1, <1>3, <1>4 DEF IInv, TypeOK, Queues, Numbers
<1> QED
  BY <1>1, <1>2, <1>4, <1>5 DEF IInv, AskedBySends

\* The message handled.
LEMMA HeadType ==
    ASSUME IInv, NEW w \in Workers, Handles(w)
    PROVE  /\ Head(swapmq_[w]) \in Message
           /\ Head(swapmq_[w]).session \in -MaxSends..MaxSends
           /\ -Head(swapmq_[w]).session \in -MaxSends..MaxSends
           /\ Head(swapmq_[w]).sender \in Services \cup {Nobody}
<1>1. Head(swapmq_[w]) \in Message
  BY TailOf DEF IInv, TypeOK, Handles
<1> QED
  BY <1>1, MessagingAssumption DEF Message

LEMMA HandleDeadStep ==
    ASSUME IInv, NEW w \in Workers, HandleDead(w)
    PROVE  IInv'
<1>1. Kept(mq_, mq_')
  BY HeadType, ResponseKeeps, KeptReflexive DEF HandleDead, IInv, TypeOK, Queues
<1>2. mq_' \in Queues /\ swapmq_' \in Queues /\ Aloud'
  BY <1>1, QuietStep DEF HandleDead, Handles, Handled, history
<1>3. PreviousIsThere'
  BY PreviousStep DEF HandleDead, tables
<1>4. ser' \in [Workers -> Services \cup {Nobody}]
  BY DEF HandleDead, IInv, TypeOK
<1>5. UNCHANGED <<tables, bounds, asked, owed, history>>
  BY DEF HandleDead
<1>6. TypeOK'
  BY <1>2, <1>4, <1>5 DEF IInv, TypeOK, Queues, tables, bounds, history
<1> QED
  BY <1>2, <1>3, <1>5, <1>6 DEF IInv, AskedBySends, bounds

\* A service handles a message, whatever its callback does.
LEMMA DispatchStep ==
    ASSUME IInv, NEW w \in Workers, NEW s \in Services, NEW m, Finds(w, s, m),
           Kept(mq_, mq_'),
           sends' \in 0..MaxSends, twists' \in 0..MaxTwists,
           asked' \in [Services -> 0..MaxSends], \A t \in Services : asked'[t] <= sends',
           owed' \in [Services -> SUBSET Request],
           got' \in [Services -> [Sessions -> Nat]],
           again' \in [Services -> [Sessions -> Nat]],
           lost' \subseteq Request
    PROVE  IInv'
<1>1. /\ Handles(w) /\ Handled(w)
      /\ s = Found(w, Head(swapmq_[w]))
      /\ ser' = [ser EXCEPT ![w] = s]
      /\ UNCHANGED <<alive, removals, exited, speakers, heard, resent>>
  BY DEF Finds, tables
<1>2. mq_' \in Queues /\ swapmq_' \in Queues /\ Aloud'
  BY <1>1, QuietStep DEF Handles, Handled
<1>3. PreviousIsThere'
  BY <1>1, PreviousStep
<1>4. TypeOK'
  BY <1>1, <1>2 DEF IInv, TypeOK, Queues
<1> QED
  BY <1>2, <1>3, <1>4 DEF IInv, AskedBySends

\* What a service is given, and the answers that its script has got by then.
LEMMA FindsType ==
    ASSUME IInv, NEW w \in Workers, NEW s \in Services, NEW m, Finds(w, s, m)
    PROVE  /\ m \in Message /\ m.broadcast = 0
           /\ m.session \in -MaxSends..MaxSends /\ -m.session \in -MaxSends..MaxSends
           /\ m.sender \in Services \cup {Nobody}
           /\ IsRequest(m) => RequestOf(m) \in Request /\ m.sender \in Services
           /\ Dispatches(w, s, m) => /\ got' \in [Services -> [Sessions -> Nat]]
                                     /\ again' \in [Services -> [Sessions -> Nat]]
<1>1. /\ m \in Message /\ m.broadcast = 0
      /\ m.session \in -MaxSends..MaxSends /\ -m.session \in -MaxSends..MaxSends
      /\ m.sender \in Services \cup {Nobody}
  BY HeadType DEF Finds
<1>2. IsRequest(m) => RequestOf(m) \in Request /\ m.sender \in Services
  BY <1>1, LostType DEF IsRequest
<1>3. ASSUME Dispatches(w, s, m)
      PROVE  /\ got' \in [Services -> [Sessions -> Nat]]
             /\ again' \in [Services -> [Sessions -> Nat]]
  <2>1. got \in [Services -> [Sessions -> Nat]] /\ again \in [Services -> [Sessions -> Nat]]
    BY DEF IInv, TypeOK
  <2>2. IsAnswer(m) => m.session \in Sessions
    BY <1>1, MessagingAssumption DEF IsAnswer, Sessions
  <2>3. got' = got \/ (IsAnswer(m) /\ got' = [got EXCEPT ![s][m.session] = @ + 1])
    BY <1>3, Zenon DEF Dispatches
  <2>4. again' = again \/ (IsAnswer(m) /\ again' = [again EXCEPT ![s][m.session] = @ + 1])
    BY <1>3, Zenon DEF Dispatches
  <2>5. got' \in [Services -> [Sessions -> Nat]]
    <3>1. CASE IsAnswer(m) /\ got' = [got EXCEPT ![s][m.session] = @ + 1]
      BY <2>1, <2>2, <3>1
    <3> QED
      BY <2>1, <2>3, <3>1
  <2>6. again' \in [Services -> [Sessions -> Nat]]
    <3>1. CASE IsAnswer(m) /\ again' = [again EXCEPT ![s][m.session] = @ + 1]
      BY <2>1, <2>2, <3>1
    <3> QED
      BY <2>1, <2>4, <3>1
  <2> QED
    BY <2>5, <2>6
<1> QED
  BY <1>1, <1>2, <1>3

\* What a callback may do with a request before it fails.
LEMMA TakesUp ==
    ASSUME IInv, NEW w \in Workers, NEW s \in Services, NEW m, Finds(w, s, m)
    PROVE  /\ Answer(s, m) \in Message /\ Answer(s, m).broadcast = 0
           /\ SecondError(m) \in Message /\ SecondError(m).broadcast = 0
           /\ IsRequest(m) => Keeps(s, m) \in [Services -> SUBSET Request]
<1>1. m.sender \in Services \cup {Nobody} /\ -m.session \in -MaxSends..MaxSends
  BY FindsType
<1>2. Answer(s, m) \in Message /\ Answer(s, m).broadcast = 0
  BY <1>1, MailType DEF Answer
<1>3. SecondError(m) \in Message /\ SecondError(m).broadcast = 0
  <2>1. /\ Mail(Nobody, m.sender, -m.session) \in Message
        /\ Mail(Nobody, m.sender, -m.session).broadcast = 0
    BY <1>1, MailType
  <2> QED
    BY <2>1 DEF SecondError, Message
<1>4. IsRequest(m) => Keeps(s, m) \in [Services -> SUBSET Request]
  BY FindsType DEF Keeps, IInv, TypeOK
<1> QED
  BY <1>2, <1>3, <1>4

\* Callbacks that send nothing on.
LEMMA DispatchPlainStep ==
    ASSUME IInv, NEW w \in Workers, NEW s \in Services, NEW m,
           DispatchMute(w, s, m) \/ DispatchOk(w, s, m) \/ DispatchFails(w, s, m)
    PROVE  IInv'
<1>1. Finds(w, s, m)
  BY DEF DispatchMute, DispatchOk, DispatchFails, Dispatches
<1>2. mq_ \in Queues
  BY DEF IInv, TypeOK, Queues
<1>3. Kept(mq_, mq_')
  <2>1. CASE DispatchMute(w, s, m)
    BY <1>2, <2>1, KeptReflexive DEF DispatchMute
  <2>2. CASE DispatchOk(w, s, m)
    <3>1. Kept(mq_, mq_)
      BY <1>2, KeptReflexive
    <3>2. Kept(mq_, Sent(mq_, Answer(s, m)))
      BY <1>1, <1>2, TakesUp, SentKeeps
    <3> QED
      BY <2>2, <3>1, <3>2 DEF DispatchOk
  <2>3. CASE DispatchFails(w, s, m)
    BY <1>1, <1>2, <2>3, FindsType, KeptReflexive, ResponseKeeps DEF DispatchFails
  <2> QED
    BY <2>1, <2>2, <2>3
<1>4. got' \in [Services -> [Sessions -> Nat]] /\ again' \in [Services -> [Sessions -> Nat]]
  BY <1>1, FindsType DEF DispatchMute, DispatchOk, DispatchFails, IInv, TypeOK
<1>5. owed' \in [Services -> SUBSET Request] /\ lost' \subseteq Request
  <2>1. owed \in [Services -> SUBSET Request] /\ lost \subseteq Request
    BY DEF IInv, TypeOK
  <2>2. IsRequest(m) => RequestOf(m) \in Request
    BY <1>1, FindsType
  <2>3. CASE DispatchMute(w, s, m)
    BY <2>1, <2>2, <2>3 DEF DispatchMute
  <2>4. CASE DispatchOk(w, s, m)
    BY <1>1, <2>1, <2>4, TakesUp DEF DispatchOk
  <2>5. CASE DispatchFails(w, s, m)
    BY <2>1, <2>5 DEF DispatchFails
  <2> QED
    BY <2>3, <2>4, <2>5
<1>6. UNCHANGED <<bounds, asked>>
  BY DEF DispatchMute, DispatchOk, DispatchFails
<1> QED
  BY <1>1, <1>3, <1>4, <1>5, <1>6, DispatchStep DEF bounds, IInv, TypeOK, AskedBySends

\* Callbacks that fail late.
LEMMA DispatchFailsLateStep ==
    ASSUME IInv, NEW w \in Workers, NEW s \in Services, NEW m, DispatchFailsLate(w, s, m)
    PROVE  IInv'
<1>1. /\ Finds(w, s, m) /\ Dispatches(w, s, m) /\ IsRequest(m)
      /\ UNCHANGED <<sends, asked, lost>>
  BY DEF DispatchFailsLate, Dispatches
<1>2. PICK a \in Message : a.broadcast = 0 /\ a = Answer(s, m)
  BY <1>1, TakesUp
<1>3. PICK e \in Message : e.broadcast = 0 /\ e = SecondError(m)
  BY <1>1, TakesUp
<1>4. \/ mq_' = Sent(mq_, e) /\ owed' = Keeps(s, m)
      \/ mq_' = Sent(Sent(mq_, a), e) /\ owed' = owed
  BY <1>2, <1>3 DEF DispatchFailsLate
<1>5. Kept(mq_, mq_')
  <2>1. mq_ \in Queues
    BY DEF IInv, TypeOK, Queues
  <2>2. Kept(mq_, Sent(mq_, e)) /\ Kept(mq_, Sent(mq_, a))
    BY <1>2, <1>3, <2>1, SentKeeps
  <2>3. Sent(mq_, a) \in Queues
    BY <2>2 DEF Kept
  <2>4. Kept(Sent(mq_, a), Sent(Sent(mq_, a), e))
    BY <1>3, <2>3, SentKeeps
  <2> QED
    BY <1>4, <2>2, <2>4, KeptTransitive
<1>6. owed' \in [Services -> SUBSET Request]
  BY <1>1, <1>4, TakesUp DEF IInv, TypeOK
<1>7. got' \in [Services -> [Sessions -> Nat]] /\ again' \in [Services -> [Sessions -> Nat]]
  BY <1>1, FindsType
<1>8. twists' \in 0..MaxTwists
  <2>1. twists < MaxTwists /\ twists' = twists + 1
    BY DEF DispatchFailsLate
  <2>2. twists \in 0..MaxTwists
    BY DEF IInv, TypeOK
  <2> QED
    BY <2>1, <2>2, MessagingAssumption
<1> QED
  BY <1>1, <1>5, <1>6, <1>7, <1>8, DispatchStep DEF IInv, TypeOK, AskedBySends

\* Callbacks that redirect the message, whether they fail then or not.
LEMMA DispatchRedirectsStep ==
    ASSUME IInv, NEW w \in Workers, NEW s \in Services, NEW m, NEW r \in Services,
           DispatchRedirects(w, s, m, r) \/ DispatchRedirectsAndFails(w, s, m, r)
    PROVE  IInv'
<1>1. Finds(w, s, m) /\ Dispatches(w, s, m)
  BY DEF DispatchRedirects, DispatchRedirectsAndFails, Dispatches
<1>2. mq_ \in Queues
  BY DEF IInv, TypeOK, Queues
<1>3. m \in Message /\ m.broadcast = 0 /\ MaxSends \in Nat
  BY <1>1, FindsType, MessagingAssumption
<1>4. Kept(mq_, mq_') /\ lost' \subseteq Request
  <2>1. CASE DispatchRedirects(w, s, m, r)
    <3> DEFINE on == m.session > 0
               f == [m EXCEPT !.receiver = r, !.forwarded = on]
    <3>1. f \in Message /\ f.broadcast = 0
      <4>1. on \in BOOLEAN
        OBVIOUS
      <4> HIDE DEF on
      <4> QED
        BY <1>3, <4>1 DEF Message
    <3>2. mq_' = Sent(mq_, f) /\ lost' = lost \cup LostWith(f)
      BY <2>1 DEF DispatchRedirects
    <3> HIDE DEF f
    <3> QED
      BY <1>2, <3>1, <3>2, SentKeeps, LostType DEF IInv, TypeOK
  <2>2. CASE DispatchRedirectsAndFails(w, s, m, r)
    <3> DEFINE on == m.session # 0
               n == IF m.session < 0 THEN -m.session ELSE m.session
               f == [m EXCEPT !.receiver = r, !.session = n, !.forwarded = on]
    <3>1. f \in Message /\ f.broadcast = 0
      <4>1. on \in BOOLEAN /\ n \in -MaxSends..MaxSends
        BY <1>1, FindsType
      <4> HIDE DEF on, n
      <4> QED
        BY <1>3, <4>1 DEF Message
    <3>2. mq_' = IF m.session >= 0 THEN Sent(mq_, f)
                 ELSE Sent(Response(mq_, m.sender, -m.session), f)
      BY <2>2 DEF DispatchRedirectsAndFails
    <3>3. lost' = lost
      BY <2>2 DEF DispatchRedirectsAndFails
    <3>4. m.sender \in Services \cup {Nobody} /\ -m.session \in -MaxSends..MaxSends
      BY <1>1, FindsType
    <3> HIDE DEF f
    <3>5. Kept(mq_, Sent(mq_, f))
      BY <1>2, <3>1, SentKeeps
    <3>6. Kept(mq_, Sent(Response(mq_, m.sender, -m.session), f))
      BY <1>2, <3>1, <3>4, ResponseSentKeeps
    <3> QED
      BY <3>2, <3>3, <3>5, <3>6 DEF IInv, TypeOK
  <2> QED
    BY <2>1, <2>2
<1>5. got' \in [Services -> [Sessions -> Nat]] /\ again' \in [Services -> [Sessions -> Nat]]
  BY <1>1, FindsType
<1>6. twists' \in 0..MaxTwists /\ UNCHANGED <<sends, asked, owed>>
  BY SMTT(20), ZenonT(60), MessagingAssumption DEF DispatchRedirects, DispatchRedirectsAndFails, IInv, TypeOK
<1> QED
  BY <1>1, <1>4, <1>5, <1>6, DispatchStep DEF IInv, TypeOK, AskedBySends

\* Callbacks that resend it.
LEMMA DispatchResendsStep ==
    ASSUME IInv, NEW w \in Workers, NEW s \in Services, NEW m, NEW r \in Services,
           DispatchResends(w, s, m, r) \/ DispatchResendsAndFails(w, s, m, r)
    PROVE  IInv'
<1> DEFINE n == asked[s] + 1
<1>1. Finds(w, s, m) /\ Dispatches(w, s, m)
  BY DEF DispatchResends, DispatchResendsAndFails, Dispatches
<1>2. mq_ \in Queues
  BY DEF IInv, TypeOK, Queues
<1>3. /\ n \in -MaxSends..MaxSends
      /\ -n \in -MaxSends..MaxSends
      /\ sends' \in 0..MaxSends
      /\ asked' \in [Services -> 0..MaxSends]
      /\ \A t \in Services : asked'[t] <= sends'
  BY NextRequest DEF DispatchResends, DispatchResendsAndFails
<1>4. IsRequest(m) => RequestOf(m) \in Request /\ Keeps(s, m) \in [Services -> SUBSET Request]
  BY <1>1, FindsType, TakesUp
<1>5. /\ Kept(mq_, mq_')
      /\ lost' \subseteq Request
      /\ owed' \in [Services -> SUBSET Request]
  <2>1. CASE DispatchResends(w, s, m, r)
    <3> DEFINE f == Mail(s, r, -n)
    <3>1. f \in Message /\ f.broadcast = 0
      BY <1>3, MailType
    <3>2. /\ mq_' = Sent(mq_, f)
          /\ lost' = lost \cup LostWith(f)
          /\ owed' = IF IsRequest(m) THEN Keeps(s, m) ELSE owed
      BY <2>1 DEF DispatchResends
    <3> HIDE DEF f
    <3> QED
      BY <1>2, <1>4, <3>1, <3>2, SentKeeps, LostType DEF IInv, TypeOK
  <2>2. CASE DispatchResendsAndFails(w, s, m, r)
    <3>1. PICK f : f = [Mail(s, r, n) EXCEPT !.forwarded = TRUE]
      OBVIOUS
    <3>2. f \in Message /\ f.broadcast = 0
      <4>1. Mail(s, r, n) \in Message /\ Mail(s, r, n).broadcast = 0
        BY <1>3, MailType
      <4> QED
        BY <3>1, <4>1 DEF Message
    <3>3. PICK a : a = Sent(mq_, Answer(s, m))
      OBVIOUS
    <3>4. /\ \/ mq_' = Sent(Response(mq_, s, n), f)
             \/ mq_' = Sent(Response(a, s, n), f)
          /\ lost' = lost \/ (IsRequest(m) /\ lost' = lost \cup {RequestOf(m)})
          /\ owed' = owed \/ (IsRequest(m) /\ owed' = Keeps(s, m))
      BY <2>2, <3>1, <3>3 DEF DispatchResendsAndFails
    <3>5. Kept(mq_, a) /\ a \in Queues
      BY <1>1, <1>2, <3>3, TakesUp, SentKeeps DEF Kept
    <3>6. Kept(mq_, Sent(Response(mq_, s, n), f))
      BY <1>2, <1>3, <3>2, ResponseSentKeeps
    <3>7. Kept(a, Sent(Response(a, s, n), f))
      BY <1>3, <3>2, <3>5, ResponseSentKeeps
    <3>8. Kept(mq_, mq_')
      BY <3>4, <3>5, <3>6, <3>7, KeptTransitive
    <3> QED
      BY <1>4, <3>4, <3>8 DEF IInv, TypeOK
  <2> QED
    BY <2>1, <2>2
<1>6. got' \in [Services -> [Sessions -> Nat]] /\ again' \in [Services -> [Sessions -> Nat]]
  BY <1>1, FindsType
<1>7. twists' \in 0..MaxTwists
  <2>1. twists < MaxTwists /\ twists' = twists + 1
    BY DEF DispatchResends, DispatchResendsAndFails
  <2>2. twists \in 0..MaxTwists
    BY DEF IInv, TypeOK
  <2> QED
    BY <2>1, <2>2, MessagingAssumption
<1> QED
  BY <1>1, <1>3, <1>5, <1>6, <1>7, DispatchStep

-----------------------------------------------------------------------------
(* The other tasks. *)

LEMMA SwapKeeps ==
    ASSUME IInv, NEW w \in Workers, Swap(w)
    PROVE  IInv'
<1>1. /\ ser' = [ser EXCEPT ![w] = Nobody]
      /\ swapmq_' = [swapmq_ EXCEPT ![w] = mq_[w]]
      /\ UNCHANGED <<tables, bounds, asked, owed, history>>
  BY DEF Swap
<1>2. mq_' \in Queues /\ swapmq_' \in Queues /\ Aloud'
  BY SwapStep
<1>3. TypeOK'
  BY <1>1, <1>2 DEF IInv, TypeOK, Queues, tables, bounds, history
<1>4. \A v \in Workers : v # w => ser'[v] = ser[v] /\ swapmq_'[v] = swapmq_[v]
  BY <1>1 DEF IInv, TypeOK
<1>5. ser'[w] = Nobody
  BY <1>1 DEF IInv, TypeOK
<1>6. PreviousIsThere'
  BY <1>1, <1>4, <1>5 DEF IInv, PreviousIsThere, Handles, tables
<1> QED
  BY <1>1, <1>2, <1>3, <1>6 DEF IInv, AskedBySends, bounds

\* A service leaves while its worker is between drain tasks.
LEMMA LeaveStep ==
    ASSUME IInv, NEW s \in Services, NEW q, Kept(mq_, q), Leave(s, q),
           Between(WorkerOf[s]), removals' \subseteq removals,
           UNCHANGED <<swapmq_, ser, exited, bounds, asked, got, again, heard, resent>>
    PROVE  IInv'
<1>1. mq_' \in Queues /\ speakers' \in Seq(Services) /\ Aloud'
  BY BroadcastStep DEF Leave
<1>2. /\ alive' = alive \ {s}
      /\ owed' \in [Services -> SUBSET Request]
      /\ lost' \subseteq Request
  BY DEF Leave, IInv, TypeOK
<1>3. TypeOK'
  BY <1>1, <1>2 DEF IInv, TypeOK, Queues, bounds
<1>4. PreviousIsThere'
  BY <1>2 DEF IInv, PreviousIsThere, Handles, Between
<1> QED
  BY <1>1, <1>3, <1>4 DEF IInv, AskedBySends, bounds

LEMMA QuitStep ==
    ASSUME IInv, NEW s \in Services, Quit(s)
    PROVE  IInv'
<1>1. Kept(mq_, mq_)
  BY KeptReflexive DEF IInv, TypeOK, Queues
<1> QED
  BY <1>1, LeaveStep DEF Quit

LEMMA RemoveTaskStep ==
    ASSUME IInv, NEW x \in removals, RemoveTask(x)
    PROVE  IInv'
<1> DEFINE q == Response(mq_, x.request.from, x.request.n)
<1>1. x \in Removal
  BY DEF IInv, TypeOK
<1>2. x.id \in Services /\ x.request.from \in Services /\ x.request.n \in -MaxSends..MaxSends
  BY <1>1, MessagingAssumption DEF Removal, Request, Sessions
<1>3. Kept(mq_, q)
  BY <1>2, ResponseKeeps DEF IInv, TypeOK, Queues
<1>4. /\ Between(WorkerOf[x.id])
      /\ removals' \subseteq removals
      /\ \/ Leave(x.id, q)
         \/ mq_' = q /\ UNCHANGED <<alive, lost, owed, speakers>>
      /\ UNCHANGED <<swapmq_, ser, exited, bounds, asked, got, again, heard, resent>>
  BY DEF RemoveTask
<1> HIDE DEF q
<1>5. CASE Leave(x.id, q)
  BY <1>2, <1>3, <1>4, <1>5, LeaveStep
<1>6. CASE mq_' = q /\ UNCHANGED <<alive, lost, owed, speakers>>
  <2>1. mq_' \in Queues /\ Aloud'
    BY <1>3, <1>4, <1>6, QuietStep
  <2>2. /\ removals' \subseteq Removal
        /\ UNCHANGED <<sends, twists, asked>>
        /\ sends <= sends
        /\ \A s \in Services : asked[s] <= sends
    BY <1>4, MessagingAssumption DEF bounds, IInv, TypeOK, AskedBySends
  <2> QED
    BY <1>4, <1>6, <2>1, <2>2, ScriptStep DEF IInv, TypeOK
<1> QED
  BY <1>4, <1>5, <1>6

LEMMA ExitStep ==
    ASSUME IInv, NEW w \in Workers, Exit(w)
    PROVE  IInv'
<1>1. TypeOK'
  BY DEF Exit, IInv, TypeOK, bounds, history
<1>2. PreviousIsThere' /\ AskedBySends' /\ Aloud'
  BY DEF Exit, IInv, PreviousIsThere, Handles, AskedBySends, Aloud, BroadcastsOK, HeardOK,
     bounds, history
<1> QED
  BY <1>1, <1>2 DEF IInv

-----------------------------------------------------------------------------
(* The theorems. *)

\* The invariant holds at first.
LEMMA InitIInv == Init => IInv
<1> SUFFICES ASSUME Init PROVE IInv
  OBVIOUS
<1>1. TypeOK
  BY MessagingAssumption, EmptySeq DEF Init, TypeOK
<1>2. Len(speakers) = 0
  BY EmptySeq DEF Init
<1>3. BroadcastsOK
  BY <1>2, EmptyQueue DEF Init, BroadcastsOK, Numbers
<1>4. HeardOK
  BY DEF Init, HeardOK, Numbers
<1>5. AskedBySends /\ PreviousIsThere
  BY DEF Init, AskedBySends, PreviousIsThere
<1> QED
  BY <1>1, <1>2, <1>3, <1>4, <1>5, MessagingAssumption DEF IInv, Aloud

\* A service that is found is one.
LEMMA FoundService ==
    ASSUME TypeOK, NEW w \in Workers, NEW s, NEW m, Finds(w, s, m)
    PROVE  s \in Services
BY DEF Finds, Found, Here, TypeOK

\* What the handling of a message is.
LEMMA HandleCases ==
    ASSUME TypeOK, NEW w \in Workers, Handle(w)
    PROVE  \/ HandleBroadcast(w) \/ HandleBroadcastResent(w) \/ HandleDead(w)
           \/ \E s \in Services : \E m :
                  \/ DispatchMute(w, s, m) \/ DispatchOk(w, s, m) \/ DispatchFails(w, s, m)
                  \/ DispatchFailsLate(w, s, m)
                  \/ \E r \in Services :
                         \/ DispatchRedirects(w, s, m, r)
                         \/ DispatchRedirectsAndFails(w, s, m, r)
                         \/ DispatchResends(w, s, m, r)
                         \/ DispatchResendsAndFails(w, s, m, r)
<1>1. PICK m : m = Head(swapmq_[w])
  OBVIOUS
<1>2. PICK s : s = Found(w, m)
  OBVIOUS
<1>3. CASE HandleBroadcast(w) \/ HandleBroadcastResent(w) \/ HandleDead(w)
  BY <1>3
<1>4. CASE \/ DispatchMute(w, s, m) \/ DispatchOk(w, s, m) \/ DispatchFails(w, s, m)
           \/ DispatchFailsLate(w, s, m)
  <2>1. s \in Services
    BY <1>4, FoundService DEF DispatchMute, DispatchOk, DispatchFails, DispatchFailsLate,
       Dispatches
  <2> QED
    BY <1>4, <2>1
<1>5. ASSUME NEW r \in Services,
             \/ DispatchRedirects(w, s, m, r) \/ DispatchRedirectsAndFails(w, s, m, r)
             \/ DispatchResends(w, s, m, r) \/ DispatchResendsAndFails(w, s, m, r)
      PROVE  s \in Services
  BY <1>5, FoundService DEF DispatchRedirects, DispatchRedirectsAndFails, DispatchResends,
     DispatchResendsAndFails, Dispatches
<1> QED
  BY <1>1, <1>2, <1>3, <1>4, <1>5 DEF Handle

\* Every step keeps it.
LEMMA NextIInv == IInv /\ [Next]_vars => IInv'
<1> SUFFICES ASSUME IInv, [Next]_vars PROVE IInv'
  OBVIOUS
<1>1. ASSUME NEW s \in Services, NEW r \in Services,
             ScriptNotify(s, r) \/ ScriptAsk(s, r) \/ ScriptRemove(s, r)
      PROVE  IInv'
  BY <1>1, ScriptNotifyStep, ScriptAskStep, ScriptRemoveStep
<1>2. ASSUME NEW s \in Services, NEW q \in owed[s], ScriptAnswer(s, q)
      PROVE  IInv'
  BY <1>2, ScriptAnswerStep
<1>3. ASSUME NEW s \in Services,
             ScriptBroadcast(s) \/ ScriptBroadcastNothing(s) \/ Quit(s)
      PROVE  IInv'
  BY <1>3, ScriptBroadcastStep, ScriptBroadcastNothingStep, QuitStep
<1>4. ASSUME NEW x \in removals, RemoveTask(x)
      PROVE  IInv'
  BY <1>4, RemoveTaskStep
<1>5. ASSUME NEW w \in Workers, Handle(w)
      PROVE  IInv'
  <2>1. ASSUME NEW s \in Services, NEW m,
               DispatchMute(w, s, m) \/ DispatchOk(w, s, m) \/ DispatchFails(w, s, m)
                   \/ DispatchFailsLate(w, s, m)
        PROVE  IInv'
    BY <2>1, DispatchPlainStep, DispatchFailsLateStep
  <2>2. ASSUME NEW s \in Services, NEW m, NEW r \in Services,
               \/ DispatchRedirects(w, s, m, r) \/ DispatchRedirectsAndFails(w, s, m, r)
               \/ DispatchResends(w, s, m, r) \/ DispatchResendsAndFails(w, s, m, r)
        PROVE  IInv'
    BY <2>2, DispatchRedirectsStep, DispatchResendsStep
  <2>3. TypeOK
    BY DEF IInv
  <2> QED
    BY <1>5, <2>1, <2>2, <2>3, HandleCases, BroadcastsHandled, HandleDeadStep
<1>6. ASSUME NEW w \in Workers, Swap(w) \/ Exit(w)
      PROVE  IInv'
  BY <1>6, SwapKeeps, ExitStep
<1>7. CASE UNCHANGED vars
  BY <1>7 DEF vars, bounds, tables, history, IInv, TypeOK, AskedBySends, PreviousIsThere,
     Handles, Aloud, BroadcastsOK, HeardOK
<1> QED
  BY <1>1, <1>2, <1>3, <1>4, <1>5, <1>6, <1>7 DEF Next

LEMMA Invariance == Spec => []IInv
BY InitIInv, NextIInv, PTL DEF Spec

\* Every variable of the router, the queues and the services keeps its type.
THEOREM Typing == Spec => []TypeOK
<1>1. IInv => TypeOK
  BY DEF IInv
<1> QED
  BY <1>1, Invariance, PTL

\* The bare pointer that handle_one keeps from message to message (worker.cpp) never
\* dangles: the service is in the table as long as the drain task runs.
THEOREM PreviousServiceLives == Spec => []SerIsThere
<1>1. IInv => SerIsThere
  BY DEF IInv, PreviousIsThere, SerIsThere, Here
<1> QED
  BY <1>1, Invariance, PTL

\* Nobody hears a broadcast twice, and nobody his own unless it was resent
\* (router::broadcast, worker::handle_one).
THEOREM BroadcastsAreHeardOnce == Spec => []BroadcastOnce
<1>1. IInv => BroadcastOnce
  <2> SUFFICES ASSUME IInv, NEW b \in 1..Len(speakers), NEW s \in Services
               PROVE  heard[b][s] <= IF s = speakers[b] /\ b \notin resent THEN 0 ELSE 1
    BY DEF BroadcastOnce
  <2>1. b \in Numbers
    BY LenProperties, MessagingAssumption DEF IInv, TypeOK, Aloud, Numbers
  <2> QED
    BY <2>1 DEF IInv, Aloud, HeardOK
<1> QED
  BY <1>1, Invariance, PTL

-----------------------------------------------------------------------------
(* Where a request is. *)

\* The message m is the request r, or an answer to it that was not sent on.
Asks(m, r) == IsRequest(m) /\ RequestOf(m) = r
AnswerTo(m, r) == m.receiver = r.from /\ m.session = r.n /\ ~m.forwarded

\* What stands for the second error of the request r.
Second(r) == [second |-> r]

\* The message m is the request x, or an answer to it that is no second error.  Or x stands
\* for the second error of a request, and m is that request or the error.
Mentions(m, x) ==
    IF x \in Request THEN Asks(m, x) \/ (AnswerTo(m, x) /\ ~m.second)
    ELSE \E r \in Request : x = Second(r) /\ (Asks(m, r) \/ (AnswerTo(m, r) /\ m.second))

\* The queue q holds such a message, and not two of them.
Bears(q, r) == \E i \in 1..Len(q) : Mentions(q[i], r)
Once(q, r) == \A i, j \in 1..Len(q) : Mentions(q[i], r) /\ Mentions(q[j], r) => i = j

GotPlaces(r) == IF got[r.from][r.n] > 0 THEN {<<"got", 0>>} ELSE {}

Where(r) ==
    {<<"mq", w>> : w \in {v \in Workers : Bears(mq_[v], r)}}
    \cup {<<"swapmq", w>> : w \in {v \in Workers : Bears(swapmq_[v], r)}}
    \cup {<<"removal", x>> : x \in {y \in removals : y.request = r}}
    \cup {<<"owed", t>> : t \in {u \in Services : r \in owed[u]}}
    \cup GotPlaces(r)

\* A request that was made is in one place; one of a service that is alive is not
\* nowhere, unless it was lost.
Token(r) ==
    /\ \A v \in Workers : Once(mq_[v], r) /\ Once(swapmq_[v], r)
    /\ \A p, q \in Where(r) : p = q
    /\ Where(r) # {} => r.n <= asked[r.from]
    /\ got[r.from][r.n] <= 1
    /\ r.from \in alive /\ r.n <= asked[r.from] => Where(r) # {} \/ r \in lost

Tokens == \A r \in Request : Token(r)

\* Messages are in the queues of the worker of their receiver, and broadcasts have no
\* session.
Proper(q, w) ==
    \A i \in 1..Len(q) :
        /\ q[i].broadcast # 0 => q[i].session = 0
        /\ q[i].receiver # Nobody => WorkerOf[q[i].receiver] = w

ProperQueues == \A w \in Workers : Proper(mq_[w], w) /\ Proper(swapmq_[w], w)

OwedByLiving == \A t \in Services : owed[t] # {} => t \in alive

MuteAskNothing == \A s \in Mute : asked[s] = 0

Books == ProperQueues /\ OwedByLiving /\ MuteAskNothing
-----------------------------------------------------------------------------
(* Queues of messages, again. *)

\* No message mentions two requests.
LEMMA MentionsOne ==
    ASSUME NEW m \in Message, NEW r \in Request, NEW q \in Request,
           Mentions(m, r), Mentions(m, q)
    PROVE  r = q
<1>1. /\ r = [from |-> r.from, n |-> r.n] /\ q = [from |-> q.from, n |-> q.n]
      /\ r.n > 0 /\ q.n > 0 /\ r.n \in Int /\ q.n \in Int
  BY MessagingAssumption DEF Request, Sessions
<1>2. CASE IsRequest(m)
  <2>1. ~(m.session = r.n) /\ ~(m.session = q.n)
    BY <1>1, <1>2 DEF IsRequest
  <2> QED
    BY <2>1 DEF Mentions, Asks, AnswerTo
<1>3. CASE ~IsRequest(m)
  BY <1>1, <1>3 DEF Mentions, Asks, AnswerTo
<1> QED
  BY <1>2, <1>3

LEMMA AppendBears ==
    ASSUME NEW q \in Seq(Message), NEW m \in Message, NEW r
    PROVE  /\ Append(q, m) \in Seq(Message)
           /\ Bears(Append(q, m), r) <=> Bears(q, r) \/ Mentions(m, r)
           /\ Once(q, r) /\ ~(Bears(q, r) /\ Mentions(m, r)) => Once(Append(q, m), r)
<1> DEFINE t == Append(q, m)
<1>1. /\ t \in Seq(Message)
      /\ Len(t) = Len(q) + 1
      /\ Len(q) \in Nat
      /\ \A i \in 1..Len(q) : t[i] = q[i]
      /\ t[Len(q) + 1] = m
  BY AppendProperties, LenProperties
<1> HIDE DEF t
<1>2. \A i \in 1..Len(t) : i \in 1..Len(q) \/ i = Len(q) + 1
  BY <1>1
<1>3. Bears(t, r) <=> Bears(q, r) \/ Mentions(m, r)
  <2>1. Bears(t, r) => Bears(q, r) \/ Mentions(m, r)
    BY <1>1, <1>2 DEF Bears
  <2>2. Bears(q, r) => Bears(t, r)
    <3> SUFFICES ASSUME NEW i \in 1..Len(q), Mentions(q[i], r)
                 PROVE  Bears(t, r)
      BY DEF Bears
    <3>1. i \in 1..Len(t) /\ t[i] = q[i]
      BY <1>1
    <3> QED
      BY <3>1 DEF Bears
  <2>3. Mentions(m, r) => Bears(t, r)
    <3>1. Len(q) + 1 \in 1..Len(t)
      BY <1>1
    <3> QED
      BY <1>1, <3>1 DEF Bears
  <2> QED
    BY <2>1, <2>2, <2>3
<1>4. ASSUME Once(q, r), ~(Bears(q, r) /\ Mentions(m, r))
      PROVE  Once(t, r)
  <2> SUFFICES ASSUME NEW i \in 1..Len(t), NEW j \in 1..Len(t),
                      Mentions(t[i], r), Mentions(t[j], r)
               PROVE  i = j
    BY DEF Once
  <2>1. CASE i \in 1..Len(q) /\ j \in 1..Len(q)
    BY <1>1, <1>4, <2>1 DEF Once
  <2>2. CASE i = Len(q) + 1 /\ j = Len(q) + 1
    BY <2>2
  <2>3. CASE i \in 1..Len(q) /\ j = Len(q) + 1
    BY <1>1, <1>4, <2>3 DEF Bears
  <2>4. CASE i = Len(q) + 1 /\ j \in 1..Len(q)
    BY <1>1, <1>4, <2>4 DEF Bears
  <2> QED
    BY <1>2, <2>1, <2>2, <2>3, <2>4
<1> QED
  BY <1>1, <1>3, <1>4 DEF t

LEMMA TailBears ==
    ASSUME NEW q \in Seq(Message), q # <<>>, NEW r
    PROVE  /\ Tail(q) \in Seq(Message) /\ Head(q) \in Message
           /\ Bears(q, r) <=> Mentions(Head(q), r) \/ Bears(Tail(q), r)
           /\ Once(q, r) => Once(Tail(q), r)
           /\ Once(q, r) /\ Mentions(Head(q), r) => ~Bears(Tail(q), r)
<1> DEFINE t == Tail(q)
<1>1. /\ t \in Seq(Message)
      /\ Head(q) \in Message
      /\ Len(q) \in Nat \ {0}
      /\ Len(t) = Len(q) - 1
      /\ \A i \in 1..Len(t) : t[i] = q[i + 1]
      /\ Head(q) = q[1]
  BY HeadTailProperties, LenProperties, EmptySeq
<1> HIDE DEF t
<1>2. 1 \in 1..Len(q) /\ \A i \in 1..Len(t) : i + 1 \in 1..Len(q) /\ i + 1 # 1
  BY <1>1
<1>3. Bears(q, r) <=> Mentions(Head(q), r) \/ Bears(t, r)
  <2>1. ASSUME NEW i \in 1..Len(q), Mentions(q[i], r)
        PROVE  Mentions(Head(q), r) \/ Bears(t, r)
    <3>1. CASE i = 1
      BY <1>1, <2>1, <3>1
    <3>2. CASE i # 1
      <4>1. i - 1 \in 1..Len(t) /\ (i - 1) + 1 = i
        BY <1>1, <3>2
      <4>2. t[i - 1] = q[i]
        BY <1>1, <4>1
      <4> QED
        BY <2>1, <4>1, <4>2 DEF Bears
    <3> QED
      BY <3>1, <3>2
  <2>2. Mentions(Head(q), r) => Bears(q, r)
    BY <1>1, <1>2 DEF Bears
  <2>3. Bears(t, r) => Bears(q, r)
    BY <1>1, <1>2 DEF Bears
  <2> QED
    BY <2>1, <2>2, <2>3 DEF Bears
<1>4. ASSUME Once(q, r)
      PROVE  Once(t, r)
  <2> SUFFICES ASSUME NEW i \in 1..Len(t), NEW j \in 1..Len(t),
                      Mentions(t[i], r), Mentions(t[j], r)
               PROVE  i = j
    BY DEF Once
  <2>1. i + 1 = j + 1
    BY <1>1, <1>2, <1>4 DEF Once
  <2> QED
    BY <1>1, <2>1
<1>5. ASSUME Once(q, r), Mentions(Head(q), r), NEW i \in 1..Len(t), Mentions(t[i], r)
      PROVE  FALSE
  BY <1>1, <1>2, <1>5 DEF Once
<1> QED
  BY <1>1, <1>3, <1>4, <1>5 DEF t, Bears

LEMMA EmptyBears ==
    ASSUME NEW r
    PROVE  ~Bears(<<>>, r) /\ Once(<<>>, r)
BY EmptySeq DEF Bears, Once

LEMMA NotBearsOnce ==
    ASSUME NEW q, NEW r, ~Bears(q, r)
    PROVE  Once(q, r)
BY DEF Bears, Once

\* What is said of r in the queues q and t is the same.
Same(q, t, r) ==
    \A v \in Workers : /\ Bears(t[v], r) <=> Bears(q[v], r)
                       /\ Once(q[v], r) => Once(t[v], r)

\* The queues t are the queues q, where r is not, and r at the worker u.
Gains(q, t, r, u) ==
    (\A v \in Workers : ~Bears(q[v], r)) =>
        \A v \in Workers : (Bears(t[v], r) <=> v = u) /\ Once(t[v], r)

LEMMA SameSame ==
    ASSUME NEW q, NEW t, NEW x, NEW r, Same(q, t, r), Same(t, x, r)
    PROVE  Same(q, x, r)
BY DEF Same

LEMMA GainsSame ==
    ASSUME NEW q, NEW t, NEW x, NEW r, NEW u, Gains(q, t, r, u), Same(t, x, r)
    PROVE  Gains(q, x, r, u)
BY DEF Same, Gains

\* A message that does not mention r, or goes nowhere.
LEMMA SentSame ==
    ASSUME NEW q \in Queues, NEW m \in Message, NEW r,
           ~Mentions(m, r) \/ ~Deliverable(m)
    PROVE  Same(q, Sent(q, m), r)
<1>1. CASE ~Deliverable(m)
  BY <1>1 DEF Sent, Same
<1>2. CASE Deliverable(m)
  <2> DEFINE u == WorkerOf[m.receiver]
             t == Sent(q, m)
  <2>1. u \in Workers /\ t = [q EXCEPT ![u] = Append(q[u], m)] /\ q[u] \in Seq(Message)
    BY <1>2 DEF Deliverable, workerid_valid, Sent, Queues
  <2>2. ~Mentions(m, r)
    BY <1>2
  <2>3. \A v \in Workers : t[v] = IF v = u THEN Append(q[u], m) ELSE q[v]
    BY <2>1 DEF Queues
  <2> HIDE DEF t
  <2>4. /\ Bears(Append(q[u], m), r) <=> Bears(q[u], r)
        /\ Once(q[u], r) => Once(Append(q[u], m), r)
    BY <2>1, <2>2, AppendBears
  <2>5. Same(q, t, r)
    BY <2>3, <2>4 DEF Same
  <2> QED
    BY <2>5 DEF t
<1> QED
  BY <1>1, <1>2

\* One that mentions it and goes somewhere.
LEMMA SentGains ==
    ASSUME NEW q \in Queues, NEW m \in Message, NEW r, Mentions(m, r), Deliverable(m)
    PROVE  Gains(q, Sent(q, m), r, WorkerOf[m.receiver]) /\ WorkerOf[m.receiver] \in Workers
<1> DEFINE u == WorkerOf[m.receiver]
           t == Sent(q, m)
<1>1. u \in Workers /\ t = [q EXCEPT ![u] = Append(q[u], m)] /\ q[u] \in Seq(Message)
  BY DEF Deliverable, workerid_valid, Sent, Queues
<1>2. \A v \in Workers : t[v] = IF v = u THEN Append(q[u], m) ELSE q[v]
  BY <1>1 DEF Queues
<1> HIDE DEF t
<1>3. /\ Bears(Append(q[u], m), r)
      /\ Once(q[u], r) /\ ~Bears(q[u], r) => Once(Append(q[u], m), r)
  BY <1>1, AppendBears
<1>4. Gains(q, t, r, u)
  BY <1>1, <1>2, <1>3, NotBearsOnce DEF Gains
<1> QED
  BY <1>1, <1>4 DEF t

-----------------------------------------------------------------------------
(* Where a request is, before and after a step. *)

LEMMA WhereIs ==
    ASSUME NEW r
    PROVE  /\ \A w \in Workers : Bears(mq_[w], r) => <<"mq", w>> \in Where(r)
           /\ \A w \in Workers : Bears(swapmq_[w], r) => <<"swapmq", w>> \in Where(r)
           /\ \A x \in removals : x.request = r => <<"removal", x>> \in Where(r)
           /\ \A t \in Services : r \in owed[t] => <<"owed", t>> \in Where(r)
           /\ got[r.from][r.n] > 0 => <<"got", 0>> \in Where(r)
BY DEF Where, GotPlaces

\* A step that does nothing with r.
Frame(r) ==
    /\ Same(mq_, mq_', r)
    /\ Same(swapmq_, swapmq_', r)
    /\ {x \in removals' : x.request = r} = {x \in removals : x.request = r}
    /\ \A t \in Services : r \in owed'[t] <=> r \in owed[t]
    /\ got'[r.from][r.n] = got[r.from][r.n]
    /\ r.n <= asked'[r.from] <=> r.n <= asked[r.from]
    /\ r \in lost => r \in lost'

LEMMA FrameKeeps ==
    ASSUME NEW r, Token(r), Frame(r), alive' \subseteq alive
    PROVE  Token(r)'
<1>1. Where(r)' = Where(r)
  <2>1. {v \in Workers : Bears(mq_'[v], r)} = {v \in Workers : Bears(mq_[v], r)}
    BY DEF Frame, Same
  <2>2. {v \in Workers : Bears(swapmq_'[v], r)} = {v \in Workers : Bears(swapmq_[v], r)}
    BY DEF Frame, Same
  <2>3. {u \in Services : r \in owed'[u]} = {u \in Services : r \in owed[u]}
    BY DEF Frame
  <2>4. GotPlaces(r)' = GotPlaces(r)
    BY DEF Frame, GotPlaces
  <2> QED
    BY <2>1, <2>2, <2>3, <2>4 DEF Frame, Where
<1>2. \A v \in Workers : Once(mq_'[v], r) /\ Once(swapmq_'[v], r)
  BY DEF Token, Frame, Same
<1> QED
  BY <1>1, <1>2 DEF Token, Frame

\* Nothing of r is in the queues q, in the other places.
NotIn(q, r) == \A v \in Workers : ~Bears(q[v], r)
NotRemoving(r) == \A x \in removals : x.request # r
NotOwed(r) == \A t \in Services : r \notin owed[t]
NotGot(r) == got[r.from][r.n] = 0

\* r is in one place only, or nowhere, after a step.
LEMMA LandMq ==
    ASSUME NEW r, NEW u \in Workers,
           \A v \in Workers : (Bears(mq_'[v], r) <=> v = u) /\ Once(mq_'[v], r),
           NotIn(swapmq_', r), NotRemoving(r)', NotOwed(r)', NotGot(r)',
           r.n <= asked'[r.from]
    PROVE  Token(r)'
<1>1. Where(r)' = {<<"mq", u>>}
  <2>1. {v \in Workers : Bears(mq_'[v], r)} = {u}
    OBVIOUS
  <2>2. {v \in Workers : Bears(swapmq_'[v], r)} = {} /\ {x \in removals' : x.request = r} = {}
        /\ {t \in Services : r \in owed'[t]} = {} /\ GotPlaces(r)' = {}
    BY DEF NotIn, NotRemoving, NotOwed, NotGot, GotPlaces
  <2> QED
    BY <2>1, <2>2 DEF Where
<1> QED
  BY <1>1, NotBearsOnce DEF Token, NotIn, NotGot

LEMMA LandSwapmq ==
    ASSUME NEW r, NEW u \in Workers,
           \A v \in Workers : (Bears(swapmq_'[v], r) <=> v = u) /\ Once(swapmq_'[v], r),
           NotIn(mq_', r), NotRemoving(r)', NotOwed(r)', NotGot(r)',
           r.n <= asked'[r.from]
    PROVE  Token(r)'
<1>1. Where(r)' = {<<"swapmq", u>>}
  <2>1. {v \in Workers : Bears(swapmq_'[v], r)} = {u}
    OBVIOUS
  <2>2. {v \in Workers : Bears(mq_'[v], r)} = {} /\ {x \in removals' : x.request = r} = {}
        /\ {t \in Services : r \in owed'[t]} = {} /\ GotPlaces(r)' = {}
    BY DEF NotIn, NotRemoving, NotOwed, NotGot, GotPlaces
  <2> QED
    BY <2>1, <2>2 DEF Where
<1> QED
  BY <1>1, NotBearsOnce DEF Token, NotIn, NotGot

LEMMA LandRemoval ==
    ASSUME NEW r, NEW y,
           {x \in removals' : x.request = r} = {y},
           NotIn(mq_', r), NotIn(swapmq_', r), NotOwed(r)', NotGot(r)',
           r.n <= asked'[r.from]
    PROVE  Token(r)'
<1>1. Where(r)' = {<<"removal", y>>}
  <2>1. {v \in Workers : Bears(mq_'[v], r)} = {} /\ {v \in Workers : Bears(swapmq_'[v], r)} = {}
        /\ {t \in Services : r \in owed'[t]} = {} /\ GotPlaces(r)' = {}
    BY DEF NotIn, NotOwed, NotGot, GotPlaces
  <2> QED
    BY <2>1 DEF Where
<1> QED
  BY <1>1, NotBearsOnce DEF Token, NotIn, NotGot

LEMMA LandOwed ==
    ASSUME NEW r, NEW u \in Services,
           \A t \in Services : r \in owed'[t] <=> t = u,
           NotIn(mq_', r), NotIn(swapmq_', r), NotRemoving(r)', NotGot(r)',
           r.n <= asked'[r.from]
    PROVE  Token(r)'
<1>1. Where(r)' = {<<"owed", u>>}
  <2>1. {t \in Services : r \in owed'[t]} = {u}
    OBVIOUS
  <2>2. {v \in Workers : Bears(mq_'[v], r)} = {} /\ {v \in Workers : Bears(swapmq_'[v], r)} = {}
        /\ {x \in removals' : x.request = r} = {} /\ GotPlaces(r)' = {}
    BY DEF NotIn, NotRemoving, NotGot, GotPlaces
  <2> QED
    BY <2>1, <2>2 DEF Where
<1> QED
  BY <1>1, NotBearsOnce DEF Token, NotIn, NotGot

LEMMA LandGot ==
    ASSUME NEW r, got'[r.from][r.n] = 1,
           NotIn(mq_', r), NotIn(swapmq_', r), NotRemoving(r)', NotOwed(r)',
           r.n <= asked'[r.from]
    PROVE  Token(r)'
<1>1. Where(r)' = {<<"got", 0>>}
  <2>1. {v \in Workers : Bears(mq_'[v], r)} = {} /\ {v \in Workers : Bears(swapmq_'[v], r)} = {}
        /\ {x \in removals' : x.request = r} = {} /\ {t \in Services : r \in owed'[t]} = {}
        /\ GotPlaces(r)' = {<<"got", 0>>}
    BY DEF NotIn, NotRemoving, NotOwed, GotPlaces
  <2> QED
    BY <2>1 DEF Where
<1> QED
  BY <1>1, NotBearsOnce DEF Token, NotIn

LEMMA LandNowhere ==
    ASSUME NEW r,
           NotIn(mq_', r), NotIn(swapmq_', r), NotRemoving(r)', NotOwed(r)', NotGot(r)',
           r \in lost' \/ r.from \notin alive'
    PROVE  Token(r)'
<1>1. Where(r)' = {}
  <2>1. {v \in Workers : Bears(mq_'[v], r)} = {} /\ {v \in Workers : Bears(swapmq_'[v], r)} = {}
        /\ {x \in removals' : x.request = r} = {} /\ {t \in Services : r \in owed'[t]} = {}
        /\ GotPlaces(r)' = {}
    BY DEF NotIn, NotRemoving, NotOwed, NotGot, GotPlaces
  <2> QED
    BY <2>1 DEF Where
<1> QED
  BY <1>1, NotBearsOnce DEF Token, NotIn, NotGot

\* Where r is, it is alone.
LEMMA NewNowhere ==
    ASSUME TypeOK, NEW r \in Request, Token(r), ~(r.n <= asked[r.from])
    PROVE  /\ NotIn(mq_, r) /\ NotIn(swapmq_, r) /\ NotRemoving(r) /\ NotOwed(r) /\ NotGot(r)
<1>1. Where(r) = {}
  BY DEF Token
<1>2. got[r.from][r.n] \in Nat
  BY DEF TypeOK, Request
<1>3. NotGot(r)
  BY <1>1, <1>2, WhereIs DEF NotGot
<1> QED
  BY <1>1, <1>3, WhereIs DEF NotIn, NotRemoving, NotOwed

LEMMA SwapmqAlone ==
    ASSUME TypeOK, NEW r \in Request, Token(r), NEW w \in Workers, Bears(swapmq_[w], r)
    PROVE  /\ NotIn(mq_, r) /\ \A v \in Workers : Bears(swapmq_[v], r) => v = w
           /\ NotRemoving(r) /\ NotOwed(r) /\ NotGot(r)
           /\ r.n <= asked[r.from]
<1>1. <<"swapmq", w>> \in Where(r)
  BY WhereIs
<1>2. \A p \in Where(r) : p = <<"swapmq", w>>
  BY <1>1 DEF Token
<1>3. got[r.from][r.n] \in Nat
  BY DEF TypeOK, Request
<1>4. NotIn(mq_, r)
  BY <1>2, WhereIs DEF NotIn
<1>5. \A v \in Workers : Bears(swapmq_[v], r) => v = w
  BY <1>2, WhereIs
<1>6. NotRemoving(r)
  BY <1>2, WhereIs DEF NotRemoving
<1>7. NotOwed(r)
  BY <1>2, WhereIs DEF NotOwed
<1>8. NotGot(r)
  BY <1>2, <1>3, WhereIs DEF NotGot
<1> QED
  BY <1>1, <1>4, <1>5, <1>6, <1>7, <1>8 DEF Token

LEMMA MqAlone ==
    ASSUME TypeOK, NEW r \in Request, Token(r), NEW w \in Workers, Bears(mq_[w], r)
    PROVE  /\ \A v \in Workers : Bears(mq_[v], r) => v = w
           /\ NotIn(swapmq_, r) /\ NotRemoving(r) /\ NotOwed(r) /\ NotGot(r)
           /\ r.n <= asked[r.from]
<1>1. <<"mq", w>> \in Where(r)
  BY WhereIs
<1>2. \A p \in Where(r) : p = <<"mq", w>>
  BY <1>1 DEF Token
<1>3. got[r.from][r.n] \in Nat
  BY DEF TypeOK, Request
<1>4. NotIn(swapmq_, r)
  BY <1>2, WhereIs DEF NotIn
<1>5. \A v \in Workers : Bears(mq_[v], r) => v = w
  BY <1>2, WhereIs
<1>6. NotRemoving(r)
  BY <1>2, WhereIs DEF NotRemoving
<1>7. NotOwed(r)
  BY <1>2, WhereIs DEF NotOwed
<1>8. NotGot(r)
  BY <1>2, <1>3, WhereIs DEF NotGot
<1> QED
  BY <1>1, <1>4, <1>5, <1>6, <1>7, <1>8 DEF Token

LEMMA OwedAlone ==
    ASSUME TypeOK, NEW r \in Request, Token(r), NEW s \in Services, r \in owed[s]
    PROVE  /\ NotIn(mq_, r) /\ NotIn(swapmq_, r) /\ NotRemoving(r) /\ NotGot(r)
           /\ \A t \in Services : r \in owed[t] => t = s
           /\ r.n <= asked[r.from]
<1>1. <<"owed", s>> \in Where(r)
  BY WhereIs
<1>2. \A p \in Where(r) : p = <<"owed", s>>
  BY <1>1 DEF Token
<1>3. got[r.from][r.n] \in Nat
  BY DEF TypeOK, Request
<1>4. NotIn(mq_, r) /\ NotIn(swapmq_, r)
  BY <1>2, WhereIs DEF NotIn
<1>5. NotRemoving(r)
  BY <1>2, WhereIs DEF NotRemoving
<1>6. NotGot(r)
  BY <1>2, <1>3, WhereIs DEF NotGot
<1>7. \A t \in Services : r \in owed[t] => t = s
  BY <1>2, WhereIs
<1> QED
  BY <1>1, <1>4, <1>5, <1>6, <1>7 DEF Token

LEMMA RemovalAlone ==
    ASSUME TypeOK, NEW r \in Request, Token(r), NEW y \in removals, y.request = r
    PROVE  /\ NotIn(mq_, r) /\ NotIn(swapmq_, r) /\ NotOwed(r) /\ NotGot(r)
           /\ \A x \in removals : x.request = r => x = y
           /\ r.n <= asked[r.from]
<1>1. <<"removal", y>> \in Where(r)
  BY WhereIs
<1>2. \A p \in Where(r) : p = <<"removal", y>>
  BY <1>1 DEF Token
<1>3. got[r.from][r.n] \in Nat
  BY DEF TypeOK, Request
<1>4. NotIn(mq_, r) /\ NotIn(swapmq_, r)
  BY <1>2, WhereIs DEF NotIn
<1>5. NotOwed(r)
  BY <1>2, WhereIs DEF NotOwed
<1>6. NotGot(r)
  BY <1>2, <1>3, WhereIs DEF NotGot
<1>7. \A x \in removals : x.request = r => x = y
  BY <1>2, WhereIs
<1> QED
  BY <1>1, <1>4, <1>5, <1>6, <1>7 DEF Token

\* The first message of a drain task is taken away, with the request it mentions.
LEMMA HeadTaken ==
    ASSUME TypeOK, NEW w \in Workers, Handles(w), Handled(w), NEW r \in Request, Token(r)
    PROVE  /\ Head(swapmq_[w]) \in Message
           /\ ~Mentions(Head(swapmq_[w]), r) => Same(swapmq_, swapmq_', r)
           /\ Mentions(Head(swapmq_[w]), r) =>
                  /\ NotIn(mq_, r) /\ NotIn(swapmq_', r)
                  /\ NotRemoving(r) /\ NotOwed(r) /\ NotGot(r)
                  /\ r.n <= asked[r.from]
<1> DEFINE m == Head(swapmq_[w])
           q == swapmq_[w]
<1>1. q \in Seq(Message) /\ q # <<>>
  BY DEF TypeOK, Handles
<1>2. \A v \in Workers : swapmq_'[v] = IF v = w THEN Tail(q) ELSE swapmq_[v]
  BY DEF Handled, TypeOK
<1>3. /\ m \in Message
      /\ Bears(q, r) <=> Mentions(m, r) \/ Bears(Tail(q), r)
      /\ Once(q, r) => Once(Tail(q), r)
      /\ Once(q, r) /\ Mentions(m, r) => ~Bears(Tail(q), r)
  BY <1>1, TailBears
<1>4. ~Mentions(m, r) => Same(swapmq_, swapmq_', r)
  BY <1>2, <1>3 DEF Same
<1>5. ASSUME Mentions(m, r)
      PROVE  /\ NotIn(mq_, r) /\ NotIn(swapmq_', r)
             /\ NotRemoving(r) /\ NotOwed(r) /\ NotGot(r)
             /\ r.n <= asked[r.from]
  <2>1. Bears(swapmq_[w], r)
    BY <1>3, <1>5
  <2>2. ~Bears(Tail(q), r)
    BY <1>3, <1>5 DEF Token
  <2> HIDE DEF q
  <2>3. NotIn(swapmq_', r)
    BY <1>2, <2>1, <2>2, SwapmqAlone DEF NotIn
  <2> QED
    BY <2>1, <2>3, SwapmqAlone
<1> QED
  BY <1>3, <1>4, <1>5

-----------------------------------------------------------------------------
(* What the messages mention. *)

Silent(m) == \A r \in Request : ~Mentions(m, r)

LEMMA SilentMessages ==
    ASSUME NEW m, m.session = 0 \/ (m.session \in Nat /\ (m.forwarded \/ m.second))
    PROVE  Silent(m)
BY DEF Silent, Mentions, Asks, AnswerTo, IsRequest, Request, Sessions

LEMMA RequestMentions ==
    ASSUME NEW s \in Services, NEW to \in Services, NEW n \in Sessions
    PROVE  /\ Mail(s, to, -n) \in Message
           /\ IsRequest(Mail(s, to, -n))
           /\ RequestOf(Mail(s, to, -n)) = [from |-> s, n |-> n]
<1>1. n \in Int /\ n > 0 /\ -n \in -MaxSends..MaxSends /\ -(-n) = n
  BY MessagingAssumption DEF Sessions
<1>2. Mail(s, to, -n) \in Message
  BY <1>1, MailType
<1> QED
  BY <1>1, <1>2, MessagingAssumption DEF IsRequest, RequestOf, Mail

\* An answer to r, or a message that only its sender may take for one.
LEMMA AnswerMentions ==
    ASSUME NEW s \in Services \cup {Nobody}, NEW r \in Request
    PROVE  /\ Mail(s, r.from, r.n) \in Message
           /\ Mentions(Mail(s, r.from, r.n), r)
           /\ Mail(s, r.from, r.n).receiver = r.from
<1>1. r.from \in Services /\ r.n \in -MaxSends..MaxSends
  BY MessagingAssumption DEF Request, Sessions
<1> QED
  BY <1>1, MailType DEF Mail, Mentions, Asks, AnswerTo

\* r is alone and goes with the message m, which is sent behind others.
LEMMA AnswerLandsBehind ==
    ASSUME TypeOK, NEW r \in Request, NEW m \in Message, NEW q \in Queues,
           Mentions(m, r), m.receiver = r.from,
           Same(Sent(q, m), mq_', r), NotIn(q, r),
           NotIn(swapmq_', r), NotRemoving(r)', NotOwed(r)', NotGot(r)',
           r.n <= asked'[r.from], alive' \subseteq alive
    PROVE  Token(r)'
<1>1. CASE Deliverable(m)
  <2>1. Gains(q, Sent(q, m), r, WorkerOf[m.receiver]) /\ WorkerOf[m.receiver] \in Workers
    BY <1>1, SentGains
  <2>2. Gains(q, mq_', r, WorkerOf[m.receiver])
    BY <2>1, GainsSame
  <2>3. \A v \in Workers : (Bears(mq_'[v], r) <=> v = WorkerOf[m.receiver]) /\ Once(mq_'[v], r)
    BY <2>2 DEF Gains, NotIn
  <2> QED
    BY <2>1, <2>3, LandMq
<1>2. CASE ~Deliverable(m)
  <2>1. Same(q, Sent(q, m), r)
    BY <1>2, SentSame
  <2>2. NotIn(mq_', r)
    BY <2>1 DEF Same, NotIn
  <2>3. r.from \notin alive
    BY <1>2, MessagingAssumption DEF Deliverable, TypeOK, Request
  <2> QED
    BY <2>2, <2>3, LandNowhere
<1> QED
  BY <1>1, <1>2

LEMMA AnswerLands ==
    ASSUME TypeOK, NEW r \in Request, NEW m \in Message,
           Mentions(m, r), m.receiver = r.from,
           Same(Sent(mq_, m), mq_', r), NotIn(mq_, r),
           NotIn(swapmq_', r), NotRemoving(r)', NotOwed(r)', NotGot(r)',
           r.n <= asked'[r.from], alive' \subseteq alive
    PROVE  Token(r)'
<1>1. mq_ \in Queues
  BY DEF TypeOK, Queues
<1> QED
  BY <1>1, AnswerLandsBehind

LEMMA RequestLands ==
    ASSUME TypeOK, NEW r \in Request, NEW m \in Message,
           IsRequest(m), RequestOf(m) = r,
           mq_' = Sent(mq_, m), NotIn(mq_, r), lost' = lost \cup LostWith(m),
           NotIn(swapmq_', r), NotRemoving(r)', NotOwed(r)', NotGot(r)',
           r.n <= asked'[r.from]
    PROVE  Token(r)'
<1>1. mq_ \in Queues /\ Mentions(m, r)
  BY DEF TypeOK, Queues, Mentions, Asks, AnswerTo
<1>2. CASE Deliverable(m)
  <2>1. Gains(mq_, mq_', r, WorkerOf[m.receiver]) /\ WorkerOf[m.receiver] \in Workers
    BY <1>1, <1>2, SentGains
  <2>2. \A v \in Workers : (Bears(mq_'[v], r) <=> v = WorkerOf[m.receiver]) /\ Once(mq_'[v], r)
    BY <2>1 DEF Gains, NotIn
  <2> QED
    BY <2>1, <2>2, LandMq
<1>3. CASE ~Deliverable(m)
  <2>1. Same(mq_, mq_', r)
    BY <1>1, <1>3, SentSame
  <2>2. NotIn(mq_', r)
    BY <2>1 DEF Same, NotIn
  <2>3. r \in lost'
    BY <1>3 DEF LostWith
  <2> QED
    BY <2>2, <2>3, LandNowhere
<1> QED
  BY <1>2, <1>3

\* Only the next request of s is new when its number is counted up.
LEMMA OthersAsked ==
    ASSUME TypeOK, NEW s \in Services, NEW r \in Request,
           asked' = [asked EXCEPT ![s] = @ + 1], r # [from |-> s, n |-> asked[s] + 1]
    PROVE  r.n <= asked'[r.from] <=> r.n <= asked[r.from]
<1>1. r = [from |-> r.from, n |-> r.n] /\ r.from \in Services /\ r.n \in Int
  BY DEF Request, Sessions
<1>2. asked[s] \in Int
  BY MessagingAssumption DEF TypeOK
<1>3. r.from = s => r.n # asked[s] + 1
  BY <1>1
<1>4. asked'[r.from] = IF r.from = s THEN asked[s] + 1 ELSE asked[r.from]
  BY <1>1 DEF TypeOK
<1> QED
  BY <1>1, <1>2, <1>3, <1>4

-----------------------------------------------------------------------------
(* Scripts move their requests. *)

TInv == IInv /\ Books /\ Tokens

\* What an action that only appends the message m to mq_ does for the others.
LEMMA FramePlain ==
    ASSUME TInv, NEW r \in Request,
           Same(mq_, mq_', r), Same(swapmq_, swapmq_', r),
           {x \in removals' : x.request = r} = {x \in removals : x.request = r},
           \A t \in Services : r \in owed'[t] <=> r \in owed[t],
           got'[r.from][r.n] = got[r.from][r.n],
           r.n <= asked'[r.from] <=> r.n <= asked[r.from],
           r \in lost => r \in lost', alive' \subseteq alive
    PROVE  Token(r)'
BY FrameKeeps DEF TInv, Tokens, Frame

LEMMA SameItself ==
    ASSUME NEW q, NEW r
    PROVE  Same(q, q, r)
BY DEF Same

LEMMA NotifyTokens ==
    ASSUME TInv, NEW s \in Services, NEW to \in Services, ScriptNotify(s, to)
    PROVE  Tokens'
<1> DEFINE m == Mail(s, to, 0)
<1>1. m \in Message /\ m.session = 0
  BY MailType, MessagingAssumption DEF Mail
<1>2. mq_' = Sent(mq_, m) /\ mq_ \in Queues
  BY DEF ScriptNotify, TInv, IInv, TypeOK, Queues
<1> HIDE DEF m
<1>3. ASSUME NEW r \in Request
      PROVE  Token(r)'
  <2>1. Same(mq_, mq_', r)
    BY <1>1, <1>2, SilentMessages, SentSame DEF Silent
  <2>2. UNCHANGED <<swapmq_, removals, owed, got, asked, lost, alive>>
    BY DEF ScriptNotify, tables, history
  <2>3. Same(swapmq_, swapmq_', r)
    BY <2>2, SameItself
  <2> QED
    BY <2>1, <2>2, <2>3, FramePlain
<1> QED
  BY <1>3 DEF Tokens

LEMMA AskTokens ==
    ASSUME TInv, NEW s \in Services, NEW to \in Services, ScriptAsk(s, to)
    PROVE  Tokens'
<1> DEFINE n == asked[s] + 1
           m == Mail(s, to, -n)
<1>0. IInv /\ TypeOK
  BY DEF TInv, IInv
<1>1a. n \in Sessions /\ [from |-> s, n |-> n] \in Request
  BY <1>0, NextRequest DEF ScriptAsk
<1>1b. PICK new \in Request : new = [from |-> s, n |-> n]
  BY <1>1a
<1>1. n \in Sessions /\ new.from = s /\ new.n = n
  BY <1>1a, <1>1b
<1>2. m \in Message /\ IsRequest(m) /\ RequestOf(m) = new
  BY <1>1, <1>1b, RequestMentions
<1>3. /\ mq_' = Sent(mq_, m) /\ mq_ \in Queues
      /\ lost' = lost \cup LostWith(m)
      /\ asked' = [asked EXCEPT ![s] = @ + 1]
      /\ UNCHANGED <<swapmq_, removals, owed, got, alive>>
  BY <1>0 DEF ScriptAsk, tables, TypeOK, Queues
<1> HIDE DEF m
<1>4. ASSUME NEW r \in Request, r # new
      PROVE  Token(r)'
  <2>1. Mentions(m, new)
    BY <1>2 DEF Mentions, Asks, AnswerTo
  <2>2. Same(mq_, mq_', r)
    BY <1>1, <1>2, <1>3, <1>4, <2>1, MentionsOne, SentSame
  <2>3. r.n <= asked'[r.from] <=> r.n <= asked[r.from]
    BY <1>0, <1>1b, <1>3, <1>4, OthersAsked
  <2> QED
    BY <1>3, <2>2, <2>3, SameItself, FramePlain
<1>5. Token(new)'
  <2>1. asked'[s] = n /\ asked[s] \in Int /\ n \in Int
    BY <1>0, <1>3, MessagingAssumption DEF TypeOK
  <2>2. ~(new.n <= asked[new.from]) /\ new.n <= asked'[new.from]
    BY <1>1, <2>1
  <2>3. Token(new)
    BY <1>1 DEF TInv, Tokens
  <2>4. NotIn(mq_, new) /\ NotIn(swapmq_, new) /\ NotRemoving(new) /\ NotOwed(new) /\ NotGot(new)
    BY <1>0, <1>1, <2>2, <2>3, NewNowhere
  <2>5. NotIn(swapmq_', new) /\ NotRemoving(new)' /\ NotOwed(new)' /\ NotGot(new)'
    BY <1>3, <2>4 DEF NotIn, NotRemoving, NotOwed, NotGot
  <2> QED
    BY <1>0, <1>1, <1>2, <1>3, <2>2, <2>4, <2>5, RequestLands
<1> QED
  BY <1>4, <1>5 DEF Tokens

LEMMA AnswerTokens ==
    ASSUME TInv, NEW s \in Services, NEW q \in owed[s], ScriptAnswer(s, q)
    PROVE  Tokens'
<1> DEFINE m == Mail(s, q.from, q.n)
<1>0. TypeOK
  BY DEF TInv, IInv
<1>1. q \in Request
  BY <1>0 DEF TypeOK
<1>2. m \in Message /\ Mentions(m, q) /\ m.receiver = q.from
  BY <1>1, AnswerMentions
<1>3. /\ mq_' = Sent(mq_, m) /\ mq_ \in Queues
      /\ UNCHANGED <<swapmq_, removals, got, asked, alive, lost>>
  BY <1>0 DEF ScriptAnswer, tables, history, TypeOK, Queues
<1>4. \A t \in Services : owed'[t] = IF t = s THEN owed[s] \ {q} ELSE owed[t]
  BY <1>0 DEF ScriptAnswer, TypeOK
<1> HIDE DEF m
<1>5. ASSUME NEW r \in Request, r # q
      PROVE  Token(r)'
  <2>1. Same(mq_, mq_', r)
    BY <1>1, <1>2, <1>3, <1>5, MentionsOne, SentSame
  <2>2. \A t \in Services : r \in owed'[t] <=> r \in owed[t]
    BY <1>4, <1>5
  <2> QED
    BY <1>3, <2>1, <2>2, SameItself, FramePlain
<1>6. Token(q)'
  <2>1. Token(q)
    BY <1>1 DEF TInv, Tokens
  <2>2. /\ NotIn(mq_, q) /\ NotIn(swapmq_, q) /\ NotRemoving(q) /\ NotGot(q)
        /\ \A t \in Services : q \in owed[t] => t = s
        /\ q.n <= asked[q.from]
    BY <1>0, <1>1, <2>1, OwedAlone
  <2>3. NotOwed(q)'
    BY <1>4, <2>2 DEF NotOwed
  <2>4. NotIn(swapmq_', q) /\ NotRemoving(q)' /\ NotGot(q)' /\ q.n <= asked'[q.from]
    BY <1>3, <2>2 DEF NotIn, NotRemoving, NotGot
  <2>5. Same(Sent(mq_, m), mq_', q)
    BY <1>3, SameItself
  <2> QED
    BY <1>0, <1>1, <1>2, <1>3, <2>2, <2>3, <2>4, <2>5, AnswerLands
<1> QED
  BY <1>5, <1>6 DEF Tokens

\* A message that mentions nothing, to every worker.
LEMMA ToAllSame ==
    ASSUME NEW q \in Queues, NEW m \in Message, m.session = 0, NEW t,
           t = [w \in Workers |-> Append(q[w], m)],
           NEW r, r \in Request \/ \E p \in Request : r = Second(p)
    PROVE  Same(q, t, r)
<1>1. ~Mentions(m, r)
  <2>1. \A p \in Request : ~Asks(m, p) /\ ~AnswerTo(m, p)
    BY MessagingAssumption DEF Asks, AnswerTo, IsRequest, Request, Sessions
  <2> QED
    BY <2>1 DEF Mentions
<1>2. \A w \in Workers : q[w] \in Seq(Message)
  BY DEF Queues
<1> QED
  BY <1>1, <1>2, AppendBears DEF Same

LEMMA BroadcastSame ==
    ASSUME IInv, NEW s \in Services, NEW q \in Queues, Broadcast(s, q),
           NEW r, r \in Request \/ \E p \in Request : r = Second(p)
    PROVE  Same(q, mq_', r)
<1> DEFINE n == Len(speakers) + 1
           m == [sender |-> s, receiver |-> Nobody, session |-> 0, broadcast |-> n,
                 forwarded |-> FALSE, second |-> FALSE]
<1>1. n \in Numbers /\ mq_' = [w \in Workers |-> Append(q[w], m)]
  BY LenProperties DEF Broadcast, IInv, TypeOK, Numbers
<1>2. m \in Message /\ m.session = 0
  BY <1>1, MessagingAssumption DEF Message, Numbers
<1> HIDE DEF m
<1> QED
  BY <1>1, <1>2, ToAllSame

LEMMA BroadcastTokens ==
    ASSUME TInv, NEW s \in Services, ScriptBroadcast(s) \/ ScriptBroadcastNothing(s)
    PROVE  Tokens'
<1> DEFINE m == Mail(s, Nobody, 0)
<1>1. IInv /\ mq_ \in Queues
  BY DEF TInv, IInv, TypeOK, Queues
<1>2. m \in Message /\ m.session = 0
  <2>1. 0 \in -MaxSends..MaxSends
    BY MessagingAssumption
  <2> QED
    BY <2>1, MailType DEF Mail
<1>3. /\ Broadcast(s, mq_) \/ mq_' = [w \in Workers |-> Append(mq_[w], m)]
      /\ UNCHANGED <<swapmq_, removals, owed, got, asked, lost, alive>>
  BY DEF ScriptBroadcast, ScriptBroadcastNothing, tables, history
<1> HIDE DEF m
<1>4. ASSUME NEW r \in Request
      PROVE  Token(r)'
  <2>1. Same(mq_, mq_', r)
    BY <1>1, <1>2, <1>3, BroadcastSame, ToAllSame
  <2> QED
    BY <1>3, <2>1, SameItself, FramePlain
<1> QED
  BY <1>4 DEF Tokens

LEMMA RemoveTokens ==
    ASSUME TInv, NEW s \in Services, NEW id \in Services, ScriptRemove(s, id)
    PROVE  Tokens'
<1> DEFINE n == asked[s] + 1
           m == Mail(Nobody, s, n)
<1>0. IInv /\ TypeOK
  BY DEF TInv, IInv
<1>1a. n \in Sessions /\ [from |-> s, n |-> n] \in Request
  BY <1>0, NextRequest DEF ScriptRemove
<1>1b. PICK new \in Request : new = [from |-> s, n |-> n]
  BY <1>1a
<1>1. n \in Sessions /\ new.from = s /\ new.n = n
  BY <1>1a, <1>1b
<1> DEFINE x == [id |-> id, request |-> new]
<1>2. m \in Message /\ Mentions(m, new) /\ m.receiver = new.from
  BY <1>1, AnswerMentions
<1>3. /\ mq_ \in Queues
      /\ asked' = [asked EXCEPT ![s] = @ + 1]
      /\ UNCHANGED <<swapmq_, owed, got, alive, lost>>
      /\ \/ removals' = removals \cup {x} /\ UNCHANGED mq_
         \/ removals' = removals /\ mq_' = Sent(mq_, m)
  <2>1. s # Nobody /\ n # 0
    BY <1>1, MessagingAssumption DEF Sessions
  <2> QED
    BY <1>0, <1>1b, <2>1 DEF ScriptRemove, Response, history, TypeOK, Queues
<1>4. x.request = new
  OBVIOUS
<1> HIDE DEF m, x
<1>5. ASSUME NEW r \in Request, r # new
      PROVE  Token(r)'
  <2>1. Same(mq_, mq_', r)
    BY <1>1, <1>2, <1>3, <1>5, MentionsOne, SentSame, SameItself
  <2>2. {y \in removals' : y.request = r} = {y \in removals : y.request = r}
    BY <1>3, <1>4, <1>5
  <2>3. r.n <= asked'[r.from] <=> r.n <= asked[r.from]
    BY <1>0, <1>1b, <1>3, <1>5, OthersAsked
  <2> QED
    BY <1>3, <2>1, <2>2, <2>3, SameItself, FramePlain
<1>6. Token(new)'
  <2>1. asked'[s] = n /\ asked[s] \in Int /\ n \in Int
    BY <1>0, <1>3, MessagingAssumption DEF TypeOK
  <2>2. ~(new.n <= asked[new.from]) /\ new.n <= asked'[new.from]
    BY <1>1, <2>1
  <2>3. Token(new)
    BY <1>1 DEF TInv, Tokens
  <2>4. NotIn(mq_, new) /\ NotIn(swapmq_, new) /\ NotRemoving(new) /\ NotOwed(new) /\ NotGot(new)
    BY <1>0, <1>1, <2>2, <2>3, NewNowhere
  <2>5. NotIn(swapmq_', new) /\ NotOwed(new)' /\ NotGot(new)'
    BY <1>3, <2>4 DEF NotIn, NotOwed, NotGot
  <2>6. CASE removals' = removals \cup {x} /\ UNCHANGED mq_
    <3>1. {y \in removals' : y.request = new} = {x}
      BY <1>4, <2>4, <2>6 DEF NotRemoving
    <3>2. NotIn(mq_', new)
      BY <2>4, <2>6 DEF NotIn
    <3> QED
      BY <2>2, <2>5, <3>1, <3>2, LandRemoval
  <2>7. CASE removals' = removals /\ mq_' = Sent(mq_, m)
    <3>1. NotRemoving(new)'
      BY <2>4, <2>7 DEF NotRemoving
    <3>2. Same(Sent(mq_, m), mq_', new)
      BY <2>7, SameItself
    <3> QED
      BY <1>0, <1>1, <1>2, <1>3, <2>2, <2>4, <2>5, <3>1, <3>2, AnswerLands
  <2> QED
    BY <1>3, <2>6, <2>7
<1> QED
  BY <1>5, <1>6 DEF Tokens

-----------------------------------------------------------------------------
(* Drain tasks move them. *)

LEMMA SwapTokens ==
    ASSUME TInv, NEW w \in Workers, Swap(w)
    PROVE  Tokens'
<1>0. TypeOK
  BY DEF TInv, IInv
<1>1. /\ swapmq_[w] = <<>>
      /\ \A v \in Workers : mq_'[v] = IF v = w THEN <<>> ELSE mq_[v]
      /\ \A v \in Workers : swapmq_'[v] = IF v = w THEN mq_[w] ELSE swapmq_[v]
      /\ UNCHANGED <<removals, owed, got, asked, lost, alive>>
  BY <1>0 DEF Swap, Between, tables, history, TypeOK
<1>2. ASSUME NEW r \in Request, ~Bears(mq_[w], r)
      PROVE  Token(r)'
  <2>1. Same(mq_, mq_', r)
    BY <1>1, <1>2, EmptyBears DEF Same
  <2>2. Same(swapmq_, swapmq_', r)
    BY <1>1, <1>2, EmptyBears, NotBearsOnce DEF Same
  <2> QED
    BY <1>1, <2>1, <2>2, FramePlain
<1>3. ASSUME NEW r \in Request, Bears(mq_[w], r)
      PROVE  Token(r)'
  <2>1. Token(r)
    BY DEF TInv, Tokens
  <2>2. /\ \A v \in Workers : Bears(mq_[v], r) => v = w
        /\ NotIn(swapmq_, r) /\ NotRemoving(r) /\ NotOwed(r) /\ NotGot(r)
        /\ r.n <= asked[r.from]
    BY <1>0, <1>3, <2>1, MqAlone
  <2>3. NotIn(mq_', r)
    BY <1>1, <2>2, EmptyBears DEF NotIn
  <2>4. \A v \in Workers : (Bears(swapmq_'[v], r) <=> v = w) /\ Once(swapmq_'[v], r)
    BY <1>1, <1>3, <2>1, <2>2, NotBearsOnce DEF NotIn, Token
  <2>5. NotRemoving(r)' /\ NotOwed(r)' /\ NotGot(r)' /\ r.n <= asked'[r.from]
    BY <1>1, <2>2 DEF NotRemoving, NotOwed, NotGot
  <2> QED
    BY <2>3, <2>4, <2>5, LandSwapmq
<1> QED
  BY <1>2, <1>3 DEF Tokens

\* The first message of a queue that is in order.
LEMMA HeadProper ==
    ASSUME TInv, NEW w \in Workers, Handles(w)
    PROVE  /\ Head(swapmq_[w]).broadcast # 0 => Head(swapmq_[w]).session = 0
           /\ Head(swapmq_[w]).receiver # Nobody => WorkerOf[Head(swapmq_[w]).receiver] = w
<1> DEFINE q == swapmq_[w]
<1>1. q \in Seq(Message) /\ q # <<>>
  BY DEF TInv, IInv, TypeOK, Handles
<1>2. 1 \in 1..Len(q) /\ Head(q) = q[1]
  <2>1. Head(q) = q[1] /\ Len(q) \in Nat \ {0}
    BY <1>1, HeadTailProperties, LenProperties, EmptySeq
  <2> QED
    BY <2>1
<1>3. Proper(q, w)
  BY DEF TInv, Books, ProperQueues
<1> HIDE DEF q
<1>4. /\ Head(q).broadcast # 0 => Head(q).session = 0
      /\ Head(q).receiver # Nobody => WorkerOf[Head(q).receiver] = w
  BY <1>2, <1>3 DEF Proper
<1> QED
  BY <1>4 DEF q

LEMMA HandleBroadcastTokens ==
    ASSUME TInv, NEW w \in Workers, HandleBroadcast(w) \/ HandleBroadcastResent(w)
    PROVE  Tokens'
<1> DEFINE m == Head(swapmq_[w])
<1>0. TypeOK
  BY DEF TInv, IInv
<1>1. /\ Handles(w) /\ Handled(w) /\ m.broadcast # 0
      /\ UNCHANGED <<mq_, removals, owed, got, asked, lost, alive>>
  BY DEF HandleBroadcast, HandleBroadcastResent, tables
<1>2. Silent(m)
  BY <1>1, HeadProper, SilentMessages
<1>3. ASSUME NEW r \in Request
      PROVE  Token(r)'
  <2>1. Token(r)
    BY DEF TInv, Tokens
  <2>2. Same(swapmq_, swapmq_', r)
    BY <1>0, <1>1, <1>2, <2>1, HeadTaken DEF Silent
  <2> QED
    BY <1>1, <2>2, SameItself, FramePlain
<1> QED
  BY <1>3 DEF Tokens

\* The runtime's answer to the sender of m mentions the request m, and nothing else.
LEMMA ResponseSame ==
    ASSUME NEW q \in Queues, NEW m \in Message, m.broadcast = 0, NEW r \in Request,
           ~(IsRequest(m) /\ RequestOf(m) = r)
    PROVE  Same(q, Response(q, m.sender, -m.session), r)
<1> DEFINE a == Mail(Nobody, m.sender, -m.session)
<1>1. /\ m.sender \in Services \cup {Nobody} /\ m.session \in Int
      /\ -m.session \in -MaxSends..MaxSends
  BY MessagingAssumption DEF Message
<1>2. a \in Message
  BY <1>1, MailType
<1>3. CASE m.sender = Nobody \/ -m.session = 0
  BY <1>3, SameItself DEF Response
<1>4. CASE ~(m.sender = Nobody \/ -m.session = 0)
  <2>1. ~Mentions(a, r)
    <3> SUFFICES ASSUME Mentions(a, r) PROVE FALSE
      OBVIOUS
    <3>1. a.sender = Nobody /\ a.receiver = m.sender /\ a.session = -m.session
      BY DEF Mail
    <3> HIDE DEF a
    <3>2. m.sender = r.from /\ -m.session = r.n
      BY <3>1 DEF Mentions, Asks, AnswerTo, IsRequest
    <3>3. r = [from |-> r.from, n |-> r.n] /\ r.n \in Int /\ r.n > 0
      BY MessagingAssumption DEF Request, Sessions
    <3>4. m.session < 0
      BY <1>1, <3>2, <3>3
    <3> QED
      BY <1>4, <3>2, <3>3, <3>4 DEF IsRequest, RequestOf
  <2>2. Response(q, m.sender, -m.session) = Sent(q, a)
    BY <1>4 DEF Response
  <2> QED
    BY <1>2, <2>1, <2>2, SentSame
<1> QED
  BY <1>3, <1>4

LEMMA ResponseIs ==
    ASSUME NEW q, NEW m \in Message, NEW r \in Request, IsRequest(m), RequestOf(m) = r
    PROVE  /\ Response(q, m.sender, -m.session) = Sent(q, Mail(Nobody, r.from, r.n))
           /\ Mail(Nobody, r.from, r.n) \in Message
           /\ Mentions(Mail(Nobody, r.from, r.n), r)
           /\ Mail(Nobody, r.from, r.n).receiver = r.from
<1>1. r.from = m.sender /\ r.n = -m.session
  BY DEF RequestOf
<1>2. r.from # Nobody /\ r.n # 0
  <2>1. r.from \in Services /\ r.n \in 1..MaxSends
    BY DEF Request, Sessions
  <2>2. r.from # Nobody
    BY <2>1, MessagingAssumption
  <2>3. r.n # 0
    BY <2>1, MessagingAssumption
  <2> QED
    BY <2>2, <2>3
<1> QED
  BY <1>1, <1>2, AnswerMentions DEF Response

LEMMA HandleDeadTokens ==
    ASSUME TInv, NEW w \in Workers, HandleDead(w)
    PROVE  Tokens'
<1> DEFINE m == Head(swapmq_[w])
           q == Response(mq_, m.sender, -m.session)
<1>0. TypeOK /\ mq_ \in Queues
  BY DEF TInv, IInv, TypeOK, Queues
<1>1. /\ Handles(w) /\ Handled(w) /\ m.broadcast = 0 /\ Found(w, m) = Nobody
      /\ UNCHANGED <<removals, owed, got, asked, lost, alive>>
  BY DEF HandleDead, tables, history
<1>2. mq_' = q
  BY DEF HandleDead, Response
<1>3. m \in Message
  BY <1>0, <1>1, HeadType DEF TInv
<1> HIDE DEF q
<1>4. ASSUME NEW r \in Request
      PROVE  Token(r)'
  <2>1. Token(r)
    BY DEF TInv, Tokens
  <2>2. CASE ~Mentions(m, r)
    <3>1. Same(swapmq_, swapmq_', r)
      BY <1>0, <1>1, <2>1, <2>2, HeadTaken
    <3>2. Same(mq_, mq_', r)
      BY <1>0, <1>1, <1>2, <1>3, <2>2, ResponseSame DEF Mentions, Asks, AnswerTo, q
    <3> QED
      BY <1>1, <3>1, <3>2, FramePlain
  <2>3. CASE Mentions(m, r)
    <3>1. /\ NotIn(mq_, r) /\ NotIn(swapmq_', r)
          /\ NotRemoving(r) /\ NotOwed(r) /\ NotGot(r)
          /\ r.n <= asked[r.from]
      BY <1>0, <1>1, <2>1, <2>3, HeadTaken
    <3>2. NotRemoving(r)' /\ NotOwed(r)' /\ NotGot(r)' /\ r.n <= asked'[r.from]
      BY <1>1, <3>1 DEF NotRemoving, NotOwed, NotGot
    <3>3. CASE IsRequest(m) /\ RequestOf(m) = r
      <4> DEFINE a == Mail(Nobody, r.from, r.n)
      <4>1. q = Sent(mq_, a) /\ a \in Message /\ Mentions(a, r) /\ a.receiver = r.from
        BY <1>3, <3>3, ResponseIs DEF q
      <4> HIDE DEF a
      <4>2. Same(Sent(mq_, a), mq_', r)
        BY <1>2, <4>1, SameItself
      <4> QED
        BY <1>0, <1>1, <3>1, <3>2, <4>1, <4>2, AnswerLands
    <3>4. CASE ~(IsRequest(m) /\ RequestOf(m) = r)
      <4>1. Same(mq_, mq_', r)
        BY <1>0, <1>1, <1>2, <1>3, <3>4, ResponseSame DEF q
      <4>2. NotIn(mq_', r)
        BY <3>1, <4>1 DEF Same, NotIn
      <4>3. m.receiver = r.from
        BY <2>3, <3>4 DEF Mentions, Asks, AnswerTo
      <4>4. r.from \notin alive
        <5>1. r.from # Nobody /\ WorkerOf[r.from] = w
          BY <1>1, <4>3, HeadProper, MessagingAssumption DEF Request
        <5>2. r.from \notin Here(w)
          BY <1>1, <4>3, <5>1 DEF Found
        <5> QED
          BY <5>1, <5>2 DEF Here
      <4> QED
        BY <1>1, <3>1, <3>2, <4>2, <4>4, LandNowhere
    <3> QED
      BY <3>3, <3>4
  <2> QED
    BY <2>2, <2>3
<1> QED
  BY <1>4 DEF Tokens

-----------------------------------------------------------------------------
(* Callbacks move them. *)

\* What every dispatch does.
LEMMA FindsFacts ==
    ASSUME TInv, NEW w \in Workers, NEW s \in Services, NEW m, Finds(w, s, m)
    PROVE  /\ Handles(w) /\ Handled(w) /\ m = Head(swapmq_[w])
           /\ m \in Message /\ m.broadcast = 0 /\ m.receiver = s /\ s \in alive
           /\ UNCHANGED <<removals, alive>>
<1>1. /\ Handles(w) /\ Handled(w) /\ m = Head(swapmq_[w]) /\ m.broadcast = 0
      /\ s = Found(w, m) /\ s # Nobody
      /\ UNCHANGED <<removals, alive>>
  BY DEF Finds, tables
<1>2. m \in Message
  BY <1>1, HeadType DEF TInv
<1>3. m.receiver = s /\ s \in alive
  BY <1>1 DEF Found, Here, TInv, IInv, PreviousIsThere
<1> QED
  BY <1>1, <1>2, <1>3

\* Which answers are seen.
LEMMA GotCounts ==
    ASSUME TInv, NEW w \in Workers, NEW s \in Services, NEW m, Dispatches(w, s, m),
           NEW r \in Request
    PROVE  got'[r.from][r.n] = IF Mentions(m, r) /\ ~IsRequest(m)
                               THEN got[r.from][r.n] + 1 ELSE got[r.from][r.n]
<1>1. m \in Message /\ m.broadcast = 0 /\ m.receiver = s
  BY FindsFacts DEF Dispatches
<1>2. got \in [Services -> [Sessions -> Nat]]
  BY DEF TInv, IInv, TypeOK
<1>3. r.from \in Services /\ r.n \in Sessions /\ r.n \in Int /\ r.n > 0
  BY MessagingAssumption DEF Request, Sessions
<1>4. CASE ~(IsAnswer(m) /\ ~m.second)
  <2>1. got' = got
    BY <1>4, Zenon DEF Dispatches
  <2>2. ~(Mentions(m, r) /\ ~IsRequest(m))
    BY <1>3, <1>4 DEF IsAnswer, Mentions, Asks, AnswerTo
  <2> QED
    BY <2>1, <2>2
<1>5. CASE IsAnswer(m) /\ ~m.second
  <2>1. m.session \in Sessions /\ ~IsRequest(m)
    BY <1>1, <1>5, MessagingAssumption DEF IsAnswer, IsRequest, Message, Sessions
  <2>2. got' = [got EXCEPT ![s][m.session] = @ + 1]
    BY <1>5, Zenon DEF Dispatches
  <2>3. got'[r.from][r.n] = IF r.from = s /\ r.n = m.session
                            THEN got[r.from][r.n] + 1 ELSE got[r.from][r.n]
    BY <1>2, <1>3, <2>1, <2>2
  <2>4. Mentions(m, r) <=> r.from = s /\ r.n = m.session
    BY <1>1, <1>5, <2>1 DEF Mentions, Asks, AnswerTo, IsAnswer
  <2> QED
    BY <2>1, <2>3, <2>4
<1> QED
  BY <1>4, <1>5

\* A request that the message does not mention and that is not made now stays.
LEMMA DispatchOther ==
    ASSUME TInv, NEW w \in Workers, NEW s \in Services, NEW m, Dispatches(w, s, m),
           NEW r \in Request, ~Mentions(m, r),
           Same(mq_, mq_', r),
           \A t \in Services : r \in owed'[t] <=> r \in owed[t],
           r.n <= asked'[r.from] <=> r.n <= asked[r.from],
           lost \subseteq lost'
    PROVE  Token(r)'
<1>1. /\ Handles(w) /\ Handled(w) /\ m = Head(swapmq_[w])
      /\ UNCHANGED <<removals, alive>>
  BY FindsFacts DEF Dispatches
<1>2. Same(swapmq_, swapmq_', r)
  BY <1>1, HeadTaken DEF TInv, IInv, Tokens
<1>3. got'[r.from][r.n] = got[r.from][r.n]
  BY GotCounts
<1> QED
  BY <1>1, <1>2, <1>3, FramePlain

\* The request or the answer that is handled leaves its queue.
LEMMA DispatchTakes ==
    ASSUME TInv, NEW w \in Workers, NEW s \in Services, NEW m, Dispatches(w, s, m),
           NEW r \in Request, Mentions(m, r)
    PROVE  /\ NotIn(mq_, r) /\ NotIn(swapmq_', r)
           /\ NotRemoving(r)' /\ NotOwed(r) /\ NotGot(r)
           /\ r.n <= asked[r.from]
           /\ IsRequest(m) => RequestOf(m) = r /\ NotGot(r)'
           /\ ~IsRequest(m) => got'[r.from][r.n] = 1
<1>1. /\ Handles(w) /\ Handled(w) /\ m = Head(swapmq_[w]) /\ m \in Message
      /\ UNCHANGED <<removals, alive>>
  BY FindsFacts DEF Dispatches
<1>2. /\ NotIn(mq_, r) /\ NotIn(swapmq_', r)
      /\ NotRemoving(r) /\ NotOwed(r) /\ NotGot(r)
      /\ r.n <= asked[r.from]
  BY <1>1, HeadTaken DEF TInv, IInv, Tokens
<1>3. NotRemoving(r)'
  BY <1>1, <1>2 DEF NotRemoving
<1>4. got'[r.from][r.n] = IF ~IsRequest(m) THEN 1 ELSE 0
  <2>1. got[r.from][r.n] = 0
    BY <1>2 DEF NotGot
  <2> QED
    BY <2>1, GotCounts
<1>5. ASSUME IsRequest(m)
      PROVE  RequestOf(m) = r
  <2>1. RequestOf(m) \in Request /\ Mentions(m, RequestOf(m))
    BY <1>1, <1>5, LostType DEF Mentions, Asks, AnswerTo
  <2> QED
    BY <1>1, <2>1, MentionsOne
<1> QED
  BY <1>2, <1>3, <1>4, <1>5 DEF NotGot

\* An answer has been seen by who asked for it.
LEMMA DispatchAnswer ==
    ASSUME TInv, NEW w \in Workers, NEW s \in Services, NEW m, Dispatches(w, s, m),
           NEW r \in Request, Mentions(m, r), ~IsRequest(m),
           Same(mq_, mq_', r),
           \A t \in Services : r \in owed'[t] <=> r \in owed[t],
           r.n <= asked[r.from] => r.n <= asked'[r.from]
    PROVE  Token(r)'
<1>1. /\ NotIn(mq_, r) /\ NotIn(swapmq_', r) /\ NotRemoving(r)' /\ NotOwed(r)
      /\ r.n <= asked[r.from] /\ got'[r.from][r.n] = 1
  BY DispatchTakes
<1>2. NotIn(mq_', r)
  BY <1>1 DEF NotIn, Same
<1>3. NotOwed(r)'
  BY <1>1 DEF NotOwed
<1> QED
  BY <1>1, <1>2, <1>3, LandGot

LEMMA DispatchMuteTokens ==
    ASSUME TInv, NEW w \in Workers, NEW s \in Services, NEW m, DispatchMute(w, s, m)
    PROVE  Tokens'
<1>0. TypeOK
  BY DEF TInv, IInv
<1>1. /\ Handles(w) /\ Handled(w) /\ m = Head(swapmq_[w])
      /\ m \in Message /\ m.receiver = s
      /\ UNCHANGED <<mq_, asked, owed, got, removals, alive>>
      /\ lost' = IF IsRequest(m) THEN lost \cup {RequestOf(m)} ELSE lost
  BY FindsFacts DEF DispatchMute
<1>2. ASSUME NEW r \in Request
      PROVE  Token(r)'
  <2>1. Token(r)
    BY DEF TInv, Tokens
  <2>2. CASE ~Mentions(m, r)
    <3>1. Same(swapmq_, swapmq_', r)
      BY <1>0, <1>1, <2>1, <2>2, HeadTaken
    <3> QED
      BY <1>1, <3>1, SameItself, FramePlain
  <2>3. CASE Mentions(m, r)
    <3>1. /\ NotIn(mq_, r) /\ NotIn(swapmq_', r)
          /\ NotRemoving(r) /\ NotOwed(r) /\ NotGot(r)
          /\ r.n <= asked[r.from]
      BY <1>0, <1>1, <2>1, <2>3, HeadTaken
    <3>2. IsRequest(m)
      <4> SUFFICES ASSUME ~IsRequest(m) PROVE FALSE
        OBVIOUS
      <4>1. r.from = s
        BY <1>1, <2>3 DEF Mentions, Asks, AnswerTo
      <4>2. asked[s] = 0
        BY DEF DispatchMute, TInv, Books, MuteAskNothing
      <4> QED
        BY <3>1, <4>1, <4>2, MessagingAssumption DEF Request, Sessions
    <3>3. r \in lost'
      <4>1. RequestOf(m) \in Request /\ Mentions(m, RequestOf(m))
        BY <1>1, <3>2, LostType DEF Mentions, Asks, AnswerTo
      <4>2. RequestOf(m) = r
        BY <1>1, <2>3, <4>1, MentionsOne
      <4> QED
        BY <1>1, <3>2, <4>2
    <3>4. NotIn(mq_', r) /\ NotRemoving(r)' /\ NotOwed(r)' /\ NotGot(r)'
      BY <1>1, <3>1 DEF NotIn, NotRemoving, NotOwed, NotGot
    <3> QED
      BY <3>1, <3>3, <3>4, LandNowhere
  <2> QED
    BY <2>2, <2>3
<1> QED
  BY <1>2 DEF Tokens

\* A request that is kept is with the script.
LEMMA KeptToken ==
    ASSUME TInv, NEW w \in Workers, NEW s \in Services, NEW m, Dispatches(w, s, m),
           IsRequest(m), owed' = Keeps(s, m),
           NEW r \in Request, Same(mq_, mq_', r),
           r.n <= asked'[r.from] <=> r.n <= asked[r.from],
           lost \subseteq lost'
    PROVE  Token(r)'
<1>1. \A t \in Services : owed'[t] = IF t = s THEN owed[t] \cup {RequestOf(m)} ELSE owed[t]
  BY DEF Keeps, TInv, IInv, TypeOK
<1>2. CASE ~Mentions(m, r)
  <2>1. RequestOf(m) # r
    BY <1>2 DEF Mentions, Asks
  <2>2. \A t \in Services : r \in owed'[t] <=> r \in owed[t]
    BY <1>1, <2>1
  <2> QED
    BY <1>2, <2>2, DispatchOther
<1>3. CASE Mentions(m, r)
  <2>1. /\ NotIn(mq_, r) /\ NotIn(swapmq_', r) /\ NotRemoving(r)' /\ NotOwed(r) /\ NotGot(r)'
        /\ r.n <= asked[r.from] /\ RequestOf(m) = r
    BY <1>3, DispatchTakes
  <2>2. \A t \in Services : r \in owed'[t] <=> t = s
    BY <1>1, <2>1 DEF NotOwed
  <2>3. NotIn(mq_', r) /\ r.n <= asked'[r.from]
    BY <2>1 DEF NotIn, Same
  <2> QED
    BY <2>1, <2>2, <2>3, LandOwed
<1> QED
  BY <1>2, <1>3

\* One that is answered is with the answer.
LEMMA AnsweredToken ==
    ASSUME TInv, NEW w \in Workers, NEW s \in Services, NEW m, Dispatches(w, s, m),
           IsRequest(m), owed' = owed,
           NEW r \in Request, Same(Sent(mq_, Answer(s, m)), mq_', r),
           r.n <= asked'[r.from] <=> r.n <= asked[r.from],
           lost \subseteq lost'
    PROVE  Token(r)'
<1>0. TypeOK /\ mq_ \in Queues
  BY DEF TInv, IInv, TypeOK, Queues
<1>1. m \in Message /\ UNCHANGED alive
  BY FindsFacts DEF Dispatches
<1>2. PICK q \in Request : q = RequestOf(m)
  BY <1>1, LostType
<1>3. PICK a : a = Answer(s, m)
  OBVIOUS
<1>4. a \in Message /\ Mentions(a, q) /\ a.receiver = q.from
  <2>1. a = Mail(s, q.from, q.n)
    BY <1>2, <1>3 DEF RequestOf, Answer
  <2> QED
    BY <2>1, AnswerMentions
<1>5. Mentions(m, q)
  BY <1>2 DEF Mentions, Asks
<1>6. CASE r # q
  <2>1. ~Mentions(m, r) /\ ~Mentions(a, r)
    BY <1>1, <1>4, <1>5, <1>6, MentionsOne
  <2>2. Same(mq_, mq_', r)
    BY <1>0, <1>3, <1>4, <2>1, SentSame, SameSame
  <2> QED
    BY <2>1, <2>2, DispatchOther
<1>7. CASE r = q
  <2>1. /\ NotIn(mq_, q) /\ NotIn(swapmq_', q) /\ NotRemoving(q)' /\ NotOwed(q) /\ NotGot(q)'
        /\ q.n <= asked[q.from]
    BY <1>5, DispatchTakes
  <2>2. NotOwed(q)' /\ q.n <= asked'[q.from]
    BY <1>7, <2>1 DEF NotOwed
  <2>3. Same(Sent(mq_, a), mq_', q)
    BY <1>3, <1>7
  <2>4. Token(q)'
    BY <1>0, <1>1, <1>4, <2>1, <2>2, <2>3, AnswerLands
  <2> QED
    BY <1>7, <2>4
<1> QED
  BY <1>6, <1>7

\* One that is lost.
LEMMA LostToken ==
    ASSUME TInv, NEW w \in Workers, NEW s \in Services, NEW m, Dispatches(w, s, m),
           IsRequest(m), owed' = owed, lost' = lost \cup {RequestOf(m)},
           NEW r \in Request, Same(mq_, mq_', r),
           r.n <= asked'[r.from] <=> r.n <= asked[r.from]
    PROVE  Token(r)'
<1>1. CASE ~Mentions(m, r)
  BY <1>1, DispatchOther
<1>2. CASE Mentions(m, r)
  <2>1. /\ NotIn(mq_, r) /\ NotIn(swapmq_', r) /\ NotRemoving(r)' /\ NotOwed(r) /\ NotGot(r)'
        /\ RequestOf(m) = r
    BY <1>2, DispatchTakes
  <2>2. NotIn(mq_', r) /\ NotOwed(r)' /\ r \in lost'
    BY <2>1 DEF NotIn, NotOwed, Same
  <2> QED
    BY <2>1, <2>2, LandNowhere
<1> QED
  BY <1>1, <1>2

\* When the message is no request, nothing but an answer can move.
LEMMA NoRequestToken ==
    ASSUME TInv, NEW w \in Workers, NEW s \in Services, NEW m, Dispatches(w, s, m),
           ~IsRequest(m), owed' = owed,
           NEW r \in Request, Same(mq_, mq_', r),
           r.n <= asked'[r.from] <=> r.n <= asked[r.from],
           lost \subseteq lost'
    PROVE  Token(r)'
<1>1. CASE ~Mentions(m, r)
  BY <1>1, DispatchOther
<1>2. CASE Mentions(m, r)
  BY <1>2, DispatchAnswer
<1> QED
  BY <1>1, <1>2

LEMMA DispatchOkTokens ==
    ASSUME TInv, NEW w \in Workers, NEW s \in Services, NEW m, DispatchOk(w, s, m)
    PROVE  Tokens'
<1>1. Dispatches(w, s, m) /\ UNCHANGED <<asked, lost>>
  BY DEF DispatchOk
<1>2. ASSUME NEW r \in Request
      PROVE  Token(r)'
  <2>1. CASE ~IsRequest(m) /\ UNCHANGED <<mq_, owed>>
    BY <1>1, <2>1, SameItself, NoRequestToken
  <2>2. CASE IsRequest(m) /\ owed' = Keeps(s, m) /\ UNCHANGED mq_
    BY <1>1, <2>2, SameItself, KeptToken
  <2>3. CASE IsRequest(m) /\ mq_' = Sent(mq_, Answer(s, m)) /\ UNCHANGED owed
    BY <1>1, <2>3, SameItself, AnsweredToken
  <2> QED
    BY <2>1, <2>2, <2>3 DEF DispatchOk
<1> QED
  BY <1>2 DEF Tokens

\* The error after that is another matter.
LEMMA DispatchFailsLateTokens ==
    ASSUME TInv, NEW w \in Workers, NEW s \in Services, NEW m, DispatchFailsLate(w, s, m)
    PROVE  Tokens'
<1>1. Dispatches(w, s, m) /\ IsRequest(m) /\ UNCHANGED <<asked, lost>>
  BY DEF DispatchFailsLate
<1>2. Finds(w, s, m) /\ IInv /\ mq_ \in Queues
  BY <1>1 DEF Dispatches, TInv, IInv, TypeOK, Queues
<1>3. PICK e : e = SecondError(m)
  OBVIOUS
<1>4. e \in Message /\ Silent(e)
  <2>1. e \in Message
    BY <1>2, <1>3, TakesUp
  <2>2. e.session = -m.session /\ e.second
    BY <1>3 DEF SecondError, Mail
  <2>3. -m.session \in Nat
    BY <1>1, <1>2, FindsType, MessagingAssumption DEF IsRequest
  <2> QED
    BY <2>1, <2>2, <2>3, SilentMessages
<1>5. PICK q : q = Sent(mq_, Answer(s, m))
  OBVIOUS
<1>6. q \in Queues
  BY <1>2, <1>5, TakesUp, SentKeeps DEF Kept
<1>7. \A r \in Request : Same(mq_, Sent(mq_, e), r) /\ Same(q, Sent(q, e), r)
  BY <1>2, <1>4, <1>6, SentSame DEF Silent
<1>8. CASE owed' = Keeps(s, m) /\ mq_' = Sent(mq_, e)
  BY <1>1, <1>7, <1>8, KeptToken DEF Tokens
<1>9. CASE owed' = owed /\ mq_' = Sent(q, e)
  BY <1>1, <1>5, <1>7, <1>9, AnsweredToken DEF Tokens
<1> QED
  BY <1>3, <1>5, <1>8, <1>9 DEF DispatchFailsLate

LEMMA DispatchFailsTokens ==
    ASSUME TInv, NEW w \in Workers, NEW s \in Services, NEW m, DispatchFails(w, s, m)
    PROVE  Tokens'
<1> DEFINE a == Response(mq_, m.sender, -m.session)
<1>0. TypeOK /\ mq_ \in Queues
  BY DEF TInv, IInv, TypeOK, Queues
<1>1. /\ m \in Message /\ m.broadcast = 0 /\ Dispatches(w, s, m)
      /\ UNCHANGED <<owed, asked, lost, alive>>
      /\ mq_' = IF m.session >= 0 THEN mq_ ELSE a
  BY FindsFacts DEF DispatchFails, Dispatches
<1>2. IsRequest(m) => mq_' = a
  <2>1. m.session \in Int
    BY <1>1, MessagingAssumption DEF Message
  <2> QED
    BY <1>1, <2>1 DEF IsRequest
<1> HIDE DEF a
<1>3. ASSUME NEW r \in Request, ~(IsRequest(m) /\ RequestOf(m) = r)
      PROVE  Token(r)'
  <2>1. Same(mq_, mq_', r)
    <3>1. Same(mq_, a, r)
      BY <1>0, <1>1, <1>3, ResponseSame DEF a
    <3> QED
      BY <1>1, <3>1, SameItself
  <2>2. CASE ~Mentions(m, r)
    BY <1>1, <2>1, <2>2, DispatchOther
  <2>3. CASE Mentions(m, r)
    <3>1. ~IsRequest(m)
      BY <1>1, <1>3, <2>3, DispatchTakes
    <3> QED
      BY <1>1, <2>1, <2>3, <3>1, DispatchAnswer
  <2> QED
    BY <2>2, <2>3
<1>4. ASSUME NEW r \in Request, IsRequest(m), RequestOf(m) = r
      PROVE  Token(r)'
  <2>1. PICK b : b = Mail(Nobody, r.from, r.n)
    OBVIOUS
  <2>2. /\ mq_' = Sent(mq_, b)
        /\ b \in Message /\ Mentions(b, r) /\ b.receiver = r.from
    BY <1>1, <1>2, <1>4, <2>1, ResponseIs DEF a
  <2>3. Mentions(m, r)
    BY <1>4 DEF Mentions, Asks, AnswerTo
  <2>4. /\ NotIn(mq_, r) /\ NotIn(swapmq_', r) /\ NotRemoving(r)' /\ NotOwed(r) /\ NotGot(r)'
        /\ r.n <= asked[r.from]
    BY <1>1, <1>4, <2>3, DispatchTakes
  <2>5. NotOwed(r)' /\ r.n <= asked'[r.from]
    BY <1>1, <2>4 DEF NotOwed
  <2>6. Same(Sent(mq_, b), mq_', r)
    BY <2>2, SameItself
  <2> QED
    BY <1>0, <1>1, <2>2, <2>4, <2>5, <2>6, AnswerLands
<1> QED
  BY <1>3, <1>4 DEF Tokens

LEMMA DispatchRedirectsTokens ==
    ASSUME TInv, NEW w \in Workers, NEW s \in Services, NEW m, NEW to \in Services,
           DispatchRedirects(w, s, m, to)
    PROVE  Tokens'
<1>0. TypeOK /\ mq_ \in Queues
  BY DEF TInv, IInv, TypeOK, Queues
<1>1. /\ m \in Message /\ m.broadcast = 0 /\ Dispatches(w, s, m)
      /\ UNCHANGED <<owed, asked, alive>>
  BY FindsFacts DEF DispatchRedirects, Dispatches
<1>2. PICK f : f = [m EXCEPT !.receiver = to, !.forwarded = m.session > 0]
  OBVIOUS
<1>3. /\ mq_' = Sent(mq_, f) /\ lost' = lost \cup LostWith(f)
  BY <1>2 DEF DispatchRedirects
<1>4. m.session \in Int /\ (m.session > 0) \in BOOLEAN
  BY <1>1, MessagingAssumption DEF Message
<1>5. f \in Message
  <2>1. PICK on \in BOOLEAN : on = (m.session > 0)
    BY <1>4
  <2>2. f = [m EXCEPT !.receiver = to, !.forwarded = on]
    BY <1>2, <2>1
  <2> QED
    BY <1>1, <2>1, <2>2 DEF Message
<1>6. /\ f.session = m.session /\ f.sender = m.sender /\ f.broadcast = 0
      /\ m.session > 0 => f.forwarded
  BY <1>1, <1>2 DEF Message
<1>7. /\ IsRequest(f) <=> IsRequest(m)
      /\ RequestOf(f) = RequestOf(m)
  BY <1>1, <1>6 DEF IsRequest, RequestOf
<1>8. ASSUME NEW r \in Request, ~IsRequest(m)
      PROVE  ~Mentions(f, r)
  <2>1. r.n \in Int /\ r.n > 0
    BY MessagingAssumption DEF Request, Sessions
  <2> QED
    BY <1>4, <1>6, <1>7, <1>8, <2>1 DEF Mentions, Asks, AnswerTo
<1>9. ASSUME NEW r \in Request, ~(IsRequest(m) /\ RequestOf(m) = r)
      PROVE  Token(r)'
  <2>1. ~Mentions(f, r)
    <3>1. CASE ~IsRequest(m)
      BY <1>8, <3>1
    <3>2. CASE IsRequest(m)
      <4>1. RequestOf(m) \in Request /\ Mentions(f, RequestOf(m))
        BY <1>1, <1>7, <3>2, LostType DEF Mentions, Asks, AnswerTo
      <4> QED
        BY <1>5, <1>9, <3>2, <4>1, MentionsOne
    <3> QED
      BY <3>1, <3>2
  <2>2. Same(mq_, mq_', r)
    BY <1>0, <1>3, <1>5, <2>1, SentSame
  <2>3. CASE ~Mentions(m, r)
    BY <1>1, <1>3, <2>2, <2>3, DispatchOther
  <2>4. CASE Mentions(m, r)
    <3>1. ~IsRequest(m)
      BY <1>1, <1>9, <2>4, DispatchTakes
    <3> QED
      BY <1>1, <2>2, <2>4, <3>1, DispatchAnswer
  <2> QED
    BY <2>3, <2>4
<1>10. ASSUME NEW r \in Request, IsRequest(m), RequestOf(m) = r
       PROVE  Token(r)'
  <2>1. Mentions(m, r) /\ IsRequest(f) /\ RequestOf(f) = r
    BY <1>7, <1>10 DEF Mentions, Asks, AnswerTo
  <2>2. /\ NotIn(mq_, r) /\ NotIn(swapmq_', r) /\ NotRemoving(r)' /\ NotOwed(r) /\ NotGot(r)'
        /\ r.n <= asked[r.from]
    BY <1>1, <1>10, <2>1, DispatchTakes
  <2>3. NotOwed(r)' /\ r.n <= asked'[r.from]
    BY <1>1, <2>2 DEF NotOwed
  <2> QED
    BY <1>0, <1>3, <1>5, <2>1, <2>2, <2>3, RequestLands
<1> QED
  BY <1>9, <1>10 DEF Tokens

LEMMA ResponseQueues ==
    ASSUME NEW q \in Queues, NEW m \in Message
    PROVE  Response(q, m.sender, -m.session) \in Queues
<1>1. m.sender \in Services \cup {Nobody} /\ -m.session \in -MaxSends..MaxSends
  BY MessagingAssumption DEF Message
<1> QED
  BY <1>1, ResponseKeeps DEF Kept

LEMMA DispatchRedirectsAndFailsTokens ==
    ASSUME TInv, NEW w \in Workers, NEW s \in Services, NEW m, NEW to \in Services,
           DispatchRedirectsAndFails(w, s, m, to)
    PROVE  Tokens'
<1> DEFINE a == Response(mq_, m.sender, -m.session)
<1>0. TypeOK /\ mq_ \in Queues
  BY DEF TInv, IInv, TypeOK, Queues
<1>1. /\ m \in Message /\ m.broadcast = 0 /\ Dispatches(w, s, m)
      /\ UNCHANGED <<owed, asked, lost, alive>>
  BY FindsFacts DEF DispatchRedirectsAndFails, Dispatches
<1>2. m.session \in Int /\ m.session \in -MaxSends..MaxSends /\ MaxSends \in Nat
  BY <1>1, MessagingAssumption DEF Message
<1>3. PICK n \in -MaxSends..MaxSends : /\ n = IF m.session < 0 THEN -m.session ELSE m.session
                                       /\ n \in Nat
  BY <1>2
<1>4. PICK on \in BOOLEAN : on = (m.session # 0)
  BY <1>2
<1>5. PICK f : f = [m EXCEPT !.receiver = to, !.session = n, !.forwarded = on]
  OBVIOUS
<1>6. mq_' = IF m.session >= 0 THEN Sent(mq_, f) ELSE Sent(a, f)
  BY <1>3, <1>4, <1>5 DEF DispatchRedirectsAndFails
<1>7. f \in Message /\ f.session = n /\ f.forwarded = on
  BY <1>1, <1>5 DEF Message
<1>8. Silent(f)
  <2>1. n = 0 \/ m.session # 0
    BY <1>2, <1>3
  <2>2. f.session = 0 \/ (f.session \in Nat /\ f.forwarded)
    BY Zenon, <1>3, <1>4, <1>7, <2>1
  <2> QED
    BY <2>2, SilentMessages
<1>9. a \in Queues
  BY <1>0, <1>1, ResponseQueues
<1>10. IsRequest(m) => mq_' = Sent(a, f)
  BY <1>2, <1>6 DEF IsRequest
<1> HIDE DEF a
<1>11. ASSUME NEW r \in Request, ~(IsRequest(m) /\ RequestOf(m) = r)
       PROVE  Token(r)'
  <2>1. Same(mq_, mq_', r)
    <3>1. Same(mq_, a, r)
      BY <1>0, <1>1, <1>11, ResponseSame DEF a
    <3>2. Same(mq_, Sent(mq_, f), r) /\ Same(a, Sent(a, f), r)
      BY <1>0, <1>7, <1>8, <1>9, SentSame DEF Silent
    <3>3. Same(mq_, Sent(a, f), r)
      BY <3>1, <3>2, SameSame
    <3> QED
      BY <1>6, <3>2, <3>3
  <2>2. CASE ~Mentions(m, r)
    BY <1>1, <2>1, <2>2, DispatchOther
  <2>3. CASE Mentions(m, r)
    <3>1. ~IsRequest(m)
      BY <1>1, <1>11, <2>3, DispatchTakes
    <3> QED
      BY <1>1, <2>1, <2>3, <3>1, DispatchAnswer
  <2> QED
    BY <2>2, <2>3
<1>12. ASSUME NEW r \in Request, IsRequest(m), RequestOf(m) = r
       PROVE  Token(r)'
  <2>1. PICK b : b = Mail(Nobody, r.from, r.n)
    OBVIOUS
  <2>2. /\ a = Sent(mq_, b)
        /\ b \in Message /\ Mentions(b, r) /\ b.receiver = r.from
    BY <1>1, <1>12, <2>1, ResponseIs DEF a
  <2>3. Mentions(m, r)
    BY <1>12 DEF Mentions, Asks, AnswerTo
  <2>4. /\ NotIn(mq_, r) /\ NotIn(swapmq_', r) /\ NotRemoving(r)' /\ NotOwed(r) /\ NotGot(r)'
        /\ r.n <= asked[r.from]
    BY <1>1, <1>12, <2>3, DispatchTakes
  <2>5. NotOwed(r)' /\ r.n <= asked'[r.from]
    BY <1>1, <2>4 DEF NotOwed
  <2>6. Same(Sent(mq_, b), mq_', r)
    BY <1>7, <1>8, <1>9, <1>10, <1>12, <2>2, SentSame DEF Silent
  <2> QED
    BY <1>0, <1>1, <2>2, <2>4, <2>5, <2>6, AnswerLands
<1> QED
  BY <1>11, <1>12 DEF Tokens

\* The request that resend() makes.
LEMMA NewRequest ==
    ASSUME TInv, NEW w \in Workers, NEW s \in Services, NEW m, Dispatches(w, s, m),
           NEW new \in Request, new = [from |-> s, n |-> asked[s] + 1],
           asked' = [asked EXCEPT ![s] = @ + 1]
    PROVE  /\ NotIn(mq_, new) /\ NotIn(swapmq_', new) /\ NotRemoving(new)' /\ NotOwed(new)
           /\ NotGot(new)' /\ new.n <= asked'[new.from] /\ ~Mentions(m, new)
<1>0. TypeOK
  BY DEF TInv, IInv
<1>1. /\ Handles(w) /\ Handled(w) /\ m = Head(swapmq_[w])
      /\ UNCHANGED <<removals, alive>>
  BY FindsFacts DEF Dispatches
<1>2. asked[s] \in Int /\ asked'[s] = asked[s] + 1 /\ new.from = s /\ new.n = asked[s] + 1
  BY <1>0, MessagingAssumption DEF TypeOK
<1>3. ~(new.n <= asked[new.from]) /\ new.n <= asked'[new.from]
  BY <1>2
<1>4. Token(new)
  BY DEF TInv, Tokens
<1>5. NotIn(mq_, new) /\ NotIn(swapmq_, new) /\ NotRemoving(new) /\ NotOwed(new) /\ NotGot(new)
  BY <1>0, <1>3, <1>4, NewNowhere
<1>6. ~Mentions(m, new)
  BY <1>3, DispatchTakes
<1>7. NotIn(swapmq_', new)
  <2>1. Same(swapmq_, swapmq_', new)
    BY <1>0, <1>1, <1>4, <1>6, HeadTaken
  <2> QED
    BY <1>5, <2>1 DEF Same, NotIn
<1>8. NotRemoving(new)'
  BY <1>1, <1>5 DEF NotRemoving
<1>9. NotGot(new)'
  BY <1>5, <1>6, GotCounts DEF NotGot
<1> QED
  BY <1>3, <1>5, <1>6, <1>7, <1>8, <1>9

LEMMA DispatchResendsTokens ==
    ASSUME TInv, NEW w \in Workers, NEW s \in Services, NEW m, NEW to \in Services,
           DispatchResends(w, s, m, to)
    PROVE  Tokens'
<1>0. IInv /\ TypeOK /\ mq_ \in Queues
  BY DEF TInv, IInv, TypeOK, Queues
<1>1. m \in Message /\ Dispatches(w, s, m) /\ UNCHANGED alive
  BY FindsFacts DEF DispatchResends, Dispatches
<1>2. asked[s] + 1 \in Sessions /\ [from |-> s, n |-> asked[s] + 1] \in Request
  BY <1>0, NextRequest DEF DispatchResends
<1>3. PICK new \in Request : new = [from |-> s, n |-> asked[s] + 1]
  BY <1>2
<1>4. new.from = s /\ new.n = asked[s] + 1
  BY <1>3
<1>5. PICK f : f = Mail(s, to, -(asked[s] + 1))
  OBVIOUS
<1>6. f \in Message /\ IsRequest(f) /\ RequestOf(f) = new
  BY <1>2, <1>3, <1>5, RequestMentions
<1>7. /\ mq_' = Sent(mq_, f) /\ lost' = lost \cup LostWith(f)
      /\ asked' = [asked EXCEPT ![s] = @ + 1]
      /\ owed' = IF IsRequest(m) THEN Keeps(s, m) ELSE owed
  BY <1>5 DEF DispatchResends
<1>8. /\ NotIn(mq_, new) /\ NotIn(swapmq_', new) /\ NotRemoving(new)' /\ NotOwed(new)
      /\ NotGot(new)' /\ new.n <= asked'[new.from] /\ ~Mentions(m, new)
  BY <1>1, <1>3, <1>7, NewRequest
<1>9. \A t \in Services, r \in Request :
          r \in owed'[t] <=> r \in owed[t] \/ (t = s /\ IsRequest(m) /\ r = RequestOf(m))
  <2>1. CASE IsRequest(m)
    <3>1. \A t \in Services : owed'[t] = IF t = s THEN owed[t] \cup {RequestOf(m)} ELSE owed[t]
      BY <1>0, <1>7, <2>1 DEF TypeOK, Keeps
    <3> QED
      BY <2>1, <3>1
  <2>2. CASE ~IsRequest(m)
    BY <1>7, <2>2
  <2> QED
    BY <2>1, <2>2
<1>10. ASSUME NEW r \in Request, r # new
       PROVE  Same(mq_, mq_', r) /\ (r.n <= asked'[r.from] <=> r.n <= asked[r.from])
  <2>1. Mentions(f, new)
    BY <1>6 DEF Mentions, Asks, AnswerTo
  <2>2. Same(mq_, mq_', r)
    BY <1>0, <1>6, <1>7, <1>10, <2>1, MentionsOne, SentSame
  <2>3. r.n <= asked'[r.from] <=> r.n <= asked[r.from]
    BY <1>0, <1>3, <1>7, <1>10, OthersAsked
  <2> QED
    BY <2>2, <2>3
<1>11. ASSUME NEW r \in Request, r # new, ~(IsRequest(m) /\ RequestOf(m) = r)
       PROVE  Token(r)'
  <2>1. \A t \in Services : r \in owed'[t] <=> r \in owed[t]
    BY <1>9, <1>11
  <2>2. CASE ~Mentions(m, r)
    BY <1>1, <1>7, <1>10, <1>11, <2>1, <2>2, DispatchOther
  <2>3. CASE Mentions(m, r)
    <3>1. ~IsRequest(m)
      BY <1>1, <1>11, <2>3, DispatchTakes
    <3> QED
      BY <1>1, <1>10, <1>11, <2>1, <2>3, <3>1, DispatchAnswer
  <2> QED
    BY <2>2, <2>3
<1>12. ASSUME NEW r \in Request, IsRequest(m), RequestOf(m) = r
       PROVE  Token(r)'
  <2>1. Mentions(m, r)
    BY <1>12 DEF Mentions, Asks, AnswerTo
  <2>2. r # new
    BY <1>8, <2>1
  <2>3. /\ NotIn(mq_, r) /\ NotIn(swapmq_', r) /\ NotRemoving(r)' /\ NotOwed(r) /\ NotGot(r)'
        /\ r.n <= asked[r.from]
    BY <1>1, <1>12, <2>1, DispatchTakes
  <2>4. \A t \in Services : r \in owed'[t] <=> t = s
    BY <1>9, <1>12, <2>3 DEF NotOwed
  <2>5. NotIn(mq_', r) /\ r.n <= asked'[r.from]
    BY <1>10, <2>2, <2>3 DEF NotIn, Same
  <2> QED
    BY <2>3, <2>4, <2>5, LandOwed
<1>13. Token(new)'
  <2>1. NotOwed(new)'
    <3>1. ~(IsRequest(m) /\ new = RequestOf(m))
      BY <1>8 DEF Mentions, Asks, AnswerTo
    <3> QED
      BY <1>8, <1>9, <3>1 DEF NotOwed
  <2> QED
    BY <1>0, <1>6, <1>7, <1>8, <2>1, RequestLands
<1> QED
  BY <1>11, <1>12, <1>13 DEF Tokens

LEMMA DispatchResendsAndFailsTokens ==
    ASSUME TInv, NEW w \in Workers, NEW s \in Services, NEW m, NEW to \in Services,
           DispatchResendsAndFails(w, s, m, to)
    PROVE  Tokens'
<1>0. IInv /\ TypeOK /\ mq_ \in Queues
  BY DEF TInv, IInv, TypeOK, Queues
<1>1. m \in Message /\ Dispatches(w, s, m) /\ Finds(w, s, m) /\ UNCHANGED alive
  BY FindsFacts DEF DispatchResendsAndFails, Dispatches
<1>2. PICK n \in Sessions : n = asked[s] + 1 /\ [from |-> s, n |-> n] \in Request
  BY <1>0, NextRequest DEF DispatchResendsAndFails
<1>3. PICK new \in Request : new = [from |-> s, n |-> n]
  BY <1>2
<1>4. new.from = s /\ new.n = n
  BY <1>3
<1>5. PICK a : a = Mail(Nobody, s, n)
  OBVIOUS
<1>6. a \in Message /\ a.broadcast = 0 /\ Mentions(a, new) /\ a.receiver = new.from
  BY <1>4, <1>5, AnswerMentions DEF Mail
<1>7. PICK f : f = [Mail(s, to, n) EXCEPT !.forwarded = TRUE]
  OBVIOUS
<1>8. f \in Message /\ Silent(f)
  <2>1. n \in Nat /\ n \in -MaxSends..MaxSends
    BY MessagingAssumption DEF Sessions
  <2>2. Mail(s, to, n) \in Message
    BY <2>1, MailType
  <2>3. f \in Message
    BY <1>7, <2>2 DEF Message
  <2>4. f.session = n /\ f.forwarded
    BY <1>7 DEF Mail
  <2> QED
    BY <2>1, <2>3, <2>4, SilentMessages
<1>9. PICK b : b = Sent(mq_, Answer(s, m))
  OBVIOUS
<1>10. /\ asked' = [asked EXCEPT ![s] = @ + 1]
       /\ \/ /\ IsRequest(m) /\ mq_' = Sent(Sent(mq_, a), f)
             /\ lost' = lost \cup {RequestOf(m)} /\ owed' = owed
          \/ /\ IsRequest(m) /\ mq_' = Sent(Sent(mq_, a), f)
             /\ owed' = Keeps(s, m) /\ lost' = lost
          \/ /\ IsRequest(m) /\ mq_' = Sent(Sent(b, a), f)
             /\ owed' = owed /\ lost' = lost
          \/ /\ ~IsRequest(m) /\ mq_' = Sent(Sent(mq_, a), f)
             /\ owed' = owed /\ lost' = lost
  <2>1. s # Nobody
    BY MessagingAssumption
  <2>2. n # 0
    BY MessagingAssumption DEF Sessions
  <2>3. Response(mq_, s, n) = Sent(mq_, a) /\ Response(b, s, n) = Sent(b, a)
    BY <1>5, <2>1, <2>2 DEF Response
  <2> QED
    BY <1>2, <1>7, <1>9, <2>3 DEF DispatchResendsAndFails
<1>11. /\ NotIn(mq_, new) /\ NotIn(swapmq_', new) /\ NotRemoving(new)' /\ NotOwed(new)
       /\ NotGot(new)' /\ new.n <= asked'[new.from] /\ ~Mentions(m, new)
  BY <1>1, <1>2, <1>3, <1>10, NewRequest
<1>12. b \in Queues /\ (IsRequest(m) => NotIn(b, new))
  <2>1. Answer(s, m) \in Message /\ Answer(s, m).broadcast = 0
    BY <1>0, <1>1, TakesUp
  <2>2. b \in Queues
    BY <1>0, <1>9, <2>1, SentKeeps DEF Kept
  <2>3. ASSUME IsRequest(m)
        PROVE  NotIn(b, new)
    <3>1. PICK q \in Request : q = RequestOf(m)
      BY <1>1, <2>3, LostType
    <3>2. Answer(s, m) = Mail(s, q.from, q.n) /\ Mentions(m, q)
      BY <2>3, <3>1 DEF RequestOf, Answer, Mentions, Asks
    <3>3. Mentions(Answer(s, m), q) /\ q # new
      BY <1>11, <3>2, AnswerMentions
    <3>4. ~Mentions(Answer(s, m), new)
      BY <2>1, <3>3, MentionsOne
    <3>5. Same(mq_, b, new)
      BY <1>0, <1>9, <2>1, <3>4, SentSame
    <3> QED
      BY <1>11, <3>5 DEF NotIn, Same
  <2> QED
    BY <2>2, <2>3
<1>13. PICK x \in Queues :
           /\ mq_' = Sent(Sent(x, a), f) /\ NotIn(x, new)
           /\ \/ IsRequest(m) /\ x = mq_ /\ lost' = lost \cup {RequestOf(m)} /\ owed' = owed
              \/ IsRequest(m) /\ x = mq_ /\ owed' = Keeps(s, m) /\ lost' = lost
              \/ IsRequest(m) /\ x = b /\ owed' = owed /\ lost' = lost
              \/ ~IsRequest(m) /\ x = mq_ /\ owed' = owed /\ lost' = lost
  BY <1>0, <1>10, <1>11, <1>12
<1>14. \A r \in Request : Same(Sent(x, a), mq_', r)
  <2>1. Sent(x, a) \in Queues
    BY <1>6, SentKeeps DEF Kept
  <2> QED
    BY <1>8, <1>13, <2>1, SentSame DEF Silent
<1>15. ASSUME NEW r \in Request, r # new
       PROVE  Same(x, mq_', r) /\ (r.n <= asked'[r.from] <=> r.n <= asked[r.from])
  <2>1. Same(x, Sent(x, a), r)
    BY <1>6, <1>15, MentionsOne, SentSame
  <2>2. Same(x, mq_', r)
    BY <1>14, <2>1, SameSame
  <2>3. r.n <= asked'[r.from] <=> r.n <= asked[r.from]
    BY <1>0, <1>2, <1>3, <1>10, <1>15, OthersAsked
  <2> QED
    BY <2>2, <2>3
<1>16. ASSUME NEW r \in Request, r # new
       PROVE  Token(r)'
  <2>1. CASE IsRequest(m) /\ x = mq_ /\ lost' = lost \cup {RequestOf(m)} /\ owed' = owed
    BY <1>1, <1>15, <1>16, <2>1, LostToken
  <2>2. CASE IsRequest(m) /\ x = mq_ /\ owed' = Keeps(s, m) /\ lost' = lost
    BY <1>1, <1>15, <1>16, <2>2, KeptToken
  <2>3. CASE IsRequest(m) /\ x = b /\ owed' = owed /\ lost' = lost
    BY <1>1, <1>9, <1>15, <1>16, <2>3, AnsweredToken
  <2>4. CASE ~IsRequest(m) /\ x = mq_ /\ owed' = owed /\ lost' = lost
    BY <1>1, <1>15, <1>16, <2>4, NoRequestToken
  <2> QED
    BY <1>13, <2>1, <2>2, <2>3, <2>4
<1>17. Token(new)'
  <2>1. NotOwed(new)'
    <3>1. owed' = owed \/ (IsRequest(m) /\ owed' = Keeps(s, m))
      BY <1>10
    <3>2. IsRequest(m) => RequestOf(m) # new
      BY <1>11 DEF Mentions, Asks
    <3>3. IsRequest(m) /\ owed' = Keeps(s, m) =>
              \A t \in Services : owed'[t] \subseteq owed[t] \cup {RequestOf(m)}
      BY <1>0 DEF Keeps, TypeOK
    <3> QED
      BY <1>11, <3>1, <3>2, <3>3 DEF NotOwed
  <2> QED
    BY <1>0, <1>1, <1>6, <1>11, <1>13, <1>14, <2>1, AnswerLandsBehind
<1> QED
  BY <1>16, <1>17 DEF Tokens

-----------------------------------------------------------------------------
(* Removed services lose them. *)

\* What a service owes is lost with it, and the rest stays.
LEMMA LeaveTokens ==
    ASSUME TInv, NEW s \in Services, NEW q \in Queues, Leave(s, q), NEW r \in Request,
           Same(mq_, q, r),
           {x \in removals' : x.request = r} = {x \in removals : x.request = r},
           UNCHANGED <<swapmq_, asked, got>>
    PROVE  Token(r)'
<1>0. IInv /\ TypeOK
  BY DEF TInv, IInv
<1>1. Same(mq_, mq_', r)
  <2>1. Same(q, mq_', r)
    BY <1>0, BroadcastSame DEF Leave
  <2> QED
    BY <2>1, SameSame
<1>2. /\ alive' \subseteq alive
      /\ lost' = lost \cup owed[s]
      /\ \A t \in Services : owed'[t] = IF t = s THEN {} ELSE owed[t]
  BY <1>0 DEF Leave, TypeOK
<1>3. CASE r \notin owed[s]
  <2>1. \A t \in Services : r \in owed'[t] <=> r \in owed[t]
    BY <1>2, <1>3
  <2> QED
    BY <1>1, <1>2, <2>1, SameItself, FramePlain
<1>4. CASE r \in owed[s]
  <2>1. Token(r)
    BY DEF TInv, Tokens
  <2>2. /\ NotIn(mq_, r) /\ NotIn(swapmq_, r) /\ NotRemoving(r) /\ NotGot(r)
        /\ \A t \in Services : r \in owed[t] => t = s
    BY <1>0, <1>4, <2>1, OwedAlone
  <2>3. NotIn(mq_', r) /\ NotIn(swapmq_', r)
    BY <1>1, <2>2 DEF NotIn, Same
  <2>4. NotRemoving(r)' /\ NotGot(r)'
    BY <2>2 DEF NotRemoving, NotGot
  <2>5. NotOwed(r)' /\ r \in lost'
    BY <1>2, <1>4, <2>2 DEF NotOwed
  <2> QED
    BY <2>3, <2>4, <2>5, LandNowhere
<1> QED
  BY <1>3, <1>4

LEMMA QuitTokens ==
    ASSUME TInv, NEW s \in Services, Quit(s)
    PROVE  Tokens'
<1>1. mq_ \in Queues /\ Leave(s, mq_) /\ UNCHANGED <<swapmq_, removals, asked, got>>
  BY DEF Quit, bounds, TInv, IInv, TypeOK, Queues
<1>2. ASSUME NEW r \in Request
      PROVE  Token(r)'
  <2>1. Same(mq_, mq_, r)
    BY SameItself
  <2> QED
    BY <1>1, <2>1, LeaveTokens
<1> QED
  BY <1>2 DEF Tokens

LEMMA RemoveTaskTokens ==
    ASSUME TInv, NEW x \in removals, RemoveTask(x)
    PROVE  Tokens'
<1>0. IInv /\ TypeOK /\ mq_ \in Queues
  BY DEF TInv, IInv, TypeOK, Queues
<1>1. PICK new \in Request : new = x.request
  BY <1>0 DEF TypeOK, Removal
<1>2. PICK a : a = Mail(Nobody, new.from, new.n)
  OBVIOUS
<1>3. a \in Message /\ Mentions(a, new) /\ a.receiver = new.from
  BY <1>2, AnswerMentions
<1>4. PICK q : q = Sent(mq_, a)
  OBVIOUS
<1>5. Response(mq_, x.request.from, x.request.n) = q
  <2>1. new.from \in Services /\ new.n \in 1..MaxSends
    BY DEF Request, Sessions
  <2>2. new.from # Nobody
    BY <2>1, MessagingAssumption
  <2>3. new.n # 0
    BY <2>1, MessagingAssumption
  <2> QED
    BY <1>1, <1>2, <1>4, <2>2, <2>3 DEF Response
<1>6. q \in Queues
  <2>1. a.broadcast = 0
    BY <1>2 DEF Mail
  <2> QED
    BY <1>0, <1>3, <1>4, <2>1, SentKeeps DEF Kept
<1>7. x.id \in Services
  BY <1>0 DEF TypeOK, Removal
<1>8. /\ removals' = removals \ {x}
      /\ \/ Leave(x.id, q)
         \/ mq_' = q /\ UNCHANGED <<alive, lost, owed>>
      /\ UNCHANGED <<swapmq_, asked, got>>
  BY <1>5 DEF RemoveTask
<1>9. \A r \in Request : Same(q, mq_', r)
  BY <1>0, <1>6, <1>7, <1>8, BroadcastSame, SameItself DEF Leave
<1>10. ASSUME NEW r \in Request, r # new
       PROVE  Token(r)'
  <2>1. Same(mq_, q, r)
    BY <1>0, <1>3, <1>4, <1>10, MentionsOne, SentSame
  <2>2. {y \in removals' : y.request = r} = {y \in removals : y.request = r}
    BY <1>1, <1>8, <1>10
  <2>3. CASE Leave(x.id, q)
    BY <1>6, <1>7, <1>8, <2>1, <2>2, <2>3, LeaveTokens
  <2>4. CASE mq_' = q /\ UNCHANGED <<alive, lost, owed>>
    BY <1>8, <2>1, <2>2, <2>4, SameItself, FramePlain
  <2> QED
    BY <1>8, <2>3, <2>4
<1>11. Token(new)'
  <2>1. Token(new)
    BY DEF TInv, Tokens
  <2>2. /\ NotIn(mq_, new) /\ NotIn(swapmq_, new) /\ NotOwed(new) /\ NotGot(new)
        /\ \A y \in removals : y.request = new => y = x
        /\ new.n <= asked[new.from]
    BY <1>0, <1>1, <2>1, RemovalAlone
  <2>3. NotRemoving(new)' /\ NotIn(swapmq_', new) /\ NotGot(new)' /\ new.n <= asked'[new.from]
    BY <1>8, <2>2 DEF NotRemoving, NotIn, NotGot
  <2>4. NotOwed(new)' /\ alive' \subseteq alive
    BY <1>0, <1>8, <2>2 DEF NotOwed, Leave, TypeOK
  <2> QED
    BY <1>0, <1>3, <1>4, <1>9, <2>2, <2>3, <2>4, AnswerLands
<1> QED
  BY <1>10, <1>11 DEF Tokens

-----------------------------------------------------------------------------
(* The queues stay in order. *)

AllProper(q) == \A w \in Workers : Proper(q[w], w)

LEMMA AppendProper ==
    ASSUME NEW w, NEW q \in Seq(Message), Proper(q, w), NEW m \in Message,
           m.broadcast # 0 => m.session = 0,
           m.receiver # Nobody => WorkerOf[m.receiver] = w
    PROVE  Proper(Append(q, m), w)
<1> DEFINE t == Append(q, m)
<1>1. /\ Len(t) = Len(q) + 1
      /\ Len(q) \in Nat
      /\ \A i \in 1..Len(q) : t[i] = q[i]
      /\ t[Len(q) + 1] = m
  BY AppendProperties, LenProperties
<1> HIDE DEF t
<1>2. \A i \in 1..Len(t) : i \in 1..Len(q) \/ i = Len(q) + 1
  BY <1>1
<1>3. Proper(t, w)
  BY <1>1, <1>2 DEF Proper
<1> QED
  BY <1>3 DEF t

LEMMA TailProper ==
    ASSUME NEW w, NEW q \in Seq(Message), q # <<>>, Proper(q, w)
    PROVE  Proper(Tail(q), w)
<1> DEFINE t == Tail(q)
<1>1. /\ Len(q) \in Nat \ {0}
      /\ Len(t) = Len(q) - 1
      /\ \A i \in 1..Len(t) : t[i] = q[i + 1]
  BY HeadTailProperties, LenProperties, EmptySeq
<1> HIDE DEF t
<1>2. \A i \in 1..Len(t) : i + 1 \in 1..Len(q)
  BY <1>1
<1>3. Proper(t, w)
  BY <1>1, <1>2 DEF Proper
<1> QED
  BY <1>3 DEF t

LEMMA SentProper ==
    ASSUME NEW q \in Queues, AllProper(q), NEW m \in Message, m.broadcast = 0
    PROVE  Sent(q, m) \in Queues /\ AllProper(Sent(q, m))
<1>1. Sent(q, m) \in Queues
  BY SentKeeps DEF Kept
<1>2. CASE ~Deliverable(m)
  BY <1>1, <1>2 DEF Sent
<1>3. CASE Deliverable(m)
  <2> DEFINE u == WorkerOf[m.receiver]
             t == Sent(q, m)
  <2>1. u \in Workers /\ t = [q EXCEPT ![u] = Append(q[u], m)] /\ q[u] \in Seq(Message)
    BY <1>3 DEF Deliverable, workerid_valid, Sent, Queues
  <2>2. \A v \in Workers : t[v] = IF v = u THEN Append(q[u], m) ELSE q[v]
    BY <2>1 DEF Queues
  <2>3. Proper(Append(q[u], m), u)
    BY <2>1, AppendProper DEF AllProper
  <2> HIDE DEF t, u
  <2>4. AllProper(t)
    BY <2>2, <2>3 DEF AllProper
  <2> QED
    BY <1>1, <2>4 DEF t
<1> QED
  BY <1>2, <1>3

LEMMA ResponseProper ==
    ASSUME NEW q \in Queues, AllProper(q),
           NEW to \in Services \cup {Nobody}, NEW n \in -MaxSends..MaxSends
    PROVE  Response(q, to, n) \in Queues /\ AllProper(Response(q, to, n))
<1>1. Mail(Nobody, to, n) \in Message /\ Mail(Nobody, to, n).broadcast = 0
  BY MailType
<1> QED
  BY <1>1, SentProper DEF Response

LEMMA ToAllProper ==
    ASSUME NEW q \in Queues, AllProper(q), NEW m \in Message,
           m.session = 0, m.receiver = Nobody
    PROVE  AllProper([w \in Workers |-> Append(q[w], m)])
<1>1. \A w \in Workers : q[w] \in Seq(Message)
  BY DEF Queues
<1> QED
  BY <1>1, AppendProper DEF AllProper

LEMMA BroadcastProper ==
    ASSUME IInv, NEW s \in Services, NEW q \in Queues, AllProper(q), Broadcast(s, q)
    PROVE  AllProper(mq_')
<1> DEFINE n == Len(speakers) + 1
           m == [sender |-> s, receiver |-> Nobody, session |-> 0, broadcast |-> n,
                 forwarded |-> FALSE, second |-> FALSE]
<1>1. n \in Numbers /\ mq_' = [w \in Workers |-> Append(q[w], m)]
  BY LenProperties DEF Broadcast, IInv, TypeOK, Numbers
<1>2. m \in Message /\ m.session = 0 /\ m.receiver = Nobody
  BY <1>1, MessagingAssumption DEF Message, Numbers
<1> HIDE DEF m
<1> QED
  BY <1>1, <1>2, ToAllProper

LEMMA BooksFacts ==
    ASSUME TInv
    PROVE  /\ IInv /\ TypeOK /\ mq_ \in Queues /\ AllProper(mq_) /\ AllProper(swapmq_)
           /\ \A t \in Services : owed[t] # {} => t \in alive
           /\ \A t \in Mute : asked[t] = 0
BY DEF TInv, IInv, TypeOK, Queues, Books, ProperQueues, AllProper, OwedByLiving,
       MuteAskNothing

LEMMA BooksKept ==
    ASSUME AllProper(mq_'), AllProper(swapmq_'),
           \A t \in Services : owed'[t] # {} => t \in alive',
           \A t \in Mute : asked'[t] = 0
    PROVE  Books'
BY DEF Books, ProperQueues, AllProper, OwedByLiving, MuteAskNothing

\* Nobody without callbacks makes a request.
LEMMA AsksCounted ==
    ASSUME TInv, NEW s \in Services \ Mute, asked' = [asked EXCEPT ![s] = @ + 1]
    PROVE  \A t \in Mute : asked'[t] = 0
<1>1. \A t \in Mute : t \in Services /\ t # s /\ asked[t] = 0
  BY BooksFacts, MessagingAssumption
<1>2. asked \in [Services -> 0..MaxSends]
  BY BooksFacts DEF TypeOK
<1> QED
  BY <1>1, <1>2

LEMMA ScriptBooks ==
    ASSUME TInv, NEW s \in Services, NEW to \in Services,
           ScriptNotify(s, to) \/ ScriptAsk(s, to) \/ ScriptRemove(s, to)
    PROVE  Books'
<1>0. IInv /\ mq_ \in Queues /\ AllProper(mq_) /\ AllProper(swapmq_)
  BY BooksFacts
<1>1. /\ UNCHANGED <<swapmq_, owed, alive>>
      /\ s \in Services \ Mute
      /\ \A t \in Services : owed'[t] # {} => t \in alive'
      /\ sends < MaxSends /\ sends' = sends + 1
  BY BooksFacts DEF ScriptNotify, ScriptAsk, ScriptRemove, Runs, tables
<1>2. CASE ScriptNotify(s, to)
  <2>1. Mail(s, to, 0) \in Message /\ Mail(s, to, 0).broadcast = 0
    <3>1. 0 \in -MaxSends..MaxSends
      BY MessagingAssumption
    <3> QED
      BY <3>1, MailType
  <2>2. mq_' = Sent(mq_, Mail(s, to, 0)) /\ asked' = asked
    BY <1>2 DEF ScriptNotify
  <2>3. AllProper(mq_')
    BY <1>0, <2>1, <2>2, SentProper
  <2>4. \A t \in Mute : asked'[t] = 0
    BY <2>2, BooksFacts
  <2> QED
    BY <1>0, <1>1, <2>3, <2>4, BooksKept
<1>3. CASE ScriptAsk(s, to)
  <2>1. -(asked[s] + 1) \in -MaxSends..MaxSends
    BY <1>0, <1>1, NextRequest
  <2>2. /\ Mail(s, to, -(asked[s] + 1)) \in Message
        /\ Mail(s, to, -(asked[s] + 1)).broadcast = 0
    BY <2>1, MailType
  <2>3. /\ mq_' = Sent(mq_, Mail(s, to, -(asked[s] + 1)))
        /\ asked' = [asked EXCEPT ![s] = @ + 1]
    BY <1>3 DEF ScriptAsk
  <2>4. AllProper(mq_')
    BY <1>0, <2>2, <2>3, SentProper
  <2>5. \A t \in Mute : asked'[t] = 0
    BY <1>1, <2>3, AsksCounted
  <2> QED
    BY <1>0, <1>1, <2>4, <2>5, BooksKept
<1>4. CASE ScriptRemove(s, to)
  <2>1. asked[s] + 1 \in -MaxSends..MaxSends
    BY <1>0, <1>1, NextRequest
  <2>2. /\ mq_' = mq_ \/ mq_' = Response(mq_, s, asked[s] + 1)
        /\ asked' = [asked EXCEPT ![s] = @ + 1]
    BY <1>4 DEF ScriptRemove
  <2>3. AllProper(mq_')
    BY <1>0, <2>1, <2>2, ResponseProper
  <2>4. \A t \in Mute : asked'[t] = 0
    BY <1>1, <2>2, AsksCounted
  <2> QED
    BY <1>0, <1>1, <2>3, <2>4, BooksKept
<1> QED
  BY <1>2, <1>3, <1>4

LEMMA ScriptAnswerBooks ==
    ASSUME TInv, NEW s \in Services, NEW q \in owed[s], ScriptAnswer(s, q)
    PROVE  Books'
<1>0. TypeOK /\ mq_ \in Queues /\ AllProper(mq_) /\ AllProper(swapmq_)
  BY BooksFacts
<1>1. q \in Request
  BY <1>0 DEF TypeOK
<1>2. Mail(s, q.from, q.n) \in Message /\ Mail(s, q.from, q.n).broadcast = 0
  BY <1>1, AnswerMentions DEF Mail
<1>3. /\ mq_' = Sent(mq_, Mail(s, q.from, q.n)) /\ UNCHANGED <<swapmq_, asked, alive>>
      /\ owed' = [owed EXCEPT ![s] = @ \ {q}]
  BY DEF ScriptAnswer, tables
<1>4. AllProper(mq_')
  BY <1>0, <1>2, <1>3, SentProper
<1>5. \A t \in Services : owed'[t] # {} => t \in alive'
  <2>1. \A t \in Services : owed'[t] \subseteq owed[t]
    BY <1>0, <1>3 DEF TypeOK
  <2> QED
    BY <1>3, <2>1, BooksFacts
<1>6. \A t \in Mute : asked'[t] = 0
  BY <1>3, BooksFacts
<1> QED
  BY <1>0, <1>3, <1>4, <1>5, <1>6, BooksKept

LEMMA ScriptBroadcastBooks ==
    ASSUME TInv, NEW s \in Services, ScriptBroadcast(s) \/ ScriptBroadcastNothing(s)
    PROVE  Books'
<1> DEFINE m == Mail(s, Nobody, 0)
<1>0. IInv /\ mq_ \in Queues /\ AllProper(mq_) /\ AllProper(swapmq_)
  BY BooksFacts
<1>1. m \in Message /\ m.session = 0 /\ m.receiver = Nobody
  <2>1. 0 \in -MaxSends..MaxSends
    BY MessagingAssumption
  <2> QED
    BY <2>1, MailType DEF Mail
<1>2. /\ Broadcast(s, mq_) \/ mq_' = [w \in Workers |-> Append(mq_[w], m)]
      /\ UNCHANGED <<swapmq_, owed, asked, alive>>
  BY DEF ScriptBroadcast, ScriptBroadcastNothing, tables
<1> HIDE DEF m
<1>3. AllProper(mq_')
  BY <1>0, <1>1, <1>2, BroadcastProper, ToAllProper
<1> QED
  BY <1>0, <1>2, <1>3, BooksFacts, BooksKept

LEMMA SwapBooks ==
    ASSUME TInv, NEW w \in Workers, Swap(w)
    PROVE  Books'
<1>0. TypeOK /\ AllProper(mq_) /\ AllProper(swapmq_)
  BY BooksFacts
<1>1. /\ \A v \in Workers : mq_'[v] = IF v = w THEN <<>> ELSE mq_[v]
      /\ \A v \in Workers : swapmq_'[v] = IF v = w THEN mq_[w] ELSE swapmq_[v]
      /\ UNCHANGED <<owed, asked, alive>>
  BY <1>0 DEF Swap, tables, TypeOK
<1>2. Proper(<<>>, w)
  BY EmptySeq DEF Proper
<1>3. AllProper(mq_') /\ AllProper(swapmq_')
  BY <1>0, <1>1, <1>2 DEF AllProper
<1> QED
  BY <1>1, <1>3, BooksFacts, BooksKept

LEMMA HandledProper ==
    ASSUME TInv, NEW w \in Workers, Handles(w), Handled(w)
    PROVE  AllProper(swapmq_')
<1>1. swapmq_[w] \in Seq(Message) /\ swapmq_[w] # <<>> /\ AllProper(swapmq_)
  BY BooksFacts DEF TypeOK, Handles
<1>2. \A v \in Workers : swapmq_'[v] = IF v = w THEN Tail(swapmq_[w]) ELSE swapmq_[v]
  BY BooksFacts DEF Handled, TypeOK
<1>3. Proper(Tail(swapmq_[w]), w)
  BY <1>1, TailProper DEF AllProper
<1> QED
  BY <1>1, <1>2, <1>3 DEF AllProper

LEMMA HandleBroadcastBooks ==
    ASSUME TInv, NEW w \in Workers, HandleBroadcast(w) \/ HandleBroadcastResent(w)
    PROVE  Books'
<1>1. /\ Handles(w) /\ Handled(w) /\ UNCHANGED <<mq_, owed, asked, alive>>
  BY DEF HandleBroadcast, HandleBroadcastResent, tables
<1> QED
  BY <1>1, HandledProper, BooksFacts, BooksKept

LEMMA HandleDeadBooks ==
    ASSUME TInv, NEW w \in Workers, HandleDead(w)
    PROVE  Books'
<1> DEFINE m == Head(swapmq_[w])
<1>1. /\ Handles(w) /\ Handled(w) /\ UNCHANGED <<owed, asked, alive>>
      /\ mq_' = mq_ \/ mq_' = Response(mq_, m.sender, -m.session)
  BY DEF HandleDead, tables
<1>2. m.sender \in Services \cup {Nobody} /\ -m.session \in -MaxSends..MaxSends
  BY <1>1, HeadType, BooksFacts
<1> HIDE DEF m
<1>3. AllProper(mq_')
  BY <1>1, <1>2, ResponseProper, BooksFacts
<1> QED
  BY <1>1, <1>3, HandledProper, BooksFacts, BooksKept

LEMMA DispatchBooks ==
    ASSUME TInv, NEW w \in Workers, NEW s \in Services, NEW m, Finds(w, s, m),
           AllProper(mq_'),
           owed' = owed \/ owed' = Keeps(s, m),
           \A t \in Mute : asked'[t] = 0
    PROVE  Books'
<1>1. Handles(w) /\ Handled(w) /\ s \in alive /\ UNCHANGED alive
  BY FindsFacts
<1>2. \A t \in Services : owed'[t] # {} => t \in alive'
  <2>1. \A t \in Services : t = s \/ owed'[t] = owed[t]
    BY BooksFacts DEF TypeOK, Keeps
  <2> QED
    BY <1>1, <2>1, BooksFacts
<1> QED
  BY <1>1, <1>2, HandledProper, BooksKept

LEMMA DispatchPlainBooks ==
    ASSUME TInv, NEW w \in Workers, NEW s \in Services, NEW m,
           DispatchMute(w, s, m) \/ DispatchOk(w, s, m) \/ DispatchFails(w, s, m)
    PROVE  Books'
<1>1. Finds(w, s, m) /\ asked' = asked
  BY DEF DispatchMute, DispatchOk, DispatchFails, Dispatches
<1>2. m.sender \in Services \cup {Nobody} /\ -m.session \in -MaxSends..MaxSends
  BY <1>1, FindsType, BooksFacts
<1>3. Answer(s, m) \in Message /\ Answer(s, m).broadcast = 0
  BY <1>1, TakesUp, BooksFacts
<1>4. \/ mq_' = mq_
      \/ mq_' = Sent(mq_, Answer(s, m))
      \/ mq_' = Response(mq_, m.sender, -m.session)
  BY DEF DispatchMute, DispatchOk, DispatchFails
<1>5. AllProper(mq_')
  BY <1>2, <1>3, <1>4, SentProper, ResponseProper, BooksFacts
<1>6. owed' = owed \/ owed' = Keeps(s, m)
  BY DEF DispatchMute, DispatchOk, DispatchFails
<1>7. \A t \in Mute : asked'[t] = 0
  BY <1>1, BooksFacts
<1> QED
  BY <1>1, <1>5, <1>6, <1>7, DispatchBooks

LEMMA DispatchFailsLateBooks ==
    ASSUME TInv, NEW w \in Workers, NEW s \in Services, NEW m, DispatchFailsLate(w, s, m)
    PROVE  Books'
<1>1. Finds(w, s, m) /\ asked' = asked
  BY DEF DispatchFailsLate, Dispatches
<1>2. PICK a \in Message : a.broadcast = 0 /\ a = Answer(s, m)
  BY <1>1, TakesUp, BooksFacts
<1>3. PICK e \in Message : e.broadcast = 0 /\ e = SecondError(m)
  BY <1>1, TakesUp, BooksFacts
<1>4. \/ mq_' = Sent(mq_, e) /\ owed' = Keeps(s, m)
      \/ mq_' = Sent(Sent(mq_, a), e) /\ owed' = owed
  BY <1>2, <1>3 DEF DispatchFailsLate
<1>5. Sent(mq_, a) \in Queues /\ AllProper(Sent(mq_, a))
  BY <1>2, SentProper, BooksFacts
<1>6. AllProper(mq_')
  BY <1>3, <1>4, <1>5, SentProper, BooksFacts
<1>7. \A t \in Mute : asked'[t] = 0
  BY <1>1, BooksFacts
<1> QED
  BY <1>1, <1>4, <1>6, <1>7, DispatchBooks

LEMMA DispatchRedirectsBooks ==
    ASSUME TInv, NEW w \in Workers, NEW s \in Services, NEW m, NEW to \in Services,
           DispatchRedirects(w, s, m, to) \/ DispatchRedirectsAndFails(w, s, m, to)
    PROVE  Books'
<1>1. Finds(w, s, m) /\ asked' = asked /\ owed' = owed
  BY DEF DispatchRedirects, DispatchRedirectsAndFails, Dispatches
<1>2. /\ m \in Message /\ m.broadcast = 0
      /\ m.sender \in Services \cup {Nobody} /\ -m.session \in -MaxSends..MaxSends
      /\ m.session \in -MaxSends..MaxSends
  BY <1>1, FindsType, BooksFacts
<1>3. PICK on \in BOOLEAN : on = (m.session > 0)
  <2>1. (m.session > 0) \in BOOLEAN
    BY <1>2, MessagingAssumption
  <2> QED
    BY <2>1
<1>4. PICK off \in BOOLEAN : off = (m.session # 0)
  OBVIOUS
<1>5. PICK n \in -MaxSends..MaxSends : n = IF m.session < 0 THEN -m.session ELSE m.session
  BY <1>2
<1>6. PICK f : f = [m EXCEPT !.receiver = to, !.forwarded = on]
  OBVIOUS
<1>7. PICK g : g = [m EXCEPT !.receiver = to, !.session = n, !.forwarded = off]
  OBVIOUS
<1>8. f \in Message /\ f.broadcast = 0 /\ g \in Message /\ g.broadcast = 0
  <2>1. f \in Message /\ f.broadcast = 0
    BY <1>2, <1>6 DEF Message
  <2>2. g \in Message /\ g.broadcast = 0
    BY <1>2, <1>7 DEF Message
  <2> QED
    BY <2>1, <2>2
<1>9. \/ mq_' = Sent(mq_, f)
      \/ mq_' = Sent(mq_, g)
      \/ mq_' = Sent(Response(mq_, m.sender, -m.session), g)
  <2>1. CASE DispatchRedirects(w, s, m, to)
    BY <1>3, <1>6, <2>1 DEF DispatchRedirects
  <2>2. CASE DispatchRedirectsAndFails(w, s, m, to)
    BY <1>4, <1>5, <1>7, <2>2 DEF DispatchRedirectsAndFails
  <2> QED
    BY <2>1, <2>2
<1>10. AllProper(mq_')
  <2>1. /\ Response(mq_, m.sender, -m.session) \in Queues
        /\ AllProper(Response(mq_, m.sender, -m.session))
    BY <1>2, ResponseProper, BooksFacts
  <2> QED
    BY <1>8, <1>9, <2>1, SentProper, BooksFacts
<1>11. \A t \in Mute : asked'[t] = 0
  BY <1>1, BooksFacts
<1> QED
  BY <1>1, <1>10, <1>11, DispatchBooks

LEMMA DispatchResendsBooks ==
    ASSUME TInv, NEW w \in Workers, NEW s \in Services, NEW m, NEW to \in Services,
           DispatchResends(w, s, m, to) \/ DispatchResendsAndFails(w, s, m, to)
    PROVE  Books'
<1>1. Finds(w, s, m) /\ s \in Services \ Mute
  BY DEF DispatchResends, DispatchResendsAndFails, Dispatches
<1>2. PICK n : n = asked[s] + 1
  OBVIOUS
<1>3. n \in -MaxSends..MaxSends /\ -n \in -MaxSends..MaxSends
  BY <1>2, NextRequest, BooksFacts DEF DispatchResends, DispatchResendsAndFails
<1>4. PICK f : f = Mail(s, to, -n)
  OBVIOUS
<1>5. PICK g : g = [Mail(s, to, n) EXCEPT !.forwarded = TRUE]
  OBVIOUS
<1>6. f \in Message /\ f.broadcast = 0
  BY <1>3, <1>4, MailType
<1>7. g \in Message /\ g.broadcast = 0
  <2>1. Mail(s, to, n) \in Message /\ Mail(s, to, n).broadcast = 0
    BY <1>3, MailType
  <2> QED
    BY <1>5, <2>1 DEF Message
<1>8. PICK a \in Message : a.broadcast = 0 /\ a = Answer(s, m)
  BY <1>1, TakesUp, BooksFacts
<1>9. AllProper(mq_') /\ (owed' = owed \/ owed' = Keeps(s, m))
  <2>1. CASE DispatchResends(w, s, m, to)
    <3>1. mq_' = Sent(mq_, f) /\ (owed' = owed \/ owed' = Keeps(s, m))
      BY <1>2, <1>4, <2>1 DEF DispatchResends
    <3> QED
      BY <1>6, <3>1, SentProper, BooksFacts
  <2>2. CASE DispatchResendsAndFails(w, s, m, to)
    <3>1. PICK q : q = Sent(mq_, a)
      OBVIOUS
    <3>2. /\ \/ mq_' = Sent(Response(mq_, s, n), g)
             \/ mq_' = Sent(Response(q, s, n), g)
          /\ owed' = owed \/ owed' = Keeps(s, m)
      BY <1>2, <1>5, <1>8, <2>2, <3>1 DEF DispatchResendsAndFails
    <3>3. q \in Queues /\ AllProper(q)
      BY <1>8, <3>1, SentProper, BooksFacts
    <3>4. /\ Response(mq_, s, n) \in Queues /\ AllProper(Response(mq_, s, n))
          /\ Response(q, s, n) \in Queues /\ AllProper(Response(q, s, n))
      BY <1>3, <3>3, ResponseProper, BooksFacts
    <3>5. AllProper(mq_')
      BY <1>7, <3>2, <3>4, SentProper
    <3> QED
      BY <3>2, <3>5
  <2> QED
    BY <2>1, <2>2 DEF DispatchResends, DispatchResendsAndFails
<1>10. asked' = [asked EXCEPT ![s] = @ + 1]
  BY DEF DispatchResends, DispatchResendsAndFails
<1>11. \A t \in Mute : asked'[t] = 0
  BY <1>1, <1>10, AsksCounted
<1> QED
  BY <1>1, <1>9, <1>11, DispatchBooks

LEMMA LeaveBooks ==
    ASSUME TInv, NEW s \in Services, NEW q \in Queues, AllProper(q), Leave(s, q),
           UNCHANGED <<swapmq_, asked>>
    PROVE  Books'
<1>1. AllProper(mq_') /\ AllProper(swapmq_')
  BY BooksFacts, BroadcastProper DEF Leave
<1>2. \A t \in Services : owed'[t] # {} => t \in alive'
  <2>1. \A t \in Services : owed'[t] = IF t = s THEN {} ELSE owed[t]
    BY BooksFacts DEF Leave, TypeOK
  <2> QED
    BY <2>1, BooksFacts DEF Leave
<1> QED
  BY <1>1, <1>2, BooksFacts, BooksKept

LEMMA QuitBooks ==
    ASSUME TInv, NEW s \in Services, Quit(s)
    PROVE  Books'
BY BooksFacts, LeaveBooks DEF Quit

LEMMA RemoveTaskBooks ==
    ASSUME TInv, NEW x \in removals, RemoveTask(x)
    PROVE  Books'
<1>1. x.id \in Services /\ x.request \in Request
  BY BooksFacts DEF TypeOK, Removal
<1>2. x.request.from \in Services \cup {Nobody} /\ x.request.n \in -MaxSends..MaxSends
  BY <1>1, MessagingAssumption DEF Request, Sessions
<1>3. PICK q : q = Response(mq_, x.request.from, x.request.n)
  OBVIOUS
<1>4. q \in Queues /\ AllProper(q)
  BY <1>2, <1>3, ResponseProper, BooksFacts
<1>5. /\ Leave(x.id, q) \/ (mq_' = q /\ UNCHANGED <<alive, owed>>)
      /\ UNCHANGED <<swapmq_, asked>>
  BY <1>3 DEF RemoveTask
<1>6. CASE Leave(x.id, q)
  BY <1>1, <1>4, <1>5, <1>6, LeaveBooks
<1>7. CASE mq_' = q /\ UNCHANGED <<alive, owed>>
  BY <1>4, <1>5, <1>7, BooksFacts, BooksKept
<1> QED
  BY <1>5, <1>6, <1>7

-----------------------------------------------------------------------------
(* Every request is somewhere, and in one place only. *)

LEMMA InitTInv == Init => TInv
<1> SUFFICES ASSUME Init PROVE TInv
  OBVIOUS
<1>1. IInv
  BY InitIInv
<1>2. \A w \in Workers : mq_[w] = <<>> /\ swapmq_[w] = <<>>
  BY DEF Init
<1>3. Books
  <2>1. \A w : Proper(<<>>, w)
    BY EmptySeq DEF Proper
  <2>2. ProperQueues
    BY <1>2, <2>1 DEF ProperQueues
  <2>3. OwedByLiving
    BY DEF Init, OwedByLiving
  <2>4. MuteAskNothing
    BY MessagingAssumption DEF Init, MuteAskNothing
  <2> QED
    BY <2>2, <2>3, <2>4 DEF Books
<1>4. ASSUME NEW r \in Request
      PROVE  Token(r)
  <2>1. r.from \in Services /\ r.n \in Sessions /\ r.n \in Int /\ r.n > 0
    BY MessagingAssumption DEF Request, Sessions
  <2>2. asked[r.from] = 0 /\ got[r.from][r.n] = 0
    BY <2>1 DEF Init
  <2>3. \A v \in Workers : /\ ~Bears(mq_[v], r) /\ ~Bears(swapmq_[v], r)
                           /\ Once(mq_[v], r) /\ Once(swapmq_[v], r)
    BY <1>2, EmptyBears
  <2>4. Where(r) = {}
    <3>1. {v \in Workers : Bears(mq_[v], r)} = {} /\ {v \in Workers : Bears(swapmq_[v], r)} = {}
      BY <2>3
    <3>2. {x \in removals : x.request = r} = {} /\ {t \in Services : r \in owed[t]} = {}
      BY DEF Init
    <3>3. GotPlaces(r) = {}
      BY <2>2 DEF GotPlaces
    <3> QED
      BY <3>1, <3>2, <3>3 DEF Where
  <2> QED
    BY <2>1, <2>2, <2>3, <2>4 DEF Token
<1> QED
  BY <1>1, <1>3, <1>4 DEF TInv, Tokens

\* Steps that touch neither requests nor queues.
LEMMA StillTInv ==
    ASSUME TInv, UNCHANGED <<mq_, swapmq_, removals, owed, got, asked, alive, lost>>
    PROVE  Books' /\ Tokens'
<1>1. Books'
  BY BooksFacts, BooksKept
<1>2. ASSUME NEW r \in Request
      PROVE  Token(r)'
  BY SameItself, FramePlain
<1> QED
  BY <1>1, <1>2 DEF Tokens

LEMMA NextTInv == TInv /\ [Next]_vars => TInv'
<1> SUFFICES ASSUME TInv, [Next]_vars PROVE TInv'
  OBVIOUS
<1>0. IInv'
  BY NextIInv DEF TInv
<1>1. ASSUME NEW s \in Services, NEW r \in Services,
             ScriptNotify(s, r) \/ ScriptAsk(s, r) \/ ScriptRemove(s, r)
      PROVE  Books' /\ Tokens'
  BY <1>1, ScriptBooks, NotifyTokens, AskTokens, RemoveTokens
<1>2. ASSUME NEW s \in Services, NEW q \in owed[s], ScriptAnswer(s, q)
      PROVE  Books' /\ Tokens'
  BY <1>2, ScriptAnswerBooks, AnswerTokens
<1>3. ASSUME NEW s \in Services,
             ScriptBroadcast(s) \/ ScriptBroadcastNothing(s) \/ Quit(s)
      PROVE  Books' /\ Tokens'
  BY <1>3, ScriptBroadcastBooks, BroadcastTokens, QuitBooks, QuitTokens
<1>4. ASSUME NEW x \in removals, RemoveTask(x)
      PROVE  Books' /\ Tokens'
  BY <1>4, RemoveTaskBooks, RemoveTaskTokens
<1>5. ASSUME NEW w \in Workers, Swap(w)
      PROVE  Books' /\ Tokens'
  BY <1>5, SwapBooks, SwapTokens
<1>6. ASSUME NEW w \in Workers, Handle(w)
      PROVE  Books' /\ Tokens'
  <2>1. CASE HandleBroadcast(w) \/ HandleBroadcastResent(w)
    BY <2>1, HandleBroadcastBooks, HandleBroadcastTokens
  <2>2. CASE HandleDead(w)
    BY <2>2, HandleDeadBooks, HandleDeadTokens
  <2>3. ASSUME NEW s \in Services, NEW m,
               DispatchMute(w, s, m) \/ DispatchOk(w, s, m) \/ DispatchFails(w, s, m)
                   \/ DispatchFailsLate(w, s, m)
        PROVE  Books' /\ Tokens'
    BY <2>3, DispatchPlainBooks, DispatchFailsLateBooks, DispatchMuteTokens,
       DispatchOkTokens, DispatchFailsTokens, DispatchFailsLateTokens
  <2>4. ASSUME NEW s \in Services, NEW m, NEW r \in Services,
               DispatchRedirects(w, s, m, r) \/ DispatchRedirectsAndFails(w, s, m, r)
        PROVE  Books' /\ Tokens'
    BY <2>4, DispatchRedirectsBooks, DispatchRedirectsTokens, DispatchRedirectsAndFailsTokens
  <2>5. ASSUME NEW s \in Services, NEW m, NEW r \in Services,
               DispatchResends(w, s, m, r) \/ DispatchResendsAndFails(w, s, m, r)
        PROVE  Books' /\ Tokens'
    BY <2>5, DispatchResendsBooks, DispatchResendsTokens, DispatchResendsAndFailsTokens
  <2> QED
    BY <1>6, <2>1, <2>2, <2>3, <2>4, <2>5, HandleCases, BooksFacts
<1>7. ASSUME NEW w \in Workers, Exit(w)
      PROVE  Books' /\ Tokens'
  <2>1. UNCHANGED <<mq_, swapmq_, removals, owed, got, asked, alive, lost>>
    BY <1>7 DEF Exit, history
  <2> QED
    BY <2>1, StillTInv
<1>8. ASSUME UNCHANGED vars
      PROVE  Books' /\ Tokens'
  <2>1. UNCHANGED <<mq_, swapmq_, removals, owed, got, asked, alive, lost>>
    BY <1>8 DEF vars, tables, history
  <2> QED
    BY <2>1, StillTInv
<1>9. ASSUME Next
      PROVE  Books' /\ Tokens'
  BY <1>1, <1>2, <1>3, <1>4, <1>5, <1>6, <1>7, <1>9 DEF Next
<1> QED
  BY <1>0, <1>8, <1>9 DEF TInv

LEMMA TInvariance == Spec => []TInv
BY InitTInv, NextTInv, PTL DEF Spec

-----------------------------------------------------------------------------
(* The error after an answer. *)

\* The queues q bear x at one worker at most, and once.
Lone(q, x) ==
    /\ \A v \in Workers : Once(q[v], x)
    /\ \A v, u \in Workers : Bears(q[v], x) /\ Bears(q[u], x) => v = u

\* There is one chance at most of a second error for r: the request, the error under way,
\* or the error that came.
Shadow(r) ==
    /\ Lone(mq_, Second(r)) /\ Lone(swapmq_, Second(r))
    /\ NotIn(mq_, Second(r)) \/ NotIn(swapmq_, Second(r))
    /\ ~(NotIn(mq_, Second(r)) /\ NotIn(swapmq_, Second(r))) =>
           again[r.from][r.n] = 0 /\ r.n <= asked[r.from]
    /\ again[r.from][r.n] \in {0, 1}
    /\ again[r.from][r.n] = 1 => r.n <= asked[r.from]

Shadows == \A r \in Request : Shadow(r)

SInv == TInv /\ Shadows

LEMMA SecondIs ==
    ASSUME NEW r \in Request, NEW m
    PROVE  Mentions(m, Second(r)) <=> Asks(m, r) \/ (AnswerTo(m, r) /\ m.second)
<1>1. Second(r) \notin Request
  BY DEF Second, Request
<1>2. \A p \in Request : Second(r) = Second(p) => p = r
  <2>1. \A p \in Request : Second(p).second = p
    BY DEF Second
  <2> QED
    BY <2>1
<1> QED
  BY <1>1, <1>2, Zenon DEF Mentions

\* What neither asks nor is a second error to who asked has nothing to do with them.
Tame(m) == \A r \in Request : ~Mentions(m, Second(r))

LEMMA TameMessages ==
    ASSUME NEW m, ~IsRequest(m), ~m.second \/ m.forwarded \/ m.session = 0
    PROVE  Tame(m)
<1>1. \A r \in Request : r.n # 0
  BY MessagingAssumption DEF Request, Sessions
<1> QED
  BY <1>1, Zenon, SecondIs DEF Tame, Asks, AnswerTo

LEMMA TameSent ==
    ASSUME NEW q \in Queues, NEW m \in Message, Tame(m)
    PROVE  \A r \in Request : Same(q, Sent(q, m), Second(r))
BY SentSame DEF Tame

LEMMA TameMail ==
    ASSUME NEW s \in Services \cup {Nobody}, NEW to, NEW n \in Int, n >= 0 \/ s = Nobody
    PROVE  Tame(Mail(s, to, n))
<1>1. ~IsRequest(Mail(s, to, n)) /\ ~Mail(s, to, n).second
  BY DEF Mail, IsRequest
<1> QED
  BY <1>1, TameMessages

LEMMA TameResponse ==
    ASSUME NEW q \in Queues, NEW to \in Services \cup {Nobody}, NEW n \in -MaxSends..MaxSends
    PROVE  /\ Response(q, to, n) \in Queues
           /\ \A r \in Request : Same(q, Response(q, to, n), Second(r))
<1>1. Response(q, to, n) \in Queues
  BY ResponseKeeps DEF Kept
<1>2. PICK m : m = Mail(Nobody, to, n)
  OBVIOUS
<1>3. n \in Int
  BY MessagingAssumption
<1>4. m \in Message /\ Tame(m)
  BY <1>2, <1>3, MailType, TameMail
<1>5. Response(q, to, n) = q \/ Response(q, to, n) = Sent(q, m)
  BY <1>2 DEF Response
<1> QED
  BY <1>1, <1>4, <1>5, TameSent, SameItself

LEMMA SendLone ==
    ASSUME NEW q \in Queues, NEW m \in Message, NEW x, NotIn(q, x)
    PROVE  Lone(Sent(q, m), x)
<1>1. CASE Mentions(m, x) /\ Deliverable(m)
  <2>1. Gains(q, Sent(q, m), x, WorkerOf[m.receiver])
    BY <1>1, SentGains
  <2> QED
    BY <2>1 DEF Gains, NotIn, Lone
<1>2. CASE ~(Mentions(m, x) /\ Deliverable(m))
  <2>1. Same(q, Sent(q, m), x)
    BY <1>2, SentSame
  <2> QED
    BY <2>1, NotBearsOnce DEF Same, NotIn, Lone
<1> QED
  BY <1>1, <1>2

LEMMA SameLone ==
    ASSUME NEW q, NEW t, NEW x, Same(q, t, x)
    PROVE  /\ Lone(q, x) => Lone(t, x)
           /\ NotIn(t, x) <=> NotIn(q, x)
BY DEF Same, Lone, NotIn

\* A step that does nothing with the second error of r.
LEMMA ShadowStill ==
    ASSUME NEW r, Shadow(r), Same(mq_, mq_', Second(r)), Same(swapmq_, swapmq_', Second(r)),
           again'[r.from][r.n] = again[r.from][r.n],
           r.n <= asked[r.from] => r.n <= asked'[r.from]
    PROVE  Shadow(r)'
<1>1. /\ Lone(mq_', Second(r)) /\ Lone(swapmq_', Second(r))
      /\ NotIn(mq_', Second(r)) <=> NotIn(mq_, Second(r))
      /\ NotIn(swapmq_', Second(r)) <=> NotIn(swapmq_, Second(r))
  BY SameLone DEF Shadow
<1> QED
  BY <1>1 DEF Shadow

\* One that may send r itself, when it is new.
LEMMA ShadowSends ==
    ASSUME NEW r, Shadow(r), NEW q \in Queues, Same(mq_, q, Second(r)),
           Same(swapmq_, swapmq_', Second(r)),
           NEW f \in Message, mq_' = Sent(q, f),
           Mentions(f, Second(r)) => ~(r.n <= asked[r.from]) /\ r.n <= asked'[r.from],
           again'[r.from][r.n] = again[r.from][r.n],
           r.n <= asked[r.from] => r.n <= asked'[r.from]
    PROVE  Shadow(r)'
<1>1. CASE ~Mentions(f, Second(r))
  <2>1. Same(q, mq_', Second(r))
    BY <1>1, SentSame
  <2>2. Same(mq_, mq_', Second(r))
    BY <2>1, SameSame
  <2> QED
    BY <2>2, ShadowStill
<1>2. CASE Mentions(f, Second(r))
  <2>1. NotIn(mq_, Second(r)) /\ NotIn(swapmq_, Second(r)) /\ again[r.from][r.n] = 0
    BY <1>2 DEF Shadow
  <2>2. NotIn(q, Second(r)) /\ NotIn(swapmq_', Second(r))
    BY <2>1, SameLone
  <2>3. Lone(mq_', Second(r))
    BY <2>2, SendLone
  <2>4. Lone(swapmq_', Second(r))
    BY <2>2, NotBearsOnce DEF Lone, NotIn
  <2> QED
    BY <1>2, <2>1, <2>2, <2>3, <2>4 DEF Shadow
<1> QED
  BY <1>1, <1>2

\* The first message of a drain task is taken away, with the chance that it is.
LEMMA ShadowTaken ==
    ASSUME SInv, NEW w \in Workers, Handles(w), Handled(w), NEW r \in Request,
           NEW m, m = Head(swapmq_[w])
    PROVE  /\ ~Mentions(m, Second(r)) => Same(swapmq_, swapmq_', Second(r))
           /\ Mentions(m, Second(r)) =>
                  /\ NotIn(mq_, Second(r)) /\ NotIn(swapmq_', Second(r))
                  /\ again[r.from][r.n] = 0 /\ r.n <= asked[r.from]
<1>1. PICK q \in Seq(Message) : q = swapmq_[w] /\ q # <<>>
  BY BooksFacts DEF SInv, TypeOK, Handles
<1>2. \A v \in Workers : swapmq_'[v] = IF v = w THEN Tail(q) ELSE swapmq_[v]
  BY <1>1, BooksFacts DEF SInv, Handled, TypeOK
<1>3. PICK x : x = Second(r)
  OBVIOUS
<1>4. /\ Bears(q, x) <=> Mentions(m, x) \/ Bears(Tail(q), x)
      /\ Once(q, x) => Once(Tail(q), x)
      /\ Once(q, x) /\ Mentions(m, x) => ~Bears(Tail(q), x)
  BY <1>1, TailBears
<1>5. Shadow(r)
  BY DEF SInv, Shadows
<1>6. ~Mentions(m, x) => Same(swapmq_, swapmq_', x)
  BY <1>1, <1>2, <1>4 DEF Same
<1>7. ASSUME Mentions(m, x)
      PROVE  /\ NotIn(mq_, x) /\ NotIn(swapmq_', x)
             /\ again[r.from][r.n] = 0 /\ r.n <= asked[r.from]
  <2>1. Bears(swapmq_[w], x) /\ ~NotIn(swapmq_, x)
    BY <1>1, <1>4, <1>7 DEF NotIn
  <2>2. /\ NotIn(mq_, x) /\ Lone(swapmq_, x)
        /\ again[r.from][r.n] = 0 /\ r.n <= asked[r.from]
    BY <1>3, <1>5, <2>1 DEF Shadow
  <2>3. NotIn(swapmq_', x)
    BY <1>1, <1>2, <1>4, <1>7, <2>1, <2>2 DEF Lone, NotIn
  <2> QED
    BY <2>2, <2>3
<1> QED
  BY <1>3, <1>6, <1>7

\* The error for r is counted when m is it.
Counts(m, r) ==
    \/ again'[r.from][r.n] = again[r.from][r.n]
    \/ /\ AnswerTo(m, r) /\ m.second
       /\ again'[r.from][r.n] = again[r.from][r.n] + 1

\* What it was may be sent on, or counted.
LEMMA ShadowHandled ==
    ASSUME SInv, NEW w \in Workers, Handles(w), Handled(w), NEW r \in Request,
           NEW m, m = Head(swapmq_[w]),
           NEW q \in Queues, Same(mq_, q, Second(r)), NEW f \in Message,
           mq_' = Sent(q, f) \/ Same(mq_, mq_', Second(r)),
           Mentions(f, Second(r)) =>
               \/ Asks(m, r)
               \/ ~(r.n <= asked[r.from]) /\ r.n <= asked'[r.from],
           r.n <= asked[r.from] => r.n <= asked'[r.from],
           Counts(m, r)
    PROVE  Shadow(r)'
<1>0. Shadow(r)
  BY DEF SInv, Shadows
<1>1. CASE ~Mentions(m, Second(r))
  <2>1. ~Asks(m, r) /\ ~(AnswerTo(m, r) /\ m.second)
    BY <1>1, SecondIs
  <2>2. again'[r.from][r.n] = again[r.from][r.n]
    BY <2>1, Zenon DEF Counts
  <2>3. Same(swapmq_, swapmq_', Second(r))
    BY <1>1, ShadowTaken
  <2>4. Mentions(f, Second(r)) => ~(r.n <= asked[r.from]) /\ r.n <= asked'[r.from]
    BY <2>1
  <2>5. CASE Same(mq_, mq_', Second(r))
    BY <1>0, <2>2, <2>3, <2>5, ShadowStill
  <2>6. CASE mq_' = Sent(q, f)
    BY <1>0, <2>2, <2>3, <2>4, <2>6, ShadowSends
  <2> QED
    BY <2>5, <2>6
<1>2. CASE Mentions(m, Second(r))
  <2>1. /\ NotIn(mq_, Second(r)) /\ NotIn(swapmq_', Second(r))
        /\ again[r.from][r.n] = 0 /\ r.n <= asked[r.from]
    BY <1>2, ShadowTaken
  <2>2. NotIn(q, Second(r)) /\ Lone(swapmq_', Second(r)) /\ r.n <= asked'[r.from]
    BY <2>1, SameLone, NotBearsOnce DEF Lone, NotIn
  <2>3. CASE NotIn(mq_', Second(r))
    <3>1. Lone(mq_', Second(r))
      BY <2>3, NotBearsOnce DEF Lone, NotIn
    <3>2. again'[r.from][r.n] \in {0, 1}
      <4>1. \/ again'[r.from][r.n] = again[r.from][r.n]
            \/ again'[r.from][r.n] = again[r.from][r.n] + 1
        BY Zenon DEF Counts
      <4> QED
        BY <2>1, <4>1
    <3> QED
      BY <2>1, <2>2, <2>3, <3>1, <3>2 DEF Shadow
  <2>4. CASE ~NotIn(mq_', Second(r))
    <3>1. ~Same(mq_, mq_', Second(r)) /\ ~Same(q, mq_', Second(r))
      BY <2>1, <2>2, <2>4, SameLone
    <3>2. mq_' = Sent(q, f) /\ Mentions(f, Second(r))
      BY <3>1, SentSame
    <3>3. Asks(m, r)
      BY <2>1, <3>2
    <3>4. ~AnswerTo(m, r)
      BY <3>3, MessagingAssumption DEF Asks, AnswerTo, IsRequest, Request, Sessions
    <3>5. again'[r.from][r.n] = again[r.from][r.n]
      BY <3>4, Zenon DEF Counts
    <3>6. Lone(mq_', Second(r))
      BY <2>2, <3>2, SendLone
    <3> QED
      BY <2>1, <2>2, <3>5, <3>6 DEF Shadow
  <2> QED
    BY <2>3, <2>4
<1> QED
  BY <1>1, <1>2

LEMMA AskedGrows ==
    ASSUME TypeOK, NEW s \in Services, NEW r \in Request,
           asked' = [asked EXCEPT ![s] = @ + 1]
    PROVE  /\ r.n <= asked[r.from] => r.n <= asked'[r.from]
           /\ r = [from |-> s, n |-> asked[s] + 1] =>
                  ~(r.n <= asked[r.from]) /\ r.n <= asked'[r.from]
<1>1. r.from \in Services /\ r.n \in Int
  BY DEF Request, Sessions
<1>2. asked[r.from] \in Int /\ asked[s] \in Int
  <2>1. asked[r.from] \in 0..MaxSends /\ asked[s] \in 0..MaxSends
    BY <1>1 DEF TypeOK
  <2> QED
    BY <2>1, MessagingAssumption
<1>3. asked'[r.from] = IF r.from = s THEN asked[s] + 1 ELSE asked[r.from]
  BY <1>1 DEF TypeOK
<1> QED
  BY <1>1, <1>2, <1>3

\* Only its own second error may follow a new request.
LEMMA NewMentions ==
    ASSUME NEW s \in Services, NEW to \in Services, NEW n \in Sessions, NEW r \in Request,
           Mentions(Mail(s, to, -n), Second(r))
    PROVE  r = [from |-> s, n |-> n]
<1>1. RequestOf(Mail(s, to, -n)) = [from |-> s, n |-> n]
  BY RequestMentions
<1>2. ~Mail(s, to, -n).second
  BY DEF Mail
<1> QED
  BY <1>1, <1>2, Zenon, SecondIs DEF Asks

LEMMA ScriptShadows ==
    ASSUME SInv, NEW s \in Services, NEW to \in Services,
           ScriptNotify(s, to) \/ ScriptAsk(s, to) \/ ScriptRemove(s, to)
    PROVE  Shadows'
<1>0. IInv /\ TypeOK /\ mq_ \in Queues
  BY BooksFacts DEF SInv
<1>1. UNCHANGED <<swapmq_, again>>
  BY DEF ScriptNotify, ScriptAsk, ScriptRemove, history
<1>2. ASSUME NEW r \in Request
      PROVE  Shadow(r)'
  <2>0. Shadow(r)
    BY DEF SInv, Shadows
  <2>1. Same(swapmq_, swapmq_', Second(r)) /\ again'[r.from][r.n] = again[r.from][r.n]
    BY <1>1, SameItself
  <2>2. CASE ScriptNotify(s, to)
    <3>1. 0 \in -MaxSends..MaxSends /\ 0 \in Int
      BY MessagingAssumption
    <3>2. Mail(s, to, 0) \in Message /\ Tame(Mail(s, to, 0))
      BY <3>1, MailType, TameMail
    <3>3. Same(mq_, mq_', Second(r)) /\ asked' = asked
      BY <1>0, <2>2, <3>2, TameSent DEF ScriptNotify
    <3> QED
      BY <2>0, <2>1, <3>3, ShadowStill
  <2>3. CASE ScriptAsk(s, to)
    <3>1. PICK n \in Sessions : n = asked[s] + 1
      BY <1>0, <2>3, NextRequest DEF ScriptAsk
    <3>2. PICK f : f = Mail(s, to, -n)
      OBVIOUS
    <3>3. f \in Message
      BY <3>2, RequestMentions
    <3>4. mq_' = Sent(mq_, f) /\ asked' = [asked EXCEPT ![s] = @ + 1]
      BY <2>3, <3>1, <3>2 DEF ScriptAsk
    <3>5. Mentions(f, Second(r)) => r = [from |-> s, n |-> asked[s] + 1]
      BY <3>1, <3>2, NewMentions
    <3>6. /\ r.n <= asked[r.from] => r.n <= asked'[r.from]
          /\ Mentions(f, Second(r)) => ~(r.n <= asked[r.from]) /\ r.n <= asked'[r.from]
      BY <1>0, <3>4, <3>5, AskedGrows
    <3>7. Same(mq_, mq_, Second(r))
      BY SameItself
    <3> QED
      BY <1>0, <2>0, <2>1, <3>3, <3>4, <3>6, <3>7, ShadowSends
  <2>4. CASE ScriptRemove(s, to)
    <3>1. asked[s] + 1 \in -MaxSends..MaxSends
      BY <1>0, <2>4, NextRequest DEF ScriptRemove
    <3>2. /\ mq_' = mq_ \/ mq_' = Response(mq_, s, asked[s] + 1)
          /\ asked' = [asked EXCEPT ![s] = @ + 1]
      BY <2>4 DEF ScriptRemove
    <3>3. Same(mq_, mq_', Second(r))
      BY <1>0, <3>1, <3>2, TameResponse, SameItself
    <3>4. r.n <= asked[r.from] => r.n <= asked'[r.from]
      BY <1>0, <3>2, AskedGrows
    <3> QED
      BY <2>0, <2>1, <3>3, <3>4, ShadowStill
  <2> QED
    BY <2>2, <2>3, <2>4
<1> QED
  BY <1>2 DEF Shadows

\* Steps that send nothing of it.
LEMMA QuietShadows ==
    ASSUME SInv, \A r \in Request : Same(mq_, mq_', Second(r)),
           UNCHANGED <<swapmq_, again, asked>>
    PROVE  Shadows'
<1>1. ASSUME NEW r \in Request
      PROVE  Shadow(r)'
  <2>1. Shadow(r) /\ Same(swapmq_, swapmq_', Second(r))
    BY SameItself DEF SInv, Shadows
  <2> QED
    BY <2>1, ShadowStill
<1> QED
  BY <1>1 DEF Shadows

LEMMA ScriptAnswerShadows ==
    ASSUME SInv, NEW s \in Services, NEW q \in owed[s], ScriptAnswer(s, q)
    PROVE  Shadows'
<1>0. TypeOK /\ mq_ \in Queues
  BY BooksFacts DEF SInv
<1>1. PICK m : m = Mail(s, q.from, q.n)
  OBVIOUS
<1>2. q \in Request /\ q.n \in Int /\ q.n >= 0
  BY <1>0, MessagingAssumption DEF TypeOK, Request, Sessions
<1>3. m \in Message /\ Tame(m)
  BY <1>1, <1>2, AnswerMentions, TameMail
<1>4. mq_' = Sent(mq_, m) /\ UNCHANGED <<swapmq_, again, asked>>
  BY <1>1 DEF ScriptAnswer, history
<1> QED
  BY <1>0, <1>3, <1>4, TameSent, QuietShadows

LEMMA ScriptBroadcastShadows ==
    ASSUME SInv, NEW s \in Services, ScriptBroadcast(s) \/ ScriptBroadcastNothing(s)
    PROVE  Shadows'
<1> DEFINE m == Mail(s, Nobody, 0)
<1>1. IInv /\ mq_ \in Queues
  BY BooksFacts DEF SInv
<1>2. m \in Message /\ m.session = 0
  <2>1. 0 \in -MaxSends..MaxSends
    BY MessagingAssumption
  <2> QED
    BY <2>1, MailType DEF Mail
<1>3. /\ Broadcast(s, mq_) \/ mq_' = [w \in Workers |-> Append(mq_[w], m)]
      /\ UNCHANGED <<swapmq_, again, asked>>
  BY DEF ScriptBroadcast, ScriptBroadcastNothing, history
<1> HIDE DEF m
<1>4. ASSUME NEW r \in Request
      PROVE  Same(mq_, mq_', Second(r))
  <2>1. PICK x : x = Second(r)
    OBVIOUS
  <2>2. Same(mq_, mq_', x)
    BY <1>1, <1>2, <1>3, <2>1, BroadcastSame, ToAllSame
  <2> QED
    BY <2>1, <2>2
<1> QED
  BY <1>3, <1>4, QuietShadows

LEMMA LeaveSame ==
    ASSUME IInv, NEW s \in Services, NEW q \in Queues, Leave(s, q),
           \A r \in Request : Same(mq_, q, Second(r))
    PROVE  \A r \in Request : Same(mq_, mq_', Second(r))
<1>1. ASSUME NEW r \in Request
      PROVE  Same(mq_, mq_', Second(r))
  <2>1. PICK x : x = Second(r)
    OBVIOUS
  <2>2. Same(q, mq_', x)
    BY <2>1, BroadcastSame DEF Leave
  <2> QED
    BY <2>1, <2>2, SameSame
<1> QED
  BY <1>1

LEMMA QuitShadows ==
    ASSUME SInv, NEW s \in Services, Quit(s)
    PROVE  Shadows'
<1>1. IInv /\ mq_ \in Queues /\ Leave(s, mq_) /\ UNCHANGED <<swapmq_, again, asked>>
  BY BooksFacts DEF SInv, Quit
<1>2. \A r \in Request : Same(mq_, mq_, Second(r))
  BY SameItself
<1> QED
  BY <1>1, <1>2, LeaveSame, QuietShadows

LEMMA RemoveTaskShadows ==
    ASSUME SInv, NEW x \in removals, RemoveTask(x)
    PROVE  Shadows'
<1>0. IInv /\ TypeOK /\ mq_ \in Queues
  BY BooksFacts DEF SInv
<1>1. x.id \in Services /\ x.request \in Request
  BY <1>0 DEF TypeOK, Removal
<1>2. x.request.from \in Services \cup {Nobody} /\ x.request.n \in -MaxSends..MaxSends
  BY <1>1, MessagingAssumption DEF Request, Sessions
<1>3. PICK q : q = Response(mq_, x.request.from, x.request.n)
  OBVIOUS
<1>4. q \in Queues /\ \A r \in Request : Same(mq_, q, Second(r))
  BY <1>0, <1>2, <1>3, TameResponse
<1>5. /\ Leave(x.id, q) \/ mq_' = q
      /\ UNCHANGED <<swapmq_, again, asked>>
  BY <1>3 DEF RemoveTask
<1>6. \A r \in Request : Same(mq_, mq_', Second(r))
  BY <1>0, <1>1, <1>4, <1>5, LeaveSame
<1> QED
  BY <1>5, <1>6, QuietShadows

LEMMA SwapShadows ==
    ASSUME SInv, NEW w \in Workers, Swap(w)
    PROVE  Shadows'
<1>1. /\ swapmq_[w] = <<>>
      /\ \A v \in Workers : mq_'[v] = IF v = w THEN <<>> ELSE mq_[v]
      /\ \A v \in Workers : swapmq_'[v] = IF v = w THEN mq_[w] ELSE swapmq_[v]
      /\ UNCHANGED <<again, asked>>
  BY BooksFacts DEF SInv, Swap, Between, history, TypeOK
<1>2. ASSUME NEW r \in Request
      PROVE  Shadow(r)'
  <2>0. PICK x : x = Second(r)
    OBVIOUS
  <2>1. Shadow(r)
    BY DEF SInv, Shadows
  <2>2. ~Bears(<<>>, x) /\ Once(<<>>, x)
    BY EmptyBears
  <2>3. CASE ~Bears(mq_[w], x)
    <3>1. Same(mq_, mq_', x)
      BY <1>1, <2>2, <2>3 DEF Same
    <3>2. Same(swapmq_, swapmq_', x)
      BY <1>1, <2>2, <2>3, NotBearsOnce DEF Same
    <3> QED
      BY <1>1, <2>0, <2>1, <3>1, <3>2, ShadowStill
  <2>4. CASE Bears(mq_[w], x)
    <3>1. /\ ~NotIn(mq_, x) /\ NotIn(swapmq_, x) /\ Lone(mq_, x)
          /\ again[r.from][r.n] = 0 /\ r.n <= asked[r.from]
      BY <2>0, <2>1, <2>4 DEF Shadow, NotIn
    <3>2. NotIn(mq_', x)
      BY <1>1, <2>2, <2>4, <3>1 DEF NotIn, Lone
    <3>3. Lone(mq_', x)
      BY <3>2, NotBearsOnce DEF NotIn, Lone
    <3>4. Lone(swapmq_', x)
      BY <1>1, <3>1, NotBearsOnce DEF NotIn, Lone
    <3> QED
      BY <1>1, <2>0, <3>1, <3>2, <3>3, <3>4 DEF Shadow
  <2> QED
    BY <2>3, <2>4
<1> QED
  BY <1>2 DEF Shadows

\* The handling of a message that sends nothing of it.
LEMMA HandledShadows ==
    ASSUME SInv, NEW w \in Workers, Handles(w), Handled(w), NEW m, m = Head(swapmq_[w]),
           \A r \in Request : /\ Same(mq_, mq_', Second(r))
                              /\ r.n <= asked[r.from] => r.n <= asked'[r.from],
           \A r \in Request : Counts(m, r)
    PROVE  Shadows'
<1>1. PICK f \in Message : Tame(f)
  <2>1. 0 \in -MaxSends..MaxSends /\ 0 \in Int
    BY MessagingAssumption
  <2> QED
    BY <2>1, MailType, TameMail
<1>2. ASSUME NEW r \in Request
      PROVE  Shadow(r)'
  <2>1. mq_ \in Queues /\ Same(mq_, mq_, Second(r)) /\ ~Mentions(f, Second(r))
    BY <1>1, BooksFacts, SameItself DEF SInv, Tame
  <2> QED
    BY <2>1, ShadowHandled
<1> QED
  BY <1>2 DEF Shadows

LEMMA HandleUncountedShadows ==
    ASSUME SInv, NEW w \in Workers,
           \/ HandleBroadcast(w) \/ HandleBroadcastResent(w) \/ HandleDead(w)
           \/ \E s \in Services : \E m : DispatchMute(w, s, m)
    PROVE  Shadows'
<1> DEFINE m == Head(swapmq_[w])
<1>0. IInv /\ mq_ \in Queues
  BY BooksFacts DEF SInv
<1>1. /\ Handles(w) /\ Handled(w)
      /\ mq_' = mq_ \/ mq_' = Response(mq_, m.sender, -m.session)
      /\ UNCHANGED <<again, asked>>
  BY DEF HandleBroadcast, HandleBroadcastResent, HandleDead, DispatchMute, Finds, history,
         Response
<1>2. m.sender \in Services \cup {Nobody} /\ -m.session \in -MaxSends..MaxSends
  BY <1>0, <1>1, HeadType
<1> HIDE DEF m
<1>3. \A r \in Request : Same(mq_, mq_', Second(r))
  BY <1>0, <1>1, <1>2, TameResponse, SameItself
<1>4. \A r \in Request : Counts(m, r)
  BY <1>1 DEF Counts
<1> QED
  BY <1>1, <1>3, <1>4, HandledShadows DEF m

\* Which second errors are seen.
LEMMA AgainCounts ==
    ASSUME TInv, NEW w \in Workers, NEW s \in Services, NEW m, Dispatches(w, s, m),
           NEW r \in Request
    PROVE  Counts(m, r)
<1>1. m \in Message /\ m.broadcast = 0 /\ m.receiver = s
  BY FindsFacts DEF Dispatches
<1>2. again \in [Services -> [Sessions -> Nat]]
  BY DEF TInv, IInv, TypeOK
<1>3. r.from \in Services /\ r.n \in Sessions
  BY DEF Request
<1>4. CASE ~(IsAnswer(m) /\ m.second)
  <2>1. again' = again
    BY <1>4, Zenon DEF Dispatches
  <2> QED
    BY <2>1 DEF Counts
<1>5. CASE IsAnswer(m) /\ m.second
  <2>1. m.session \in Sessions
    BY <1>1, <1>5, MessagingAssumption DEF IsAnswer, Message, Sessions
  <2>2. again' = [again EXCEPT ![s][m.session] = @ + 1]
    BY <1>5, Zenon DEF Dispatches
  <2>3. again'[r.from][r.n] = IF r.from = s /\ r.n = m.session
                              THEN again[r.from][r.n] + 1 ELSE again[r.from][r.n]
    BY <1>2, <1>3, <2>1, <2>2
  <2>4. CASE r.from = s /\ r.n = m.session
    <3>1. again'[r.from][r.n] = again[r.from][r.n] + 1
      BY <2>3, <2>4
    <3>2. AnswerTo(m, r) /\ m.second
      BY <1>1, <1>5, <2>4, Zenon DEF AnswerTo, IsAnswer
    <3> QED
      BY <3>1, <3>2, Zenon DEF Counts
  <2>5. CASE ~(r.from = s /\ r.n = m.session)
    BY <2>3, <2>5 DEF Counts
  <2> QED
    BY <2>4, <2>5
<1> QED
  BY <1>4, <1>5

\* The answer that a callback sends at once.
LEMMA TameAnswer ==
    ASSUME SInv, NEW w \in Workers, NEW s \in Services, NEW m, Finds(w, s, m), IsRequest(m),
           NEW q, q = Sent(mq_, Answer(s, m))
    PROVE  q \in Queues /\ \A r \in Request : Same(mq_, q, Second(r))
<1>1. PICK a \in Message : a = Answer(s, m) /\ a.broadcast = 0
  BY TakesUp, BooksFacts DEF SInv
<1>2. -m.session \in Int /\ -m.session >= 0
  <2>1. m.session \in Int /\ m.session < 0
    BY FindsType, BooksFacts, MessagingAssumption DEF SInv, IsRequest
  <2> QED
    BY <2>1
<1>3. Tame(a)
  BY <1>1, <1>2, TameMail DEF Answer
<1>4. mq_ \in Queues
  BY BooksFacts DEF SInv
<1> QED
  BY <1>1, <1>3, <1>4, TameSent, SentKeeps DEF Kept

\* Callbacks that do not send it, make it or send it on.
LEMMA DispatchTamelyShadows ==
    ASSUME SInv, NEW w \in Workers, NEW s \in Services, NEW m,
           \/ DispatchOk(w, s, m) \/ DispatchFails(w, s, m)
           \/ \E to \in Services : \/ DispatchRedirectsAndFails(w, s, m, to)
                                   \/ DispatchResendsAndFails(w, s, m, to)
    PROVE  Shadows'
<1>0. TInv /\ IInv /\ TypeOK /\ mq_ \in Queues
  BY BooksFacts DEF SInv
<1>1. Dispatches(w, s, m) /\ Finds(w, s, m)
  BY DEF DispatchOk, DispatchFails, DispatchRedirectsAndFails, DispatchResendsAndFails,
         Dispatches
<1>2. /\ Handles(w) /\ Handled(w) /\ m = Head(swapmq_[w])
      /\ m \in Message /\ m.sender \in Services \cup {Nobody}
      /\ m.session \in -MaxSends..MaxSends /\ -m.session \in -MaxSends..MaxSends
      /\ m.session \in Int
  BY <1>0, <1>1, FindsFacts, FindsType, MessagingAssumption
<1>3. PICK x : x = Response(mq_, m.sender, -m.session)
  OBVIOUS
<1>4. x \in Queues /\ \A r \in Request : Same(mq_, x, Second(r))
  BY <1>0, <1>2, <1>3, TameResponse
<1>5. PICK q : q = Sent(mq_, Answer(s, m))
  OBVIOUS
<1>6. IsRequest(m) => q \in Queues /\ \A r \in Request : Same(mq_, q, Second(r))
  BY <1>1, <1>5, TameAnswer
<1>7. ASSUME NEW r \in Request
      PROVE  /\ Same(mq_, mq_', Second(r))
             /\ r.n <= asked[r.from] => r.n <= asked'[r.from]
  <2>1. CASE DispatchOk(w, s, m) \/ DispatchFails(w, s, m)
    <3>1. /\ mq_' = mq_ \/ mq_' = x \/ (IsRequest(m) /\ mq_' = q)
          /\ asked' = asked
      BY <1>3, <1>5, <2>1 DEF DispatchOk, DispatchFails
    <3> QED
      BY <1>4, <1>6, <3>1, SameItself
  <2>2. ASSUME NEW to \in Services, DispatchRedirectsAndFails(w, s, m, to)
        PROVE  Same(mq_, mq_', Second(r)) /\ asked' = asked
    <3>1. PICK n \in -MaxSends..MaxSends :
              n \in Nat /\ n = IF m.session < 0 THEN -m.session ELSE m.session
      BY <1>2
    <3>2. PICK on \in BOOLEAN : on = (m.session # 0)
      BY <1>2
    <3>3. PICK f : f = [m EXCEPT !.receiver = to, !.session = n, !.forwarded = on]
      OBVIOUS
    <3>4. f \in Message /\ f.session = n /\ f.forwarded = on
      BY <1>2, <3>3 DEF Message
    <3>5. Tame(f)
      <4>1. ~IsRequest(f)
        BY <3>1, <3>4 DEF IsRequest
      <4>2. f.session = 0 \/ m.session # 0
        BY <1>2, <3>1, <3>4
      <4>3. f.session = 0 \/ f.forwarded
        BY Zenon, <3>2, <3>4, <4>2
      <4> QED
        BY <4>1, <4>3, TameMessages
    <3>6. mq_' = Sent(mq_, f) \/ mq_' = Sent(x, f)
      BY <1>3, <2>2, <3>1, <3>2, <3>3 DEF DispatchRedirectsAndFails
    <3>7. Same(mq_, Sent(mq_, f), Second(r)) /\ Same(x, Sent(x, f), Second(r))
      BY <1>0, <1>4, <3>4, <3>5, TameSent
    <3>8. Same(mq_, Sent(x, f), Second(r))
      BY <1>4, <3>7, SameSame
    <3> QED
      BY <2>2, <3>6, <3>7, <3>8 DEF DispatchRedirectsAndFails
  <2>3. ASSUME NEW to \in Services, DispatchResendsAndFails(w, s, m, to)
        PROVE  /\ Same(mq_, mq_', Second(r))
               /\ r.n <= asked[r.from] => r.n <= asked'[r.from]
    <3>1. PICK n \in Sessions : n = asked[s] + 1 /\ n \in -MaxSends..MaxSends /\ n \in Nat
      <4>1. asked[s] + 1 \in Sessions /\ asked[s] + 1 \in -MaxSends..MaxSends
        BY <1>0, <2>3, NextRequest DEF DispatchResendsAndFails
      <4>2. Sessions \subseteq Nat
        BY MessagingAssumption DEF Sessions
      <4> QED
        BY <4>1, <4>2
    <3>2. PICK f : f = [Mail(s, to, n) EXCEPT !.forwarded = TRUE]
      OBVIOUS
    <3>3. f \in Message /\ Tame(f)
      <4>1. Mail(s, to, n) \in Message
        BY <3>1, MailType
      <4>2. f \in Message /\ f.session = n /\ f.forwarded
        BY <3>2, <4>1 DEF Message, Mail
      <4>3. ~IsRequest(f)
        BY <3>1, <4>2 DEF IsRequest
      <4> QED
        BY <4>2, <4>3, TameMessages
    <3>4. PICK y \in Queues : /\ mq_' = Sent(Response(y, s, n), f)
                              /\ Same(mq_, y, Second(r))
      <4>1. \/ mq_' = Sent(Response(mq_, s, n), f)
            \/ IsRequest(m) /\ mq_' = Sent(Response(q, s, n), f)
        BY <1>5, <2>3, <3>1, <3>2 DEF DispatchResendsAndFails
      <4>2. Same(mq_, mq_, Second(r))
        BY SameItself
      <4> QED
        BY <1>0, <1>6, <4>1, <4>2
    <3>5. PICK z : z = Response(y, s, n)
      OBVIOUS
    <3>6. z \in Queues /\ Same(y, z, Second(r))
      BY <3>1, <3>5, TameResponse
    <3>7. Same(z, mq_', Second(r))
      BY <3>3, <3>4, <3>5, <3>6, TameSent
    <3>8. Same(mq_, mq_', Second(r))
      <4>1. Same(mq_, z, Second(r))
        BY <3>4, <3>6, SameSame
      <4> QED
        BY <3>7, <4>1, SameSame
    <3>9. asked' = [asked EXCEPT ![s] = @ + 1]
      BY <2>3 DEF DispatchResendsAndFails
    <3> QED
      BY <1>0, <3>8, <3>9, AskedGrows
  <2> QED
    BY <2>1, <2>2, <2>3
<1>8. \A r \in Request : Counts(m, r)
  BY <1>0, <1>1, AgainCounts
<1> QED
  BY <1>2, <1>7, <1>8, HandledShadows

LEMMA DispatchFailsLateShadows ==
    ASSUME SInv, NEW w \in Workers, NEW s \in Services, NEW m, DispatchFailsLate(w, s, m)
    PROVE  Shadows'
<1>0. TInv /\ IInv /\ mq_ \in Queues
  BY BooksFacts DEF SInv
<1>1. Dispatches(w, s, m) /\ Finds(w, s, m) /\ IsRequest(m) /\ asked' = asked
  BY DEF DispatchFailsLate, Dispatches
<1>2. Handles(w) /\ Handled(w) /\ m = Head(swapmq_[w])
  BY <1>0, <1>1, FindsFacts
<1>3. PICK e \in Message : e = SecondError(m)
  BY <1>0, <1>1, TakesUp
<1>4. PICK q : q = Sent(mq_, Answer(s, m))
  OBVIOUS
<1>5. q \in Queues /\ \A r \in Request : Same(mq_, q, Second(r))
  BY <1>1, <1>4, TameAnswer
<1>6. ASSUME NEW r \in Request
      PROVE  Shadow(r)'
  <2>1. Mentions(e, Second(r)) => Asks(m, r)
    <3>1. e.sender = Nobody /\ e.receiver = m.sender /\ e.session = -m.session
      BY <1>3 DEF SecondError, Mail
    <3>2. ~Asks(e, r)
      BY <3>1 DEF Asks, IsRequest
    <3>3. AnswerTo(e, r) => r.from = m.sender /\ r.n = -m.session
      BY <3>1 DEF AnswerTo
    <3>4. r = [from |-> r.from, n |-> r.n]
      BY DEF Request
    <3>5. AnswerTo(e, r) => Asks(m, r)
      BY <1>1, <3>3, <3>4 DEF Asks, RequestOf
    <3> QED
      BY <3>2, <3>5, SecondIs
  <2>2. Counts(m, r) /\ Same(mq_, mq_, Second(r))
    BY <1>0, <1>1, AgainCounts, SameItself
  <2>3. CASE mq_' = Sent(mq_, e)
    BY <1>0, <1>1, <1>2, <2>1, <2>2, <2>3, ShadowHandled
  <2>4. CASE mq_' = Sent(q, e)
    BY <1>1, <1>2, <1>5, <2>1, <2>2, <2>4, ShadowHandled
  <2> QED
    BY <1>3, <1>4, <2>3, <2>4 DEF DispatchFailsLate
<1> QED
  BY <1>6 DEF Shadows

LEMMA DispatchOnShadows ==
    ASSUME SInv, NEW w \in Workers, NEW s \in Services, NEW m, NEW to \in Services,
           DispatchRedirects(w, s, m, to) \/ DispatchResends(w, s, m, to)
    PROVE  Shadows'
<1>0. TInv /\ IInv /\ TypeOK /\ mq_ \in Queues
  BY BooksFacts DEF SInv
<1>1. Dispatches(w, s, m) /\ Finds(w, s, m)
  BY DEF DispatchRedirects, DispatchResends, Dispatches
<1>2. /\ Handles(w) /\ Handled(w) /\ m = Head(swapmq_[w])
      /\ m \in Message /\ m.session \in Int
  BY <1>0, <1>1, FindsFacts, FindsType, MessagingAssumption
<1>3. ASSUME NEW r \in Request
      PROVE  Shadow(r)'
  <2>1. Counts(m, r) /\ Same(mq_, mq_, Second(r))
    BY <1>0, <1>1, AgainCounts, SameItself
  <2>2. CASE DispatchRedirects(w, s, m, to)
    <3>1. PICK on \in BOOLEAN : on = (m.session > 0)
      <4>1. (m.session > 0) \in BOOLEAN
        BY <1>2
      <4> QED
        BY <4>1
    <3>2. PICK f : f = [m EXCEPT !.receiver = to, !.forwarded = on]
      OBVIOUS
    <3>3. /\ f \in Message /\ f.session = m.session /\ f.sender = m.sender
          /\ f.broadcast = m.broadcast /\ f.forwarded = on
      BY <1>2, <3>2 DEF Message
    <3>4. mq_' = Sent(mq_, f) /\ asked' = asked
      BY <2>2, <3>1, <3>2 DEF DispatchRedirects
    <3>5. Mentions(f, Second(r)) => Asks(m, r)
      <4>1. Asks(f, r) => Asks(m, r)
        BY <3>3 DEF Asks, IsRequest, RequestOf
      <4>2. f.session = r.n => m.session > 0
        BY <3>3, MessagingAssumption DEF Request, Sessions
      <4>3. ~AnswerTo(f, r)
        BY Zenon, <3>1, <3>3, <4>2 DEF AnswerTo
      <4> QED
        BY <4>1, <4>3, SecondIs
    <3> QED
      BY <1>0, <1>2, <2>1, <3>3, <3>4, <3>5, ShadowHandled
  <2>3. CASE DispatchResends(w, s, m, to)
    <3>1. PICK n \in Sessions : n = asked[s] + 1
      BY <1>0, <2>3, NextRequest DEF DispatchResends
    <3>2. PICK f : f = Mail(s, to, -n)
      OBVIOUS
    <3>3. f \in Message
      BY <3>2, RequestMentions
    <3>4. mq_' = Sent(mq_, f) /\ asked' = [asked EXCEPT ![s] = @ + 1]
      BY <2>3, <3>1, <3>2 DEF DispatchResends
    <3>5. Mentions(f, Second(r)) => r = [from |-> s, n |-> asked[s] + 1]
      BY <3>1, <3>2, NewMentions
    <3>6. /\ r.n <= asked[r.from] => r.n <= asked'[r.from]
          /\ Mentions(f, Second(r)) => ~(r.n <= asked[r.from]) /\ r.n <= asked'[r.from]
      BY <1>0, <3>4, <3>5, AskedGrows
    <3> QED
      BY <1>0, <1>2, <2>1, <3>3, <3>4, <3>6, ShadowHandled
  <2> QED
    BY <2>2, <2>3
<1> QED
  BY <1>3 DEF Shadows

LEMMA InitSInv == Init => SInv
<1> SUFFICES ASSUME Init PROVE SInv
  OBVIOUS
<1>1. TInv
  BY InitTInv
<1>2. \A w \in Workers : mq_[w] = <<>> /\ swapmq_[w] = <<>>
  BY DEF Init
<1>3. ASSUME NEW r \in Request
      PROVE  Shadow(r)
  <2>1. again[r.from][r.n] = 0
    BY DEF Init, Request
  <2>2. PICK x : x = Second(r)
    OBVIOUS
  <2>3. \A v \in Workers : /\ ~Bears(mq_[v], x) /\ ~Bears(swapmq_[v], x)
                           /\ Once(mq_[v], x) /\ Once(swapmq_[v], x)
    BY <1>2, EmptyBears
  <2>4. Lone(mq_, x) /\ Lone(swapmq_, x) /\ NotIn(mq_, x) /\ NotIn(swapmq_, x)
    BY <2>3 DEF Lone, NotIn
  <2> QED
    BY <2>1, <2>2, <2>4 DEF Shadow
<1> QED
  BY <1>1, <1>3 DEF SInv, Shadows

LEMMA NextSInv == SInv /\ [Next]_vars => SInv'
<1> SUFFICES ASSUME SInv, [Next]_vars PROVE SInv'
  OBVIOUS
<1>0. TInv'
  BY NextTInv DEF SInv
<1>1. ASSUME NEW s \in Services, NEW r \in Services,
             ScriptNotify(s, r) \/ ScriptAsk(s, r) \/ ScriptRemove(s, r)
      PROVE  Shadows'
  BY <1>1, ScriptShadows
<1>2. ASSUME NEW s \in Services, NEW q \in owed[s], ScriptAnswer(s, q)
      PROVE  Shadows'
  BY <1>2, ScriptAnswerShadows
<1>3. ASSUME NEW s \in Services,
             ScriptBroadcast(s) \/ ScriptBroadcastNothing(s) \/ Quit(s)
      PROVE  Shadows'
  BY <1>3, ScriptBroadcastShadows, QuitShadows
<1>4. ASSUME NEW x \in removals, RemoveTask(x)
      PROVE  Shadows'
  BY <1>4, RemoveTaskShadows
<1>5. ASSUME NEW w \in Workers, Swap(w)
      PROVE  Shadows'
  BY <1>5, SwapShadows
<1>6. ASSUME NEW w \in Workers, Handle(w)
      PROVE  Shadows'
  <2>1. CASE HandleBroadcast(w) \/ HandleBroadcastResent(w) \/ HandleDead(w)
    BY <2>1, HandleUncountedShadows
  <2>2. ASSUME NEW s \in Services, NEW m, DispatchMute(w, s, m)
        PROVE  Shadows'
    BY <2>2, HandleUncountedShadows
  <2>3. ASSUME NEW s \in Services, NEW m, DispatchOk(w, s, m) \/ DispatchFails(w, s, m)
        PROVE  Shadows'
    BY <2>3, DispatchTamelyShadows
  <2>4. ASSUME NEW s \in Services, NEW m, DispatchFailsLate(w, s, m)
        PROVE  Shadows'
    BY <2>4, DispatchFailsLateShadows
  <2>5. ASSUME NEW s \in Services, NEW m, NEW r \in Services,
               DispatchRedirectsAndFails(w, s, m, r) \/ DispatchResendsAndFails(w, s, m, r)
        PROVE  Shadows'
    BY <2>5, DispatchTamelyShadows
  <2>6. ASSUME NEW s \in Services, NEW m, NEW r \in Services,
               DispatchRedirects(w, s, m, r) \/ DispatchResends(w, s, m, r)
        PROVE  Shadows'
    BY <2>6, DispatchOnShadows
  <2>7. TypeOK
    BY BooksFacts DEF SInv
  <2> QED
    BY <1>6, <2>1, <2>2, <2>3, <2>4, <2>5, <2>6, <2>7, HandleCases
<1>7. ASSUME \/ UNCHANGED vars
             \/ \E w \in Workers : Exit(w)
      PROVE  Shadows'
  <2>1. UNCHANGED <<mq_, swapmq_, again, asked>>
    BY <1>7 DEF Exit, vars, history
  <2> QED
    BY <2>1, SameItself, QuietShadows
<1>8. ASSUME Next
      PROVE  Shadows'
  BY <1>1, <1>2, <1>3, <1>4, <1>5, <1>6, <1>7, <1>8 DEF Next
<1> QED
  BY <1>0, <1>7, <1>8 DEF SInv

LEMMA SInvariance == Spec => []SInv
BY InitSInv, NextSInv, PTL DEF Spec

-----------------------------------------------------------------------------
(* What the queues of a worker bear. *)

\* u is the queue q and then the queue p.
Behind(u, q, p) ==
    /\ Len(q) \in Nat /\ Len(p) \in Nat /\ Len(u) \in Nat
    /\ \A i \in 1..Len(q) : i \in 1..Len(u) /\ u[i] = q[i]
    /\ \A i \in 1..Len(p) : Len(q) + i \in 1..Len(u) /\ u[Len(q) + i] = p[i]
    /\ \A i \in 1..Len(u) : i \in 1..Len(q) \/ \E j \in 1..Len(p) : i = Len(q) + j

LEMMA OneBehindTheOther ==
    ASSUME NEW q \in Seq(Message), NEW p \in Seq(Message), NEW u, u = q \o p
    PROVE  Behind(u, q, p)
<1>1. /\ Len(q) \in Nat /\ Len(p) \in Nat
      /\ Len(u) = Len(q) + Len(p)
      /\ \A i \in 1..Len(q) + Len(p) : u[i] = IF i <= Len(q) THEN q[i] ELSE p[i - Len(q)]
  BY ConcatProperties, LenProperties
<1>2. ASSUME NEW i \in 1..Len(q)
      PROVE  i \in 1..Len(u) /\ u[i] = q[i]
  BY <1>1
<1>3. ASSUME NEW i \in 1..Len(p)
      PROVE  Len(q) + i \in 1..Len(u) /\ u[Len(q) + i] = p[i]
  <2>1. /\ Len(q) + i \in 1..Len(q) + Len(p)
        /\ ~(Len(q) + i <= Len(q)) /\ (Len(q) + i) - Len(q) = i
    BY <1>1
  <2> QED
    BY <1>1, <2>1
<1>4. ASSUME NEW i \in 1..Len(u), i \notin 1..Len(q)
      PROVE  \E j \in 1..Len(p) : i = Len(q) + j
  <2>1. i - Len(q) \in 1..Len(p) /\ i = Len(q) + (i - Len(q))
    BY <1>1, <1>4
  <2> QED
    BY <2>1
<1>5. Len(u) \in Nat
  BY <1>1
<1> QED
  BY <1>1, <1>2, <1>3, <1>4, <1>5 DEF Behind

\* The two queues of a worker.
LEMMA UnderIs ==
    ASSUME TypeOK, NEW w \in Workers
    PROVE  /\ Len(swapmq_[w]) \in Nat /\ Len(mq_[w]) \in Nat /\ Len(Under(w)) \in Nat
           /\ \A i \in 1..Len(swapmq_[w]) :
                  i \in 1..Len(Under(w)) /\ Under(w)[i] = swapmq_[w][i]
           /\ \A i \in 1..Len(mq_[w]) :
                  /\ Len(swapmq_[w]) + i \in 1..Len(Under(w))
                  /\ Under(w)[Len(swapmq_[w]) + i] = mq_[w][i]
           /\ \A i \in 1..Len(Under(w)) :
                  \/ i \in 1..Len(swapmq_[w])
                  \/ \E j \in 1..Len(mq_[w]) : i = Len(swapmq_[w]) + j
<1>1. swapmq_[w] \in Seq(Message) /\ mq_[w] \in Seq(Message)
  BY DEF TypeOK
<1>2. Under(w) = swapmq_[w] \o mq_[w]
  BY DEF Under
<1>3. Behind(Under(w), swapmq_[w], mq_[w])
  BY <1>1, <1>2, OneBehindTheOther
<1> QED
  BY <1>3 DEF Behind

\* A set of places in a queue is finite.
LEMMA PlacesFinite ==
    ASSUME TypeOK, NEW w \in Workers, NEW A, A \subseteq 1..Len(Under(w))
    PROVE  IsFiniteSet(A)
<1>1. Len(Under(w)) \in Int
  BY UnderIs
<1>2. IsFiniteSet(1..Len(Under(w)))
  BY <1>1, FS_Interval
<1>3. A \in SUBSET (1..Len(Under(w)))
  OBVIOUS
<1> QED
  BY <1>2, <1>3, FS_Subset

\* A worker has one message at most that mentions r, when its queues have one at most
\* between them.
LEMMA UnderOnce ==
    ASSUME TypeOK, NEW r, NEW w \in Workers, Once(mq_[w], r), Once(swapmq_[w], r),
           ~(Bears(mq_[w], r) /\ Bears(swapmq_[w], r)),
           NEW i \in 1..Len(Under(w)), Mentions(Under(w)[i], r)
    PROVE  /\ Bears(mq_[w], r) \/ Bears(swapmq_[w], r)
           /\ \A j \in 1..Len(Under(w)) : Mentions(Under(w)[j], r) => j = i
<1> DEFINE l == Len(swapmq_[w])
<1>1. /\ l \in Nat /\ Len(mq_[w]) \in Nat
      /\ \A k \in 1..l : Under(w)[k] = swapmq_[w][k]
      /\ \A k \in 1..Len(mq_[w]) : Under(w)[l + k] = mq_[w][k]
      /\ \A k \in 1..Len(Under(w)) :
             \/ k \in 1..l
             \/ \E x \in 1..Len(mq_[w]) : k = l + x
  BY UnderIs
<1> HIDE DEF l
<1>2. \A k \in 1..Len(Under(w)) : Mentions(Under(w)[k], r) =>
          \/ k \in 1..l /\ Mentions(swapmq_[w][k], r) /\ Bears(swapmq_[w], r)
          \/ \E x \in 1..Len(mq_[w]) :
                 k = l + x /\ Mentions(mq_[w][x], r) /\ Bears(mq_[w], r)
  <2> SUFFICES ASSUME NEW k \in 1..Len(Under(w)), Mentions(Under(w)[k], r)
               PROVE  \/ k \in 1..l /\ Mentions(swapmq_[w][k], r) /\ Bears(swapmq_[w], r)
                      \/ \E x \in 1..Len(mq_[w]) :
                             k = l + x /\ Mentions(mq_[w][x], r) /\ Bears(mq_[w], r)
    OBVIOUS
  <2>1. CASE k \in 1..l
    <3>1. Mentions(swapmq_[w][k], r)
      BY <1>1, <2>1
    <3> QED
      BY <2>1, <3>1 DEF Bears, l
  <2>2. ASSUME NEW x \in 1..Len(mq_[w]), k = l + x
        PROVE  k = l + x /\ Mentions(mq_[w][x], r) /\ Bears(mq_[w], r)
    <3>1. Mentions(mq_[w][x], r)
      BY <1>1, <2>2
    <3> QED
      BY <2>2, <3>1 DEF Bears
  <2> QED
    BY <1>1, <2>1, <2>2
<1>3. ASSUME NEW j \in 1..Len(Under(w)), Mentions(Under(w)[j], r)
      PROVE  j = i
  <2>1. CASE Bears(swapmq_[w], r)
    <3>1. /\ i \in 1..l /\ Mentions(swapmq_[w][i], r)
          /\ j \in 1..l /\ Mentions(swapmq_[w][j], r)
      BY <1>2, <1>3, <2>1
    <3> QED
      BY <3>1 DEF Once, l
  <2>2. CASE ~Bears(swapmq_[w], r)
    <3>1. PICK x \in 1..Len(mq_[w]) : i = l + x /\ Mentions(mq_[w][x], r)
      BY <1>2, <2>2
    <3>2. PICK y \in 1..Len(mq_[w]) : j = l + y /\ Mentions(mq_[w][y], r)
      BY <1>2, <1>3, <2>2
    <3>3. x = y
      BY <3>1, <3>2 DEF Once
    <3> QED
      BY <3>1, <3>2, <3>3
  <2> QED
    BY <2>1, <2>2
<1> QED
  BY <1>2, <1>3

\* So there are none or one, in one of the queues.
LEMMA CountOne ==
    ASSUME TypeOK, NEW r, NEW w \in Workers, Once(mq_[w], r), Once(swapmq_[w], r),
           ~(Bears(mq_[w], r) /\ Bears(swapmq_[w], r)),
           NEW A, A \subseteq 1..Len(Under(w)), \A i \in A : Mentions(Under(w)[i], r)
    PROVE  \/ Cardinality(A) = 0
           \/ Cardinality(A) = 1 /\ (Bears(mq_[w], r) \/ Bears(swapmq_[w], r))
<1>1. CASE A = {}
  BY <1>1, FS_EmptySet
<1>2. ASSUME NEW i \in A
      PROVE  Cardinality(A) = 1 /\ (Bears(mq_[w], r) \/ Bears(swapmq_[w], r))
  <2>1. i \in 1..Len(Under(w)) /\ Mentions(Under(w)[i], r)
    BY <1>2
  <2>2. /\ Bears(mq_[w], r) \/ Bears(swapmq_[w], r)
        /\ \A j \in A : j = i
    BY <2>1, UnderOnce
  <2>3. A = {i}
    BY <1>2, <2>2
  <2> QED
    BY <2>2, <2>3, FS_Singleton
<1> QED
  BY <1>1, <1>2

\* The answers to a request, second errors apart, are none or one.
LEMMA AnswersCounted ==
    ASSUME TInv, NEW r \in Request, r.from \in alive
    PROVE  Coming(r.from, r.n) + got[r.from][r.n] <= IF r.n <= asked[r.from] THEN 1 ELSE 0
<1>1. TypeOK /\ Token(r) /\ r.from \in Services /\ WorkerOf[r.from] \in Workers
  BY BooksFacts DEF TInv, Tokens, TypeOK, workerid_valid, Request
<1>2. PICK w \in Workers : w = WorkerOf[r.from]
  BY <1>1
<1>3. PICK A : A = {i \in Answers(r.from, r.n) : ~Under(w)[i].second}
  OBVIOUS
<1>4. Coming(r.from, r.n) = Cardinality(A)
  BY <1>2, <1>3 DEF Coming
<1>5. A \subseteq 1..Len(Under(w)) /\ \A i \in A : Mentions(Under(w)[i], r)
  BY <1>2, <1>3, Zenon DEF Answers, Mentions, AnswerTo
<1>6. /\ Bears(mq_[w], r) => NotIn(swapmq_, r) /\ NotGot(r) /\ r.n <= asked[r.from]
      /\ Bears(swapmq_[w], r) => NotGot(r) /\ r.n <= asked[r.from]
  BY <1>1, MqAlone, SwapmqAlone
<1>7. ~(Bears(mq_[w], r) /\ Bears(swapmq_[w], r)) /\ Once(mq_[w], r) /\ Once(swapmq_[w], r)
  BY <1>1, <1>6 DEF NotIn, Token
<1>8. \/ Cardinality(A) = 0
      \/ Cardinality(A) = 1 /\ (Bears(mq_[w], r) \/ Bears(swapmq_[w], r))
  BY <1>1, <1>5, <1>7, CountOne
<1>9. /\ got[r.from][r.n] \in Nat /\ got[r.from][r.n] <= 1
      /\ got[r.from][r.n] > 0 => r.n <= asked[r.from]
  BY <1>1, WhereIs DEF TypeOK, Token, Request
<1> QED
  BY <1>4, <1>6, <1>8, <1>9 DEF NotGot

\* So are the second errors.
LEMMA SecondsCounted ==
    ASSUME SInv, NEW r \in Request, r.from \in alive
    PROVE  ComingAgain(r.from, r.n) + again[r.from][r.n] <=
               IF r.n <= asked[r.from] THEN 1 ELSE 0
<1>1. TypeOK /\ Shadow(r) /\ r.from \in Services /\ WorkerOf[r.from] \in Workers
  BY BooksFacts DEF SInv, Shadows, TypeOK, workerid_valid, Request
<1>2. PICK w \in Workers : w = WorkerOf[r.from]
  BY <1>1
<1>3. PICK A : A = {i \in Answers(r.from, r.n) : Under(w)[i].second}
  OBVIOUS
<1>4. ComingAgain(r.from, r.n) = Cardinality(A)
  BY <1>2, <1>3 DEF ComingAgain
<1>5. PICK x : x = Second(r)
  OBVIOUS
<1>6. A \subseteq 1..Len(Under(w)) /\ \A i \in A : Mentions(Under(w)[i], x)
  <2>1. \A i \in A : i \in 1..Len(Under(w)) /\ AnswerTo(Under(w)[i], r) /\ Under(w)[i].second
    BY <1>2, <1>3, Zenon DEF Answers, AnswerTo
  <2> QED
    BY <1>5, <2>1, SecondIs
<1>7. /\ ~(Bears(mq_[w], x) /\ Bears(swapmq_[w], x)) /\ Once(mq_[w], x) /\ Once(swapmq_[w], x)
      /\ Bears(mq_[w], x) \/ Bears(swapmq_[w], x) =>
             again[r.from][r.n] = 0 /\ r.n <= asked[r.from]
      /\ again[r.from][r.n] \in {0, 1} /\ (again[r.from][r.n] = 1 => r.n <= asked[r.from])
  BY <1>1, <1>5 DEF Shadow, Lone, NotIn
<1>8. \/ Cardinality(A) = 0
      \/ Cardinality(A) = 1 /\ (Bears(mq_[w], x) \/ Bears(swapmq_[w], x))
  BY <1>1, <1>6, <1>7, CountOne
<1> QED
  BY <1>4, <1>7, <1>8

\* No answer comes twice, and none that was not asked for (router::send and response,
\* worker::handle_one, lua_service::dispatch), because a request is in one place only,
\* whoever redirects it, resends it or fails.  The error that dispatch sends for a request
\* that a callback had answered or kept before it failed comes on top, once at most.
THEOREM RequestsAreAnsweredOnce == Spec => []AnsweredOnce
<1>1. SInv => AnsweredOnce
  <2> SUFFICES ASSUME SInv, NEW s \in alive, NEW n \in Sessions
               PROVE  /\ Coming(s, n) + got[s][n] <= IF n <= asked[s] THEN 1 ELSE 0
                      /\ ComingAgain(s, n) + again[s][n] <= IF n <= asked[s] THEN 1 ELSE 0
    BY DEF AnsweredOnce
  <2>1. s \in Services /\ TInv
    BY BooksFacts DEF SInv, TypeOK
  <2>2. PICK r \in Request : r.from = s /\ r.n = n
    <3>1. [from |-> s, n |-> n] \in Request
      BY <2>1 DEF Request
    <3> QED
      BY <3>1
  <2> QED
    BY <2>1, <2>2, AnswersCounted, SecondsCounted
<1> QED
  BY <1>1, SInvariance, PTL

\* A request whose service lives is queued, kept, answered or accounted for as lost
\* (worker::handle_one, lua_service::dispatch, worker::remove_service): the runtime's error
\* answers leave no path on which it disappears in silence.
THEOREM RequestsAreNotForgotten == Spec => []NoRequestForgotten
<1>1. TInv => NoRequestForgotten
  <2> SUFFICES ASSUME TInv, NEW s \in alive, NEW n \in 1..asked[s],
                      [from |-> s, n |-> n] \notin lost
               PROVE  \/ \E w \in Workers : \E i \in 1..Len(Under(w)) :
                             /\ IsRequest(Under(w)[i])
                             /\ RequestOf(Under(w)[i]) = [from |-> s, n |-> n]
                      \/ \E x \in removals : x.request = [from |-> s, n |-> n]
                      \/ \E t \in alive : [from |-> s, n |-> n] \in owed[t]
                      \/ Coming(s, n) > 0
                      \/ got[s][n] > 0
    BY DEF NoRequestForgotten
  <2>1. TypeOK
    BY BooksFacts
  <2>2. s \in Services /\ WorkerOf[s] \in Workers
    BY <2>1 DEF TypeOK, workerid_valid
  <2>3. n \in Sessions /\ n <= asked[s]
    <3>1. asked[s] \in 0..MaxSends
      BY <2>1, <2>2 DEF TypeOK
    <3> QED
      BY <3>1, MessagingAssumption DEF Sessions
  <2>4. PICK r \in Request : r = [from |-> s, n |-> n]
    BY <2>2, <2>3 DEF Request
  <2>5. r.from = s /\ r.n = n /\ Token(r)
    BY <2>4 DEF TInv, Tokens
  <2>6. ASSUME NEW w \in Workers, NEW i \in 1..Len(Under(w)), Mentions(Under(w)[i], r),
               Proper(mq_[w], w), Proper(swapmq_[w], w)
        PROVE  \/ IsRequest(Under(w)[i]) /\ RequestOf(Under(w)[i]) = r
               \/ Coming(s, n) > 0
    <3> SUFFICES ASSUME ~(IsRequest(Under(w)[i]) /\ RequestOf(Under(w)[i]) = r)
                 PROVE  Coming(s, n) > 0
      OBVIOUS
    <3>1. AnswerTo(Under(w)[i], r) /\ ~Under(w)[i].second
      BY <2>6, Zenon DEF Mentions, Asks
    <3>2. WorkerOf[s] = w
      <4>1. Under(w)[i].receiver = s /\ s # Nobody
        BY <2>2, <2>5, <3>1, MessagingAssumption DEF AnswerTo
      <4>2. CASE i \in 1..Len(swapmq_[w])
        <5>1. Under(w)[i] = swapmq_[w][i]
          BY <2>1, <4>2, UnderIs
        <5> QED
          BY <2>6, <4>1, <4>2, <5>1 DEF Proper
      <4>3. ASSUME NEW j \in 1..Len(mq_[w]), i = Len(swapmq_[w]) + j
            PROVE  WorkerOf[s] = w
        <5>1. Under(w)[i] = mq_[w][j]
          BY <2>1, <4>3, UnderIs
        <5> QED
          BY <2>6, <4>1, <5>1 DEF Proper
      <4> QED
        BY <2>1, <4>2, <4>3, UnderIs
    <3>3. PICK A : A = {k \in Answers(s, n) : ~Under(w)[k].second}
      OBVIOUS
    <3>4. Coming(s, n) = Cardinality(A) /\ IsFiniteSet(A) /\ A # {}
      <4>1. Coming(s, n) = Cardinality(A)
        BY <3>2, <3>3 DEF Coming
      <4>2. A \subseteq 1..Len(Under(w))
        BY <3>2, <3>3 DEF Answers
      <4>3. IsFiniteSet(A)
        BY <2>1, <4>2, PlacesFinite
      <4>4. i \in A
        BY <2>5, <3>1, <3>2, <3>3, Zenon DEF Answers, AnswerTo
      <4> QED
        BY <4>1, <4>3, <4>4
    <3>5. Cardinality(A) \in Nat /\ Cardinality(A) # 0
      BY <3>4, FS_CardinalityType, FS_EmptySet
    <3> QED
      BY <3>4, <3>5
  <2>7. \A w \in Workers : Proper(mq_[w], w) /\ Proper(swapmq_[w], w)
    BY DEF TInv, Books, ProperQueues
  <2>8. Where(r) # {}
    BY <2>3, <2>4, <2>5 DEF Token
  <2>9. \/ \E w \in Workers : Bears(mq_[w], r)
        \/ \E w \in Workers : Bears(swapmq_[w], r)
        \/ \E x \in removals : x.request = r
        \/ \E t \in Services : r \in owed[t]
        \/ got[r.from][r.n] > 0
    BY <2>8 DEF Where, GotPlaces
  <2>10. ASSUME NEW w \in Workers, Bears(mq_[w], r)
         PROVE  \E i \in 1..Len(Under(w)) : Mentions(Under(w)[i], r)
    <3>1. PICK j \in 1..Len(mq_[w]) : Mentions(mq_[w][j], r)
      BY <2>10 DEF Bears
    <3>2. PICK i : i = Len(swapmq_[w]) + j
      OBVIOUS
    <3>3. i \in 1..Len(Under(w)) /\ Under(w)[i] = mq_[w][j]
      BY <2>1, <3>2, UnderIs
    <3> QED
      BY <3>1, <3>3
  <2>11. ASSUME NEW w \in Workers, Bears(swapmq_[w], r)
         PROVE  \E i \in 1..Len(Under(w)) : Mentions(Under(w)[i], r)
    <3>1. PICK i \in 1..Len(swapmq_[w]) : Mentions(swapmq_[w][i], r)
      BY <2>11 DEF Bears
    <3>2. i \in 1..Len(Under(w)) /\ Under(w)[i] = swapmq_[w][i]
      BY <2>1, UnderIs
    <3> QED
      BY <3>1, <3>2
  <2>12. CASE \E w \in Workers : Bears(mq_[w], r) \/ Bears(swapmq_[w], r)
    BY <2>4, <2>6, <2>7, <2>10, <2>11, <2>12
  <2>13. CASE \E x \in removals : x.request = r
    BY <2>4, <2>13
  <2>14. CASE \E t \in Services : r \in owed[t]
    BY <2>4, <2>14, BooksFacts
  <2>15. CASE got[r.from][r.n] > 0
    BY <2>5, <2>15
  <2> QED
    BY <2>9, <2>12, <2>13, <2>14, <2>15
<1> QED
  BY <1>1, TInvariance, PTL
=============================================================================
