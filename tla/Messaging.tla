----------------------------- MODULE Messaging -----------------------------
(***************************************************************************)
(* Messages between services: router::send, broadcast and response, the    *)
(* drain task of worker::send with handle_one, service::handle_message     *)
(* with the redirection of messages, lua_service::dispatch with its error  *)
(* answers, and what the removal of a service sends.                       *)
(*                                                                         *)
(* A message carries a session: 0 for a notification, negative for a       *)
(* request, positive for an answer.  Scripts number their requests, and    *)
(* router::send negates, which makes a request of a positive number and an *)
(* answer of the number a request came with.  The runtime answers a        *)
(* request itself, with an error from nobody, when the receiver is dead or *)
(* its callback fails, whatever the callback did before it failed.         *)
(*                                                                         *)
(* mq_ and swapmq_ of a worker are sequences here, as WorkerQueue's proof  *)
(* allows.  Headers, types and contents of messages are left out, and so   *)
(* is the mixing up of messages that share a buffer.  What scripts do is   *)
(* not in src/: they answer a request once, at once or later, or redirect  *)
(* it, and may fail after that as well as before.                          *)
(***************************************************************************)
EXTENDS Integers, Sequences, FiniteSets

CONSTANTS
    NW,             \* the number of workers
    Services,       \* service ids, those included that name no worker
    WorkerOf,       \* worker_id(): the worker an id names
    Mute,           \* the services whose script never sets its callbacks
    MaxSends,       \* bound: messages sent and broadcast by scripts
    MaxTwists,      \* bound: redirect(), resend() and late failures by scripts
    MaxBroadcasts   \* bound: broadcasts, those of removed services included

Workers == 1..NW

\* The sender of the runtime's own messages, and the null service.
Nobody == 0

ASSUME MessagingAssumption ==
    /\ NW \in Nat \ {0}
    /\ Services \subseteq Nat \ {Nobody}
    /\ WorkerOf \in [Services -> Nat]
    /\ Mute \subseteq Services
    /\ MaxSends \in Nat
    /\ MaxTwists \in Nat
    /\ MaxBroadcasts \in Nat

VARIABLES
    mq_,            \* the messages pushed to a worker and not yet swapped
    swapmq_,        \* the messages its drain task has still to handle
    ser,            \* the drain task's service of the previous message
    alive,          \* the services in the tables of the workers
    removals,       \* the remove tasks posted by scripts
    exited,         \* the workers that have exited
    sends,          \* bound: messages sent and broadcast by scripts
    twists,         \* bound: redirect(), resend() and late failures by scripts
    asked,          \* history: how many requests each service has made
    owed,           \* the requests each service's script has still to answer
    got,            \* history: how often each request of a service was answered,
                    \* second errors apart
    again,          \* history: how many second errors came for each request
    lost,           \* history: the requests dropped with a line in the log, with the
                    \* service that owed the answer, or by a callback that failed
                    \* after it had resent them
    speakers,       \* history: who broadcast
    heard,          \* history: how often each service was given each broadcast
    resent          \* history: the broadcasts that a callback resent

bounds == <<sends, twists>>
tables == <<alive, removals, exited>>
history == <<got, again, lost, speakers, heard, resent>>
vars == <<mq_, swapmq_, ser, tables, bounds, asked, owed, history>>

Sessions == 1..MaxSends

Request == [from : Services, n : Sessions]

\* A remove task: the service to remove, and the request it answers.
Removal == [id : Services, request : Request]

\* broadcast is 0, or the number of the broadcast; forwarded marks an answer that a
\* script redirected to another service than the one that asked; second marks the error
\* for a request that the callback had answered or kept before it failed.
Message == [sender : Services \cup {Nobody}, receiver : Services \cup {Nobody},
            session : -MaxSends..MaxSends, broadcast : 0..MaxBroadcasts,
            forwarded : BOOLEAN, second : BOOLEAN]

workerid_valid(w) == w \in Workers

\* The services that exist at first.
Init ==
    /\ mq_ = [w \in Workers |-> <<>>]
    /\ swapmq_ = [w \in Workers |-> <<>>]
    /\ ser = [w \in Workers |-> Nobody]
    /\ alive = {s \in Services : workerid_valid(WorkerOf[s])}
    /\ removals = {}
    /\ exited = {}
    /\ sends = 0
    /\ twists = 0
    /\ asked = [s \in Services |-> 0]
    /\ owed = [s \in Services |-> {}]
    /\ got = [s \in Services |-> [n \in Sessions |-> 0]]
    /\ again = [s \in Services |-> [n \in Sessions |-> 0]]
    /\ lost = {}
    /\ speakers = <<>>
    /\ resent = {}
    /\ heard = [b \in 1..MaxBroadcasts |-> [s \in Services |-> 0]]

-----------------------------------------------------------------------------
(* The router. *)

\* A message to one service.
Mail(sender, receiver, session) ==
    [sender |-> sender, receiver |-> receiver, session |-> session, broadcast |-> 0,
     forwarded |-> FALSE, second |-> FALSE]

\* send_message() has somewhere to put the message; one without a type is dropped the
\* same way.
Deliverable(m) == m.receiver # Nobody /\ workerid_valid(WorkerOf[m.receiver])

\* The queues q after send_message(m); a message to nowhere is logged and dropped.
Sent(q, m) ==
    IF Deliverable(m) THEN [q EXCEPT ![WorkerOf[m.receiver]] = Append(@, m)] ELSE q

\* The queues q after response(to, ..., session): an error from nobody.
Response(q, to, session) ==
    IF to = Nobody \/ session = 0 THEN q ELSE Sent(q, Mail(Nobody, to, session))

IsRequest(m) == m.session < 0 /\ m.sender # Nobody /\ m.broadcast = 0

RequestOf(m) == [from |-> m.sender, n |-> -m.session]

\* What is lost when m goes nowhere.
LostWith(m) == IF IsRequest(m) /\ ~Deliverable(m) THEN {RequestOf(m)} ELSE {}

-----------------------------------------------------------------------------
(* Scripts, in a callback of a service that is alive. *)

Runs(s) == s \in alive \ Mute

\* send() of a notification.
ScriptNotify(s, r) ==
    /\ Runs(s)
    /\ sends < MaxSends
    /\ sends' = sends + 1
    /\ mq_' = Sent(mq_, Mail(s, r, 0))
    /\ UNCHANGED <<swapmq_, ser, tables, twists, asked, owed, history>>

\* send() of a request under the next number.
ScriptAsk(s, r) ==
    LET m == Mail(s, r, -(asked[s] + 1))
    IN  /\ Runs(s)
        /\ sends < MaxSends
        /\ sends' = sends + 1
        /\ asked' = [asked EXCEPT ![s] = @ + 1]
        /\ mq_' = Sent(mq_, m)
        /\ lost' = lost \cup LostWith(m)
        /\ UNCHANGED <<swapmq_, ser, tables, twists, owed, got, again>>
        /\ UNCHANGED <<speakers, heard, resent>>

\* send() of the answer to a request that was kept.
ScriptAnswer(s, q) ==
    /\ Runs(s)
    /\ q \in owed[s]
    /\ owed' = [owed EXCEPT ![s] = @ \ {q}]
    /\ mq_' = Sent(mq_, Mail(s, q.from, q.n))
    /\ UNCHANGED <<swapmq_, ser, tables, bounds, asked, history>>

\* broadcast(): one message to every worker.
Broadcast(s, q) ==
    LET b == Len(speakers) + 1
        m == [sender |-> s, receiver |-> Nobody, session |-> 0, broadcast |-> b,
              forwarded |-> FALSE, second |-> FALSE]
    IN  /\ b <= MaxBroadcasts
        /\ speakers' = Append(speakers, s)
        /\ mq_' = [w \in Workers |-> Append(q[w], m)]

ScriptBroadcast(s) ==
    /\ Runs(s)
    /\ sends < MaxSends
    /\ sends' = sends + 1
    /\ Broadcast(s, mq_)
    /\ UNCHANGED <<swapmq_, ser, tables, twists, asked, owed>>
    /\ UNCHANGED <<got, again, lost, heard, resent>>

\* broadcast() without a buffer: the flag that makes a message a broadcast is kept in the
\* buffer, so that these messages are for nobody.
ScriptBroadcastNothing(s) ==
    /\ Runs(s)
    /\ sends < MaxSends
    /\ sends' = sends + 1
    /\ mq_' = [w \in Workers |-> Append(mq_[w], Mail(s, Nobody, 0))]
    /\ UNCHANGED <<swapmq_, ser, tables, twists, asked, owed, history>>

\* remove_service(): a task for the worker, or an error if there is no such worker.
ScriptRemove(s, r) ==
    LET n == asked[s] + 1
    IN  /\ Runs(s)
        /\ sends < MaxSends
        /\ sends' = sends + 1
        /\ asked' = [asked EXCEPT ![s] = n]
        /\ IF workerid_valid(WorkerOf[r])
           THEN /\ removals' = removals \cup {[id |-> r, request |-> [from |-> s, n |-> n]]}
                /\ UNCHANGED mq_
           ELSE /\ mq_' = Response(mq_, s, n)
                /\ UNCHANGED removals
        /\ UNCHANGED <<swapmq_, ser, alive, exited, twists, owed, history>>

-----------------------------------------------------------------------------
(* The drain task. *)

\* The worker's thread runs no drain task.
Between(w) == swapmq_[w] = <<>>

Here(w) == {s \in alive : WorkerOf[s] = w}

\* worker::send's task: swap, with no service found yet.
Swap(w) ==
    /\ w \notin exited
    /\ Between(w)
    /\ mq_[w] # <<>>
    /\ swapmq_' = [swapmq_ EXCEPT ![w] = mq_[w]]
    /\ mq_' = [mq_ EXCEPT ![w] = <<>>]
    /\ ser' = [ser EXCEPT ![w] = Nobody]
    /\ UNCHANGED <<tables, bounds, asked, owed, history>>

Handles(w) == swapmq_[w] # <<>>

\* The service of a message to m.receiver: the one of the previous message, or the one
\* in the table, or null.
Found(w, m) ==
    IF ser[w] # Nobody /\ ser[w] = m.receiver THEN ser[w]
    ELSE IF m.receiver \in Here(w) THEN m.receiver ELSE Nobody

Handled(w) == swapmq_' = [swapmq_ EXCEPT ![w] = Tail(@)]

\* The services of the worker w whose callback sees the broadcast m.
Listeners(w, m) == Here(w) \ (Mute \cup {m.sender})

\* Faulty variant: a redirected broadcast is sent on.
HandleBroadcastRedirects(w) ==
    LET m == Head(swapmq_[w])
    IN  /\ Handles(w)
        /\ m.broadcast # 0
        /\ Handled(w)
        /\ heard' = [heard EXCEPT ![m.broadcast] =
               [s \in Services |-> IF s \in Listeners(w, m) THEN @[s] + 1 ELSE @[s]]]
        /\ \E r \in Services :
               IF twists < MaxTwists
               THEN /\ twists' = twists + 1
                    /\ mq_' = Sent(mq_, [m EXCEPT !.receiver = r])
               ELSE UNCHANGED <<twists, mq_>>
        /\ UNCHANGED <<ser, tables, sends, asked, owed, got, again, lost, speakers, resent>>

\* handle_one, a broadcast: to every service of the worker but the sender.  A callback
\* may fail or try to redirect it, which is logged.
HandleBroadcast(w) ==
    LET m == Head(swapmq_[w])
    IN  /\ Handles(w)
        /\ m.broadcast # 0
        /\ Handled(w)
        /\ heard' = [heard EXCEPT ![m.broadcast] =
               [s \in Services |-> IF s \in Listeners(w, m) THEN @[s] + 1 ELSE @[s]]]
        /\ UNCHANGED <<mq_, ser, tables, bounds, asked, owed>>
        /\ UNCHANGED <<got, again, lost, speakers, resent>>

\* The same, when the callback of s calls resend() and makes itself the sender, without
\* a session (with one, every service behind s would take it for a request).  The message
\* goes nowhere, but its sender is not skipped any more if the table has it behind s.
HandleBroadcastResent(w) ==
    LET m == Head(swapmq_[w])
    IN  /\ Handles(w)
        /\ m.broadcast # 0
        /\ twists < MaxTwists
        /\ \E s \in Listeners(w, m), late \in SUBSET {m.sender} :
               /\ late \subseteq Here(w) \ Mute
               /\ heard' = [heard EXCEPT ![m.broadcast] =
                      [t \in Services |-> IF t \in Listeners(w, m) \cup late
                                          THEN @[t] + 1 ELSE @[t]]]
        /\ Handled(w)
        /\ twists' = twists + 1
        /\ resent' = resent \cup {m.broadcast}
        /\ UNCHANGED <<mq_, ser, tables, sends, asked, owed, got, again, lost, speakers>>

\* Faulty variant: the error goes to the service that is not there.
HandleDeadToReceiver(w) ==
    LET m == Head(swapmq_[w])
    IN  /\ Handles(w)
        /\ m.broadcast = 0
        /\ Found(w, m) = Nobody
        /\ Handled(w)
        /\ ser' = [ser EXCEPT ![w] = Nobody]
        /\ mq_' = Response(mq_, m.receiver, -m.session)
        /\ UNCHANGED <<tables, bounds, asked, owed, history>>

\* handle_one, no such service: the sender is told, under the number negated.
HandleDead(w) ==
    LET m == Head(swapmq_[w])
    IN  /\ Handles(w)
        /\ m.broadcast = 0
        /\ Found(w, m) = Nobody
        /\ Handled(w)
        /\ ser' = [ser EXCEPT ![w] = Nobody]
        /\ mq_' = IF m.sender # Nobody THEN Response(mq_, m.sender, -m.session) ELSE mq_
        /\ UNCHANGED <<tables, bounds, asked, owed, history>>

\* handle_one finds the service s of the message m.
Finds(w, s, m) ==
    /\ Handles(w)
    /\ m = Head(swapmq_[w])
    /\ m.broadcast = 0
    /\ s = Found(w, m)
    /\ s # Nobody
    /\ Handled(w)
    /\ ser' = [ser EXCEPT ![w] = s]
    /\ UNCHANGED <<tables, speakers, heard, resent>>

IsAnswer(m) == m.session > 0 /\ ~m.forwarded

\* dispatch without a callback: the message is dropped with a line in the log.
DispatchMute(w, s, m) ==
    /\ Finds(w, s, m)
    /\ s \in Mute
    /\ lost' = IF IsRequest(m) THEN lost \cup {RequestOf(m)} ELSE lost
    /\ UNCHANGED <<mq_, bounds, asked, owed, got, again>>

\* dispatch runs the callback, which sees an answer that its script may have asked for.
Dispatches(w, s, m) ==
    /\ Finds(w, s, m)
    /\ s \notin Mute
    /\ got' = IF IsAnswer(m) /\ ~m.second
              THEN [got EXCEPT ![s][m.session] = @ + 1] ELSE got
    /\ again' = IF IsAnswer(m) /\ m.second
                THEN [again EXCEPT ![s][m.session] = @ + 1] ELSE again

\* The callback takes up a request: it keeps it for later, or answers it.
Keeps(s, m) == [owed EXCEPT ![s] = @ \cup {RequestOf(m)}]
Answer(s, m) == Mail(s, m.sender, -m.session)

\* The callback succeeds, and has taken up a request.
DispatchOk(w, s, m) ==
    /\ Dispatches(w, s, m)
    /\ IF IsRequest(m)
       THEN \/ owed' = Keeps(s, m) /\ UNCHANGED mq_
            \/ mq_' = Sent(mq_, Answer(s, m)) /\ UNCHANGED owed
       ELSE UNCHANGED <<mq_, owed>>
    /\ UNCHANGED <<bounds, asked, lost>>

\* Faulty variant: the error is logged and not sent.
DispatchFailsSilently(w, s, m) ==
    /\ Dispatches(w, s, m)
    /\ UNCHANGED <<mq_, owed, bounds, asked, lost>>

\* The callback fails before it takes up a request: its sender is told.
DispatchFails(w, s, m) ==
    /\ Dispatches(w, s, m)
    /\ mq_' = IF m.session >= 0 THEN mq_ ELSE Response(mq_, m.sender, -m.session)
    /\ UNCHANGED <<owed, bounds, asked, lost>>

\* The error that dispatch sends for a request that was taken up.
SecondError(m) == [Mail(Nobody, m.sender, -m.session) EXCEPT !.second = TRUE]

\* The callback fails after it has taken up a request.  Its sender is told all the same,
\* behind the answer or ahead of it.
DispatchFailsLate(w, s, m) ==
    /\ Dispatches(w, s, m)
    /\ IsRequest(m)
    /\ twists < MaxTwists
    /\ twists' = twists + 1
    /\ \/ owed' = Keeps(s, m) /\ mq_' = Sent(mq_, SecondError(m))
       \/ mq_' = Sent(Sent(mq_, Answer(s, m)), SecondError(m)) /\ UNCHANGED owed
    /\ UNCHANGED <<sends, asked, lost>>

\* handle_message sends a message on whose receiver is another one after the callback.
DispatchRedirects(w, s, m, r) ==
    LET f == [m EXCEPT !.receiver = r, !.forwarded = m.session > 0]
    IN  /\ twists < MaxTwists
        /\ r # s
        /\ Dispatches(w, s, m)
        /\ twists' = twists + 1
        /\ mq_' = Sent(mq_, f)
        /\ lost' = lost \cup LostWith(f)
        /\ UNCHANGED <<sends, asked, owed>>

\* Faulty variant: the number of the message that is sent on is left as it was.
DispatchRedirectsAndFailsUnturned(w, s, m, r) ==
    LET f == [m EXCEPT !.receiver = r, !.forwarded = m.session > 0]
    IN  /\ twists < MaxTwists
        /\ r # s
        /\ Dispatches(w, s, m)
        /\ twists' = twists + 1
        /\ mq_' = IF m.session >= 0 THEN Sent(mq_, f)
                  ELSE Sent(Response(mq_, m.sender, -m.session), f)
        /\ UNCHANGED <<sends, asked, owed, lost>>

\* The callback redirects and then fails.  The sender of a request is told, and the
\* request, whose number dispatch has negated for that, goes on as an answer.
DispatchRedirectsAndFails(w, s, m, r) ==
    LET f == [m EXCEPT !.receiver = r, !.session = IF @ < 0 THEN -@ ELSE @,
                       !.forwarded = m.session # 0]
    IN  /\ twists < MaxTwists
        /\ r # s
        /\ Dispatches(w, s, m)
        /\ twists' = twists + 1
        /\ mq_' = IF m.session >= 0 THEN Sent(mq_, f)
                  ELSE Sent(Response(mq_, m.sender, -m.session), f)
        /\ UNCHANGED <<sends, asked, owed, lost>>

\* resend() in a callback: the message goes on to r as a request of s of its own, and a
\* request that it was is kept.  (One that goes back as the answer is DispatchOk's.)
DispatchResends(w, s, m, r) ==
    LET f == Mail(s, r, -(asked[s] + 1))
    IN  /\ sends < MaxSends
        /\ twists < MaxTwists
        /\ r # s
        /\ Dispatches(w, s, m)
        /\ sends' = sends + 1
        /\ twists' = twists + 1
        /\ asked' = [asked EXCEPT ![s] = @ + 1]
        /\ owed' = IF IsRequest(m) THEN Keeps(s, m) ELSE owed
        /\ mq_' = Sent(mq_, f)
        /\ lost' = lost \cup LostWith(f)

\* The callback resends and then fails.  The error goes to the sender the message has by
\* then, which is s, and the message goes on as an answer; who sent it is not told, and is
\* forgotten unless the callback has taken up the request.
DispatchResendsAndFails(w, s, m, r) ==
    LET n == asked[s] + 1
        Gone(q) == Sent(Response(q, s, n), [Mail(s, r, n) EXCEPT !.forwarded = TRUE])
    IN  /\ sends < MaxSends
        /\ twists < MaxTwists
        /\ r # s
        /\ Dispatches(w, s, m)
        /\ sends' = sends + 1
        /\ twists' = twists + 1
        /\ asked' = [asked EXCEPT ![s] = n]
        /\ IF IsRequest(m)
           THEN \/ /\ mq_' = Gone(mq_)
                   /\ lost' = lost \cup {RequestOf(m)}
                   /\ UNCHANGED owed
                \/ /\ mq_' = Gone(mq_)
                   /\ owed' = Keeps(s, m)
                   /\ UNCHANGED lost
                \/ /\ mq_' = Gone(Sent(mq_, Answer(s, m)))
                   /\ UNCHANGED <<owed, lost>>
           ELSE mq_' = Gone(mq_) /\ UNCHANGED <<owed, lost>>

Handle(w) ==
    LET m == Head(swapmq_[w])
        s == Found(w, m)
    IN  /\ Handles(w)
        /\ \/ HandleBroadcast(w)
           \/ HandleBroadcastResent(w)
           \/ HandleDead(w)
           \/ DispatchMute(w, s, m)
           \/ DispatchOk(w, s, m)
           \/ DispatchFails(w, s, m)
           \/ DispatchFailsLate(w, s, m)
           \/ \E r \in Services :
                  \/ DispatchRedirects(w, s, m, r)
                  \/ DispatchRedirectsAndFails(w, s, m, r)
                  \/ DispatchResends(w, s, m, r)
                  \/ DispatchResendsAndFails(w, s, m, r)

-----------------------------------------------------------------------------
(* The other tasks of a worker that matter here. *)

\* s leaves its worker, and what its script owes is lost; q is mq_ after the answer to
\* whoever asked for it.  The workers are told.
Leave(s, q) ==
    /\ alive' = alive \ {s}
    /\ lost' = lost \cup owed[s]
    /\ owed' = [owed EXCEPT ![s] = {}]
    /\ Broadcast(s, q)

\* Faulty variant: a service that quits is removed in the middle of a drain task.
QuitAtOnce(s) ==
    /\ s \in alive
    /\ Leave(s, mq_)
    /\ UNCHANGED <<swapmq_, ser, removals, exited, bounds, asked, got, again, heard, resent>>

\* The remove task of a service that quits, which answers nobody.
Quit(s) ==
    /\ s \in alive
    /\ Between(WorkerOf[s])
    /\ Leave(s, mq_)
    /\ UNCHANGED <<swapmq_, ser, removals, exited, bounds, asked, got, again, heard, resent>>

\* The remove task x of a script, which answers it one way or the other.
RemoveTask(x) ==
    LET w == WorkerOf[x.id]
        q == Response(mq_, x.request.from, x.request.n)
    IN  /\ w \notin exited
        /\ Between(w)
        /\ removals' = removals \ {x}
        /\ IF x.id \in alive
           THEN Leave(x.id, q)
           ELSE mq_' = q /\ UNCHANGED <<alive, lost, owed, speakers>>
        /\ UNCHANGED <<swapmq_, ser, exited, bounds, asked, got, again, heard, resent>>

\* stop's task, or the last removal, on a worker without services.
Exit(w) ==
    /\ w \notin exited
    /\ Between(w)
    /\ Here(w) = {}
    /\ exited' = exited \cup {w}
    /\ UNCHANGED <<mq_, swapmq_, ser, alive, removals, bounds, asked, owed, history>>

Next ==
    \/ \E s \in Services :
           \/ \E r \in Services :
                  ScriptNotify(s, r) \/ ScriptAsk(s, r) \/ ScriptRemove(s, r)
           \/ \E q \in owed[s] : ScriptAnswer(s, q)
           \/ ScriptBroadcast(s) \/ ScriptBroadcastNothing(s)
           \/ Quit(s)
    \/ \E x \in removals : RemoveTask(x)
    \/ \E w \in Workers : Swap(w) \/ Handle(w) \/ Exit(w)

\* The workers' loops run.
Spec == Init /\ [][Next]_vars /\ \A w \in Workers : WF_vars(Swap(w) \/ Handle(w))

-----------------------------------------------------------------------------
(* Properties. *)

\* Every variable has its type: nobody owes an answer to nobody.
TypeOK ==
    /\ mq_ \in [Workers -> Seq(Message)]
    /\ swapmq_ \in [Workers -> Seq(Message)]
    /\ ser \in [Workers -> Services \cup {Nobody}]
    /\ alive \subseteq {s \in Services : workerid_valid(WorkerOf[s])}
    /\ removals \subseteq Removal
    /\ exited \subseteq Workers
    /\ sends \in 0..MaxSends
    /\ twists \in 0..MaxTwists
    /\ asked \in [Services -> 0..MaxSends]
    /\ owed \in [Services -> SUBSET Request]
    /\ got \in [Services -> [Sessions -> Nat]]
    /\ again \in [Services -> [Sessions -> Nat]]
    /\ lost \subseteq Request
    /\ speakers \in Seq(Services)
    /\ heard \in [1..MaxBroadcasts -> [Services -> Nat]]
    /\ resent \subseteq 1..MaxBroadcasts

\* What is on its way to the worker w, in order.
Under(w) == swapmq_[w] \o mq_[w]

\* The service of the previous message is still in the table while its drain task runs.
SerIsThere == \A w \in Workers : Handles(w) /\ ser[w] # Nobody => ser[w] \in Here(w)

\* Where the answers to request n of the service s are under way to it.
Answers(s, n) ==
    LET u == Under(WorkerOf[s])
    IN  {i \in 1..Len(u) : u[i].receiver = s /\ u[i].session = n /\ ~u[i].forwarded}

\* How many they are, second errors apart, and how many second errors.
Coming(s, n) == Cardinality({i \in Answers(s, n) : ~Under(WorkerOf[s])[i].second})
ComingAgain(s, n) == Cardinality({i \in Answers(s, n) : Under(WorkerOf[s])[i].second})

\* A request is answered once, by the service it reached last or by the runtime, even
\* when a callback redirects it and fails.  But dispatch sends an error as well for a
\* request that a callback has answered or kept before it fails: then there is one answer
\* more, and never two more.  No answer comes that was not asked for, unless a script
\* sends one on.
AnsweredOnce ==
    \A s \in alive : \A n \in Sessions :
        /\ Coming(s, n) + got[s][n] <= IF n <= asked[s] THEN 1 ELSE 0
        /\ ComingAgain(s, n) + again[s][n] <= IF n <= asked[s] THEN 1 ELSE 0

\* No request is forgotten: it is queued (for ever, if the worker has exited), kept by the
\* script of a service, answered, or was dropped with a line in the log, with the service
\* that kept it, or by a callback that resent it and failed.
NoRequestForgotten ==
    \A s \in alive : \A n \in 1..asked[s] :
        \/ \E w \in Workers : \E i \in 1..Len(Under(w)) :
               IsRequest(Under(w)[i]) /\ RequestOf(Under(w)[i]) = [from |-> s, n |-> n]
        \/ \E x \in removals : x.request = [from |-> s, n |-> n]
        \/ \E t \in alive : [from |-> s, n |-> n] \in owed[t]
        \/ Coming(s, n) > 0
        \/ got[s][n] > 0
        \/ [from |-> s, n |-> n] \in lost

\* A service hears a broadcast at most once, and never its own, unless a callback makes
\* somebody else the sender.
BroadcastOnce ==
    \A b \in 1..Len(speakers) : \A s \in Services :
        heard[b][s] <= IF s = speakers[b] /\ b \notin resent THEN 0 ELSE 1

\* The runtime's errors do not beget errors for ever: when the scripts are done sending,
\* the queues of all workers that have not exited run empty.
RunsDry == <>[](\A w \in Workers \ exited : Under(w) = <<>>)
=============================================================================
