----------------------------- MODULE TimerWheel -----------------------------
(***************************************************************************)
(* The timers of one worker: the hierarchical wheel of common/timer.hpp    *)
(* and the table of timers on top of it (core/worker_timer.hpp), with the  *)
(* callback that worker::init gives it.  All of it runs on the worker's    *)
(* thread; what interleaves is the scripts, which create and remove timers *)
(* between two ticks and, inside a tick, from the very callback the wheel  *)
(* is making.                                                              *)
(*                                                                         *)
(* Time is counted in ticks of the wheel: update() turns the milliseconds  *)
(* that have passed into ticks, and when the next tick comes is open.      *)
(* Timers of the same slot expire in any order (the code's order depends   *)
(* on how often a key has been cascaded).                                  *)
(***************************************************************************)
EXTENDS Integers, FiniteSetsExt, Functions

CONSTANTS
    WHEEL_SIZE,         \* slots per wheel (255 in the code)
    Wheels,             \* number of wheels (4 in the code)
    PRECISION,          \* milliseconds per tick (10 in the code)
    IntMax,             \* the largest int32_t
    MAX_TIMER_NUM,      \* where the numbering of timers starts over (2^24 - 1)
    IdRange,            \* timer numbers are modulo IdRange (2^32, a uint32_t)
    Durations,          \* the durations scripts ask for, in milliseconds
    Times,              \* the repetitions scripts ask for; 0 is for ever
    Services,           \* the services of the worker
    MaxTimers           \* bound: timers in the table at once

ASSUME WheelAssumption ==
    /\ WHEEL_SIZE \in Nat \ {0, 1}
    /\ Wheels \in Nat \ {0}
    /\ IntMax \in Nat
    /\ PRECISION \in 1..IntMax
    /\ MAX_TIMER_NUM \in Nat \ {0}
    /\ IdRange \in Nat /\ IdRange > MAX_TIMER_NUM
    /\ Durations \subseteq 0..IntMax
    /\ Times \subseteq Nat
    /\ MaxTimers \in Nat /\ MaxTimers <= IdRange

Levels == 0..(Wheels - 1)

\* How many ticks a slot of wheel i lasts.
SlotTicks[i \in 0..Wheels] == IF i = 0 THEN 1 ELSE WHEEL_SIZE * SlotTicks[i - 1]

\* No int32_t of milliseconds is beyond the last wheel.
ASSUME RangeAssumption == IntMax \div PRECISION < SlotTicks[Wheels]

Slots == 0..(WHEEL_SIZE - 1)

TimerId == 0..(IdRange - 1)

\* make_key: the timer and its slot in every wheel.
Key == [id : TimerId, slot : [Levels -> Slots]]

VARIABLES
    head_,      \* the next slot of each wheel
    wheels_,    \* the keys in each slot of each wheel
    timers_,    \* the table: duration, repetitions left, flags and owner of each timer
    uuid_,      \* the number the next timer gets if it is free
    alive,      \* the services that still exist
    pc,         \* "idle", or where update() is inside a tick
    slot,       \* the slot of wheel 0 whose list the tick is expiring
    level,      \* the wheel the tick is cascading into
    cur,        \* the timer whose callback runs
    due,        \* history: ticks until each timer should expire, -1 when overdue
    lost,       \* history: timers whose key was put nowhere
    wrapped     \* history: timers put back or made while wheel 0 had turned over and
                \* the cascade had not been done yet, for a full turn or more

wheelVars == <<head_, wheels_>>
tickVars == <<pc, slot, level, cur>>
vars == <<wheelVars, timers_, uuid_, alive, tickVars, due, lost, wrapped>>

Init ==
    /\ head_ = [i \in Levels |-> 0]
    /\ wheels_ = [i \in Levels |-> [s \in Slots |-> {}]]
    /\ timers_ = <<>>
    /\ uuid_ = 0
    /\ alive = Services
    /\ pc = "idle"
    /\ slot = 0
    /\ level = 0
    /\ cur = 0
    /\ due = <<>>
    /\ lost = {}
    /\ wrapped = {}

Live == DOMAIN timers_

-----------------------------------------------------------------------------
(* insert_timer() *)

\* The duration in ticks: rounded up, and at least one.
TicksOf(duration) ==
    LET n == (IF duration % PRECISION > 0 THEN duration + PRECISION ELSE duration)
                 \div PRECISION
    IN  IF n > 0 THEN n ELSE 1

\* Rounding up overflows the int32_t: the number of slots becomes huge, no wheel is
\* large enough, and the key is put nowhere.
Overflows(duration) == duration % PRECISION > 0 /\ duration + PRECISION > IntMax

\* slot_count when the loop reaches wheel i, for a timer of n ticks.
SlotCount(n) ==
    LET c[i \in Levels] ==
            IF i = 0 THEN n + head_[0]
            ELSE (c[i - 1] - 1) \div WHEEL_SIZE + head_[i]
    IN  c

\* Faulty variant: the timer's slots do not count from where the wheel is.
KeyFromZero(id, n) ==
    [id |-> id,
     slot |-> [i \in Levels |-> ((n - 1) \div SlotTicks[i]) % WHEEL_SIZE]]

\* make_key() with the slots the loop of insert_timer() computes.
KeyOf(id, n) ==
    [id |-> id, slot |-> [i \in Levels |-> (SlotCount(n)[i] - 1) % WHEEL_SIZE]]

\* The wheels on which a timer of n ticks comes up within what is left of a turn.
LevelsOf(n) == {i \in Levels : SlotCount(n)[i] <= WHEEL_SIZE}

\* The loop runs out of wheels: the rounding has overflowed, or the timer comes up
\* after the last wheel has turned over.
IsLost(duration) == Overflows(duration) \/ LevelsOf(TicksOf(duration)) = {}

\* The wheels with the key put in, on the lowest wheel that reaches far enough.
Inserted(id, duration) ==
    LET key == KeyOf(id, TicksOf(duration))
        i   == Min(LevelsOf(TicksOf(duration)))
    IN  IF IsLost(duration) THEN wheels_
        ELSE [wheels_ EXCEPT ![i][key.slot[i]] = @ \cup {key}]

LostWith(id, duration) == IF IsLost(duration) THEN lost \cup {id} ELSE lost \ {id}

\* Wheel 0 has turned over in this tick and the next slot of wheel 1 has not been
\* cascaded yet, so that heads and wheels are out of step.
OutOfStep == pc # "idle" /\ head_[0] = 0

WrapsWith(id, duration) ==
    IF OutOfStep /\ TicksOf(duration) >= WHEEL_SIZE THEN wrapped \cup {id}
                                                    ELSE wrapped \ {id}

-----------------------------------------------------------------------------
(* worker_timer, as scripts call it. *)

\* A script runs between two ticks, or in the callback of a tick.
ScriptRuns == pc = "idle" \/ (pc \in {"callback", "final"} /\ timers_[cur].owner \in alive)

\* The first number from uuid_ on that is not taken.  The numbers start over behind
\* MAX_TIMER_NUM, unless they skip it because a timer still has it.
FirstFree(taken) ==
    LET from  == IF uuid_ \in {0, MAX_TIMER_NUM} THEN 1 ELSE uuid_
        id(i) == (from + i) % IdRange
    IN  id(CHOOSE i \in 0..(IdRange - 1) :
               id(i) \notin taken /\ \A j \in 0..(i - 1) : id(j) \in taken)

\* Faulty variant: timers that were removed and have not expired give up their number.
FreshIdOfRemoved == FirstFree({id \in Live : ~timers_[id].removed})

\* create_timerid()
FreshId == FirstFree(Live)

\* repeat()
Repeat(duration, times, owner) ==
    LET id == FreshId
        d  == IF duration < PRECISION THEN PRECISION ELSE duration
    IN  /\ ScriptRuns
        /\ owner \in alive
        /\ Cardinality(Live) < MaxTimers
        /\ uuid_' = id
        /\ wheels_' = Inserted(id, d)
        /\ timers_' = [i \in Live \cup {id} |->
               IF i = id THEN [duration |-> d, times |-> times, removed |-> FALSE,
                               infinite |-> times <= 0, owner |-> owner]
                         ELSE timers_[i]]
        /\ due' = [i \in Live \cup {id} |-> IF i = id THEN TicksOf(d) ELSE due[i]]
        /\ lost' = LostWith(id, d)
        /\ wrapped' = WrapsWith(id, d)
        /\ UNCHANGED <<head_, alive, tickVars>>

\* remove(): the timer only gets a flag, and leaves the table when it expires.
Remove(id) ==
    /\ ScriptRuns
    /\ id \in Live
    /\ timers_' = [timers_ EXCEPT ![id].removed = TRUE]
    /\ UNCHANGED <<wheelVars, uuid_, alive, tickVars, due, lost, wrapped>>

\* The worker destroys a service and leaves its timers behind.
DestroyService(s) ==
    /\ pc = "idle"
    /\ s \in alive
    /\ alive' = alive \ {s}
    /\ UNCHANGED <<wheelVars, timers_, uuid_, tickVars, due, lost, wrapped>>

-----------------------------------------------------------------------------
(* update() *)

\* One tick: take the front list of wheel 0 and move on.
Tick ==
    /\ pc = "idle"
    /\ slot' = head_[0]
    /\ head_' = [head_ EXCEPT ![0] = (@ + 1) % WHEEL_SIZE]
    /\ pc' = "expiring"
    /\ due' = [id \in Live |-> IF due[id] < 0 THEN due[id] ELSE due[id] - 1]
    /\ UNCHANGED <<wheels_, timers_, uuid_, alive, level, cur, lost, wrapped>>

\* Faulty variant: the handler of a service that is gone does nothing.
ExpireOrphan ==
    /\ pc = "expiring"
    /\ \E key \in wheels_[0][slot] :
           /\ wheels_' = [wheels_ EXCEPT ![0][slot] = @ \ {key}]
           /\ IF key.id \in Live
              THEN /\ cur' = key.id
                   /\ pc' = IF timers_[key.id].removed THEN "final" ELSE "callback"
              ELSE UNCHANGED <<cur, pc>>
    /\ UNCHANGED <<head_, timers_, uuid_, alive, slot, level, due, lost, wrapped>>

\* Faulty variant: the key stays in the list.
ExpireWithoutPop ==
    /\ pc = "expiring"
    /\ \E key \in wheels_[0][slot] :
           IF key.id \in Live
           THEN /\ cur' = key.id
                /\ pc' = IF timers_[key.id].removed THEN "final" ELSE "callback"
                /\ timers_' = IF timers_[key.id].owner \in alive THEN timers_
                              ELSE [timers_ EXCEPT ![key.id].removed = TRUE]
           ELSE UNCHANGED <<cur, pc, timers_>>
    /\ UNCHANGED <<wheelVars, uuid_, alive, slot, level, due, lost, wrapped>>

\* expired(): pop the next key and, in on_timer(), call the handler: the plain call,
\* or the last one when the timer was removed.  The handler of a service that is gone
\* removes the timer instead of calling a script.
Expire ==
    /\ pc = "expiring"
    /\ \E key \in wheels_[0][slot] :
           /\ wheels_' = [wheels_ EXCEPT ![0][slot] = @ \ {key}]
           /\ IF key.id \in Live
              THEN /\ cur' = key.id
                   /\ pc' = IF timers_[key.id].removed THEN "final" ELSE "callback"
                   /\ timers_' = IF timers_[key.id].owner \in alive THEN timers_
                                 ELSE [timers_ EXCEPT ![key.id].removed = TRUE]
              ELSE UNCHANGED <<cur, pc, timers_>>
    /\ UNCHANGED <<head_, uuid_, alive, slot, level, due, lost, wrapped>>

\* on_timer() after the plain call, the timer goes on: put it back.
PutBack ==
    /\ pc = "callback"
    /\ timers_[cur].infinite \/ timers_[cur].times > 1
    /\ timers_' = IF timers_[cur].infinite THEN timers_
                  ELSE [timers_ EXCEPT ![cur].times = @ - 1]
    /\ wheels_' = Inserted(cur, timers_[cur].duration)
    /\ due' = [due EXCEPT ![cur] = TicksOf(timers_[cur].duration)]
    /\ lost' = LostWith(cur, timers_[cur].duration)
    /\ wrapped' = WrapsWith(cur, timers_[cur].duration)
    /\ pc' = "expiring"
    /\ cur' = 0
    /\ UNCHANGED <<head_, uuid_, alive, slot, level>>

\* on_timer() after the plain call, the repetitions are used up: the last call.
UseUp ==
    /\ pc = "callback"
    /\ ~timers_[cur].infinite
    /\ timers_[cur].times <= 1
    /\ timers_' = [timers_ EXCEPT ![cur].times = 0]
    /\ pc' = "final"
    /\ UNCHANGED <<wheelVars, uuid_, alive, slot, level, cur, due, lost, wrapped>>

\* on_timer() after the last call: erase the timer.
Erase ==
    /\ pc = "final"
    /\ timers_' = Restrict(timers_, Live \ {cur})
    /\ due' = Restrict(due, Live \ {cur})
    /\ lost' = lost \ {cur}
    /\ wrapped' = wrapped \ {cur}
    /\ pc' = "expiring"
    /\ cur' = 0
    /\ UNCHANGED <<wheelVars, uuid_, alive, slot, level>>

\* The list of the slot is empty: go on to the cascade.
Expired ==
    /\ pc = "expiring"
    /\ wheels_[0][slot] = {}
    /\ pc' = "cascade"
    /\ level' = 0
    /\ slot' = 0
    /\ UNCHANGED <<wheelVars, timers_, uuid_, alive, cur, due, lost, wrapped>>

\* The wheel at level has not turned over, or is the last one: the tick is done.
TickDone ==
    /\ pc = "cascade"
    /\ level = Wheels - 1 \/ head_[level] # 0
    /\ pc' = "idle"
    /\ level' = 0
    /\ UNCHANGED <<wheelVars, timers_, uuid_, alive, slot, cur, due, lost, wrapped>>

\* Faulty variant: the cascade stops after the first wheel.
CascadeOnce ==
    LET up    == level + 1
        front == wheels_[up][head_[up]]
    IN  /\ pc = "cascade"
        /\ level = 0
        /\ Wheels > 1
        /\ head_[level] = 0
        /\ wheels_' = [wheels_ EXCEPT
               ![up][head_[up]] = {},
               ![level] = [s \in Slots |-> @[s] \cup {key \in front : key.slot[level] = s}]]
        /\ head_' = [head_ EXCEPT ![up] = (@ + 1) % WHEEL_SIZE]
        /\ level' = Wheels - 1
        /\ UNCHANGED <<timers_, uuid_, alive, pc, slot, cur, due, lost, wrapped>>

\* The wheel at level has turned over: spread the front list of the next one over it.
Cascade ==
    LET up    == level + 1
        front == wheels_[up][head_[up]]
    IN  /\ pc = "cascade"
        /\ level < Wheels - 1
        /\ head_[level] = 0
        /\ wheels_' = [wheels_ EXCEPT
               ![up][head_[up]] = {},
               ![level] = [s \in Slots |-> @[s] \cup {key \in front : key.slot[level] = s}]]
        /\ head_' = [head_ EXCEPT ![up] = (@ + 1) % WHEEL_SIZE]
        /\ level' = up
        /\ UNCHANGED <<timers_, uuid_, alive, pc, slot, cur, due, lost, wrapped>>

UpdateStep == Tick \/ Expire \/ PutBack \/ UseUp \/ Erase \/ Expired \/ TickDone \/ Cascade

Next ==
    \/ UpdateStep
    \/ \E d \in Durations, n \in Times, s \in Services : Repeat(d, n, s)
    \/ \E id \in Live : Remove(id)
    \/ \E s \in Services : DestroyService(s)

SafeSpec == Init /\ [][Next]_vars

\* server::run goes on posting update events, so time passes and ticks run.
Spec == SafeSpec /\ WF_vars(UpdateStep)

-----------------------------------------------------------------------------
(* Properties. *)

Timer == [duration : 0..IntMax, times : Nat, removed : BOOLEAN, infinite : BOOLEAN,
          owner : Services]

\* Every variable has its type.
TypeOK ==
    /\ head_ \in [Levels -> Slots]
    /\ wheels_ \in [Levels -> [Slots -> SUBSET Key]]
    /\ Live \subseteq TimerId
    /\ \A id \in Live : timers_[id] \in Timer
    /\ uuid_ \in TimerId \cup {0}
    /\ alive \subseteq Services
    /\ pc \in {"idle", "expiring", "callback", "final", "cascade"}
    /\ slot \in Slots
    /\ level \in Levels
    /\ pc \in {"callback", "final"} => cur \in Live
    /\ due \in [Live -> Int]

Keys == UNION {wheels_[i][s] : i \in Levels, s \in Slots}

Places(id) ==
    {p \in Levels \X Slots \X Keys : p[3].id = id /\ p[3] \in wheels_[p[1]][p[2]]}

\* Neither lost nor doubled: every timer of the table has one key in one slot, except
\* while its callback runs; every key in the wheels is that of a timer, so that a number
\* is not given to a new timer while an old key of that number is still around.  Lost
\* are only timers whose duration overflows in the rounding, and some of those that
\* are longer than a turn of all the wheels but the last.
OneKeyPerTimer ==
    /\ \A id \in Live :
           Cardinality(Places(id)) =
               IF id \in lost \/ (pc \in {"callback", "final"} /\ id = cur) THEN 0 ELSE 1
    /\ \A key \in Keys : key.id \in Live
    /\ \A id \in lost :
           \/ Overflows(timers_[id].duration)
           \/ TicksOf(timers_[id].duration) > SlotTicks[Wheels - 1]

\* Never late: between two ticks no timer is overdue.
NeverLate ==
    pc = "idle" => \A id \in Live : due[id] > 0 \/ id \in lost

\* A timer expires in the tick it is due.  The exception are timers of a full turn or
\* more that were set in the callback of a tick that turned wheel 0 over: they expire
\* exactly one turn too early.
EarlyOnlyAfterWrap ==
    pc \in {"callback", "final"} =>
        due[cur] = (IF cur \in wrapped THEN WHEEL_SIZE ELSE 0)

\* "precision ms" (timer.hpp): a timer expires in the tick it is due, always.
Precise == pc \in {"callback", "final"} => due[cur] = 0

\* A callback in the slot before the turn, with a timer of exactly one turn around: such
\* a timer goes back into the list that is being expired, at once and again and again as
\* long as it repeats or the callbacks set it anew.
Spinning ==
    /\ pc \in {"callback", "final"}
    /\ slot = WHEEL_SIZE - 1
    /\ \E id \in Live : TicksOf(timers_[id].duration) = WHEEL_SIZE

\* update() comes back, unless a timer spins.
UpdateReturns == (pc # "idle") ~> (pc = "idle" \/ Spinning)

\* The timers a destroyed service leaves behind disappear from the table, all but
\* the lost ones.
OrphansCollected ==
    \A s \in Services :
        (s \notin alive) ~> (Spinning \/ \A id \in Live \ lost : timers_[id].owner # s)
=============================================================================
