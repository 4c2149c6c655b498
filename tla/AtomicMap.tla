------------------------------ MODULE AtomicMap ------------------------------
(***************************************************************************)
(* What the router's shared maps promise their users, for one entry: a     *)
(* call of get_env, get_unique_service, set_env or set_unique_service      *)
(* takes effect at one instant between its beginning and its return, and   *)
(* its answer is that of this instant.  ConcurrentMap implements it.       *)
(***************************************************************************)

CONSTANTS Threads, Nobody, Pending

VARIABLES
    entry,      \* who stored the entry last, or Nobody: it does not exist
    call,       \* the operation each thread is in
    answer      \* what the operation will return, Pending until it takes effect

vars == <<entry, call, answer>>

Operations == {"try_get_value", "try_set", "set"}

Init ==
    /\ entry = Nobody
    /\ call = [t \in Threads |-> "none"]
    /\ answer = [t \in Threads |-> Pending]

Call(t, op) ==
    /\ call[t] = "none"
    /\ call' = [call EXCEPT ![t] = op]
    /\ UNCHANGED <<entry, answer>>

Answer(t, a) == answer[t] = Pending /\ answer' = [answer EXCEPT ![t] = a]

Get(t) ==
    /\ call[t] = "try_get_value"
    /\ Answer(t, entry)
    /\ UNCHANGED <<entry, call>>

\* The first one to set the entry is told so, all others that they did not.
TrySet(t) ==
    /\ call[t] = "try_set"
    /\ Answer(t, IF entry = Nobody THEN "stored" ELSE "refused")
    /\ entry' = IF entry = Nobody THEN t ELSE entry
    /\ UNCHANGED call

Set(t) ==
    /\ call[t] = "set"
    /\ Answer(t, "stored")
    /\ entry' = t
    /\ UNCHANGED call

Return(t) ==
    /\ answer[t] # Pending
    /\ call' = [call EXCEPT ![t] = "none"]
    /\ answer' = [answer EXCEPT ![t] = Pending]
    /\ UNCHANGED entry

Next ==
    \E t \in Threads :
        \/ \E op \in Operations : Call(t, op)
        \/ Get(t) \/ TrySet(t) \/ Set(t) \/ Return(t)

Spec == Init /\ [][Next]_vars
=============================================================================
