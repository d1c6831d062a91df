--------------------------- MODULE TimerService ---------------------------
(***************************************************************************)
(* What create_timer/4 and delete_timer/1 promise, without the array: a    *)
(* set of armed timers, each of which is due from its expiry on.  A due    *)
(* one-time timer leaves the set when it is delivered, a due repeating one *)
(* is armed again; an armed timer leaves for no other reason than its      *)
(* delivery, a delete_timer of its creator or the exit of its creator.     *)
(***************************************************************************)
EXTENDS Naturals

CONSTANTS
    Threads,      \* the threads that create timers
    Deltas,       \* the delays a caller asks for
    TimerIds,     \* the ids timers are given
    OneTimeFlags  \* the values callers give to the argument OneTime

VARIABLES
    armed,        \* the set of armed timers
    now           \* the clock

vars == <<armed, now>>

Due == {t \in armed : t.time <= now}

\* A repeating timer starts its next period when it is delivered.
Rearmed(t) == [t EXCEPT !.time = now + t.delta]

Init == armed = {} /\ now = 0

Create == \E th \in Threads, d \in Deltas, ot \in OneTimeFlags, id \in TimerIds :
            /\ \A t \in armed : t.id # id
            /\ armed' = armed \union {[thread |-> th, time |-> now + d, id |-> id,
                                       delta |-> d, one_time |-> ot]}
            /\ UNCHANGED now

Delete == \E t \in armed : armed' = armed \ {t} /\ UNCHANGED now

Exit == \E th \in Threads :
            armed' = {t \in armed : t.thread # th} /\ UNCHANGED now

Deliver == /\ Due # {}
           /\ armed' = (armed \ Due)
                         \union {Rearmed(t) : t \in {u \in Due : ~u.one_time}}
           /\ UNCHANGED now

Tick == now' > now /\ UNCHANGED armed

Next == Create \/ Delete \/ Exit \/ Deliver \/ Tick

Spec == Init /\ [][Next]_vars
=============================================================================
