------------------------------- MODULE Mailbox -------------------------------
(***************************************************************************)
(* What the message queue of a thread promises: every thread has a box of  *)
(* the messages sent to it, a receive takes the oldest of its kind out of  *)
(* it once and for all, and a box is given up with its thread.             *)
(***************************************************************************)
EXTENDS Integers, FiniteSets

CONSTANTS Threads, Kinds

VARIABLES
    sent,  \* the number of messages sent, which numbers them
    kind,  \* kind[m]: what is in message m
    alive, \* the threads that have not exited
    box    \* box[t]: the messages that wait for t

vars == <<sent, kind, alive, box>>

Init ==
    /\ sent = 0
    /\ alive = Threads
    /\ box = [t \in Threads |-> {}]

Post(to, k) ==
    /\ to # {}
    /\ to \subseteq alive
    /\ sent' = sent + Cardinality(to)
    /\ \A m \in DOMAIN kind : kind'[m] = IF m \in sent + 1 .. sent' THEN k ELSE kind[m]
    /\ \E number \in [to -> sent + 1 .. sent'] :
        /\ \A s, t \in to : s # t => number[s] # number[t]
        /\ box' = [t \in Threads |-> IF t \in to THEN box[t] \union {number[t]} ELSE box[t]]
    /\ UNCHANGED alive

Take(t, m) ==
    /\ m \in box[t]
    /\ \A k \in box[t] : kind[k] = kind[m] => m <= k
    /\ box' = [box EXCEPT ![t] = @ \ {m}]
    /\ UNCHANGED <<sent, kind, alive>>

Leave(t) ==
    /\ alive' = alive \ {t}
    /\ box' = [box EXCEPT ![t] = {}]
    /\ UNCHANGED <<sent, kind>>

Next ==
    \/ \E k \in Kinds : (\E t \in Threads : Post({t}, k)) \/ Post(alive, k)
    \/ \E t \in Threads : Leave(t) \/ \E m \in box[t] : Take(t, m)

Spec == Init /\ [][Next]_vars
=============================================================================
