------------------------------ MODULE HashTable ------------------------------
(***************************************************************************)
(* The open hash table of the runtime (dynamic_hash_table.h).  A collision *)
(* is resolved by probing at triangular distances, a removed entry is kept *)
(* as a mark until it is overwritten or the table is resized.              *)
(*                                                                         *)
(* A table is a record: its entries at 0 .. size - 1 and the count that    *)
(* decides when it is resized.  An entry has a key, the hash of the key    *)
(* and a value.                                                            *)
(***************************************************************************)
EXTENDS Integers, FiniteSets, FiniteSetsExt

Empty == [full |-> FALSE]
Entry(key, hash, value) ==
    [full |-> TRUE, removed |-> FALSE, key |-> key, hash |-> hash, value |-> value]

\* No odd number but 1 divides a power of 2.
IsPower2(p) == \A d, q \in 1 .. p : d * q = p => d = 1 \/ d % 2 = 0

\* next_2power: the power of 2 that is at least twice n, and less than 4 * n.
NextPower2(n) == CHOOSE p \in 2 * n .. 4 * n - 1 : IsPower2(p)

New(n) == [size |-> n, used |-> 0, at |-> [i \in 0 .. n - 1 |-> Empty]]

\* The k-th place that is looked at for a key with that hash.
Probe(t, hash, k) == (hash + (k * (k + 1)) \div 2) % t.size

\* The first of some places, -1 if the search goes round and meets none.
First(t, hash, ends) ==
    LET ks == {k \in 0 .. t.size - 1 : Probe(t, hash, k) \in ends} IN
    IF ks = {} THEN -1 ELSE Probe(t, hash, Min(ks))

Live(e)      == e.full /\ ~e.removed
Holds(e, key) == Live(e) /\ e.key = key

NeverUsed(t)   == {i \in DOMAIN t.at : ~t.at[i].full}
NotLive(t)     == {i \in DOMAIN t.at : ~Live(t.at[i])}
Having(t, key) == {i \in DOMAIN t.at : Holds(t.at[i], key)}

\* A bug the next definition avoids: the search ends at a removed entry.
Search_stops(t, key, hash) ==
    LET i == First(t, hash, NotLive(t) \union Having(t, key)) IN
    IF i # -1 /\ Live(t.at[i]) THEN i ELSE -1

Search(t, key, hash) ==
    LET i == First(t, hash, NeverUsed(t) \union Having(t, key)) IN
    IF i # -1 /\ t.at[i].full THEN i ELSE -1

\* Where an entry may be put; -1: the table was cycled through, and the process
\* is aborted.
Free(t, hash) == First(t, hash, NotLive(t))

Put(t, e) == [t EXCEPT !.used = @ + 1, !.at[Free(t, e.hash)] = e]

\* Every entry that is not removed is inserted in a new table, in their order.
Resize(t, n) ==
    LET moved[i \in 0 .. t.size] ==
            IF i = 0 THEN New(n)
            ELSE LET m == moved[i - 1]
                     e == t.at[i - 1] IN
                 IF Live(e) THEN Put(m, e) ELSE m IN
    moved[t.size]

Marked(t) == \E i \in DOMAIN t.at : t.at[i].full /\ t.at[i].removed

Resized(t) ==
    IF 2 * t.used <= t.size THEN t
    ELSE Resize(t, IF Marked(t) THEN t.size ELSE NextPower2(t.size))

\* insert, of a key that is not in the table.  The table may have to be resized
\* twice, to lose the removed entries and to grow; before either a free place is
\* looked for, which a table with two places may not have.
Insert(t, e) == Put(Resized(Resized(t)), e)

\* remove; makeRemoved alone leaves the count as it is.
MakeRemoved(t, i) == [t EXCEPT !.at[i].removed = TRUE]
Removed(t, i)     == [MakeRemoved(t, i) EXCEPT !.used = @ - 1]

-----------------------------------------------------------------------------
(* What the operations rely on.                                            *)

Keys(t) == {t.at[i].key : i \in {j \in DOMAIN t.at : Live(t.at[j])}}

\* Every key of the table is found, at a place of its own.
Sound(t) ==
    \A i \in DOMAIN t.at : Live(t.at[i]) => Search(t, t.at[i].key, t.at[i].hash) = i

\* Whatever is inserted next finds a place, in the table as it is and whenever it
\* has been resized, so no insertion aborts the process.
Open(t) ==
    \A r \in {t, Resized(t), Resized(Resized(t))} :
        \A hash \in DOMAIN r.at : Free(r, hash) # -1
=============================================================================
