------------------------------- MODULE UserHash -------------------------------
(***************************************************************************)
(* The hash table that programs keep terms in (user_hash_table.cc and its  *)
(* escapes), with the heap that has the terms.  A term that is replaced by *)
(* one that is not larger gives its place to it; when the heap is nearly   *)
(* full the terms of the table are copied to a new one.                    *)
(*                                                                         *)
(* A term is its size, 0 if it is an atom, and a number that tells it from *)
(* every other.  The heap has, at every place, the number of the term that *)
(* was written there last.  A number as second key is a term too, which is *)
(* not copied: from then on the behaviour of the table is undefined.       *)
(***************************************************************************)
EXTENDS HashTable, Sequences

CONSTANTS
    AtomKeys, NumberKeys,   \* the keys, by the kind of their second part
    HashOfKey,              \* their hashes
    HashSize,               \* size of a new hash table
    Sizes,                  \* the sizes of terms
    HeapSize,               \* size of the first heap
    MaxHeap,                \* bound on the size of the heap
    MaxWrites,              \* bound on the insertions
    MaxHash                 \* bound on the size of the hash table

UserKeys == AtomKeys \union NumberKeys

ASSUME HashAssumption ==
    /\ HashOfKey \in [UserKeys -> Nat]
    /\ HashSize \in Nat /\ HashSize >= 2  \* with 1 the second key may find no place
    /\ Sizes \subseteq Nat
    /\ HeapSize \in Nat

VARIABLES
    ht,         \* hash_table
    heap,       \* userhashheap
    garbage,    \* total_garbage
    heapSize,   \* heap_size
    writes,     \* the number of insertions, which numbers the terms
    stored,     \* what the program has stored under each key (a history)
    undefined   \* a key is on a heap that was deleted

hashVars == <<ht, heap, garbage, heapSize, writes, stored, undefined>>

KeySize(key) == IF key \in NumberKeys THEN 1 ELSE 0

\* A value: term n of some size; at is its place, if it has one.
TermAt(n, size, at) == [n |-> n, size |-> size, at |-> at]

\* An entry's value, with the size and place that are noted for it.
Noted(v, size, ptr) == [term |-> v, size |-> size, ptr |-> ptr]

Top(h) == Len(h) + 1
Copied(h, n, size) == h \o [i \in 1 .. size |-> n]

\* Term n written at a place that was in use.
Overwritten(h, n, size, at) == [i \in DOMAIN h |-> IF i \in at .. at + size - 1 THEN n ELSE h[i]]

UserInit ==
    /\ ht = New(NextPower2(HashSize))
    /\ heap = <<>>
    /\ garbage = 0
    /\ heapSize = HeapSize
    /\ writes = 0
    /\ stored = [k \in {} |-> 0]
    /\ undefined = FALSE

\* doGarbageCollection: more than 90% of the heap is in use.
Full == 10 * (Len(heap)) > 9 * heapSize

\* garbageCollect: the values are copied, in the order of the table.
Collected ==
    LET term(i) == ht.at[i].value.term
        to[i \in 0 .. ht.size] ==
            IF i = 0 THEN <<>>
            ELSE IF Live(ht.at[i - 1]) THEN Copied(to[i - 1], term(i - 1).n, term(i - 1).size)
            ELSE to[i - 1]
        value(i) == TermAt(term(i).n, term(i).size, Top(to[i])) IN
    [heap |-> to[ht.size],
     ht |-> [ht EXCEPT !.at = [i \in DOMAIN @ |->
                IF Live(@[i])
                THEN [@[i] EXCEPT !.value = Noted(value(i), term(i).size,
                                                  IF term(i).size = 0 THEN 0 ELSE value(i).at)]
                ELSE @[i]]],
     garbage |-> 0,
     size |-> IF 2 * garbage > heapSize THEN heapSize ELSE 2 * heapSize]

Before ==
    IF Full THEN Collected ELSE [heap |-> heap, ht |-> ht, garbage |-> garbage, size |-> heapSize]

\* The term of an entry is replaced where it is.
InPlace(noted, size) == noted.size >= size /\ size # 0

\* addEntry
AddEntry(key, size) ==
    LET b   == Before
        n   == writes + 1
        h   == Copied(b.heap, -1, KeySize(key))     \* a copy of the key
        i   == Search(b.ht, key, HashOfKey[key])
        old == b.ht.at[i].value
        v   == TermAt(n, size, Top(h)) IN
    /\ heap' = IF i # -1 /\ InPlace(old, size) THEN Overwritten(h, n, size, old.ptr)
               ELSE Copied(h, n, size)
    /\ ht' = IF i = -1
             THEN Insert(b.ht, Entry(key, HashOfKey[key], Noted(v, size, IF size = 0 THEN 0 ELSE v.at)))
             ELSE [b.ht EXCEPT !.at[i].value =
                      IF InPlace(old, size) THEN [old EXCEPT !.term = TermAt(n, size, old.ptr)]
                      ELSE IF size # 0 THEN Noted(v, size, v.at)
                      ELSE [old EXCEPT !.term = v]]
    /\ garbage' = b.garbage + IF i # -1 /\ ~InPlace(old, size) THEN old.size ELSE 0
    /\ heapSize' = b.size
    /\ Len(h) + size <= heapSize'           \* the copy, before it is moved in place

HashInsert(key, size) ==        \* psi_user_ht_insert
    /\ ~undefined
    /\ writes < MaxWrites
    /\ heapSize <= MaxHeap
    /\ Resized(Resized(ht)).size <= MaxHash
    /\ AddEntry(key, size)
    /\ writes' = writes + 1
    /\ stored' = [k \in DOMAIN stored \union {key} |-> IF k = key THEN writes + 1 ELSE stored[k]]
    /\ undefined' = (Full /\ \E k \in Keys(ht) : KeySize(k) # 0)

HashRemove(key) ==              \* psi_user_ht_remove
    LET i == Search(ht, key, HashOfKey[key]) IN
    /\ ~undefined
    /\ i # -1
    /\ ht' = Removed(ht, i)
    /\ stored' = [k \in DOMAIN stored \ {key} |-> stored[k]]
    /\ UNCHANGED <<heap, garbage, heapSize, writes, undefined>>

UserNext == \E key \in UserKeys : HashRemove(key) \/ \E size \in Sizes : HashInsert(key, size)

UserSpec == UserInit /\ [][UserNext]_hashVars

-----------------------------------------------------------------------------
(* Properties.                                                             *)

\* The table is well formed, with a place for the next key.
HashSound == ~undefined => Sound(ht) /\ Open(ht)

\* psi_user_ht_lookup gives what was stored last, and nothing for a key that has
\* no value: no term is written over by another one, whatever is replaced in its
\* place, removed and moved to another heap.
Intact(v) ==
    v.size = 0 \/ \A i \in v.at .. v.at + v.size - 1 : i \in DOMAIN heap /\ heap[i] = v.n

LookupRight ==
    ~undefined =>
        \A key \in UserKeys :
            LET i == Search(ht, key, HashOfKey[key])
                v == ht.at[i].value.term IN
            IF key \in DOMAIN stored THEN i # -1 /\ v.n = stored[key] /\ Intact(v) ELSE i = -1

\* psi_user_ht_search, which goes through the table, gives each key once.
SearchRight ==
    ~undefined =>
        /\ Keys(ht) = DOMAIN stored
        /\ Cardinality({i \in DOMAIN ht.at : Live(ht.at[i])}) = Cardinality(DOMAIN stored)

\* The table has what was stored in it, and no more (user_hash_table.cc).
HashRight == HashSound /\ LookupRight /\ SearchRight
=============================================================================
