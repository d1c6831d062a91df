----------------------------- MODULE ThreadTable -----------------------------
(***************************************************************************)
(* The table of threads: an array of threads, the number of live ones, and *)
(* a hash table from names to places in the array (thread_table.cc), with  *)
(* the escapes that fill it (thread_escapes.cc).  A name is a stem and a   *)
(* number, as MakeName makes them; a program may choose any name.          *)
(***************************************************************************)
EXTENDS HashTable

CONSTANTS
    ArraySize,    \* THREAD_TABLE_SIZE
    TableSize,    \* size of a new hash table
    Roots,        \* the root names that threads are created with
    MaxNumber,    \* bound on the numbers of names that are made
    MaxTable,     \* bound on the size of the hash table
    HashOf,       \* the hash of a name
    UserNames,    \* the names that programs choose
    Renamers,     \* the places of the threads that give themselves names
    MayFreeze     \* may the variable for the name be frozen?

Stems == Roots \union {"thread"}
Names == {<<stem, n>> : stem \in Stems, n \in 0 .. MaxNumber}

ASSUME TableAssumption ==
    /\ ArraySize \in Nat \ {0}
    /\ TableSize \in Nat /\ TableSize >= 2 \* with 1 the second name may find no place
    /\ MaxNumber \in Nat
    /\ UserNames \subseteq Names
    /\ HashOf \in [Names -> Nat]

VARIABLES
    names,     \* hash_table
    array,     \* array: the thread at each place, or NoThread
    live,      \* live
    nextId     \* next_id

tableVars == <<names, array, live, nextId>>

\* symbol is the thread's name and had are the names it has had; one that could
\* not be started is lost.
Thread(name, unifies) == [symbol |-> name, had |-> {name}, lost |-> ~unifies]
NoThread == [symbol |-> <<"", 0>>, had |-> {}, lost |-> TRUE]

Places == 0 .. ArraySize - 1

LookupPlace(t, name) == Search(t, name, HashOf[name])
LookupName(name) == names.at[LookupPlace(names, name)].value
Known(name)      == LookupPlace(names, name) # -1
AddName(t, name, loc) == Insert(t, Entry(name, HashOf[name], loc))

Running == {p \in Places : array[p] # NoThread /\ ~array[p].lost}

\* Names that are removed are counted until the table is resized: when others
\* have taken their places it grows, however few there are.
Room == Resized(Resized(names)).size <= MaxTable

\* A bug the next definition avoids: the first number is taken.
Made_first(stem, from) == from

\* MakeName: the first number from one on whose name is not in use.
Made(stem, from) == Min({n \in from .. MaxNumber : ~Known(<<stem, n>>)})

TableInit ==
    LET name == <<"thread", 0>> IN
    /\ names = AddName(New(NextPower2(TableSize)), name, 0)
    /\ array = [p \in Places |-> IF p = 0 THEN Thread(name, TRUE) ELSE NoThread]
    /\ live = 1
    /\ nextId = 1

\* AddID; without a free place it would read on behind the array.
CanFork == Room /\ live < ArraySize /\ \E p \in Places : array[p] = NoThread
Loc     == Min({p \in Places : array[p] = NoThread})

\* psi_thread_fork, up to the call of the scheduler: the thread has a place and
\* a name; if the name does not unify it stays there, and is never run.
Started(name, unifies) ==
    /\ names' = AddName(names, name, Loc)
    /\ array' = [array EXCEPT ![Loc] = Thread(name, unifies)]
    /\ live' = IF unifies THEN live + 1 ELSE live

\* A thread with a name that is in use is not created.
ForkNamed(name) ==
    /\ CanFork
    /\ ~Known(name)
    /\ Started(name, TRUE)
    /\ UNCHANGED nextId

ForkRooted(root, unifies) ==
    /\ CanFork
    /\ \E n \in 0 .. MaxNumber : ~Known(<<root, n>>)
    /\ Started(<<root, Made(root, 0)>>, unifies)
    /\ UNCHANGED nextId

ForkAnonymous(unifies) ==
    /\ CanFork
    /\ \E n \in nextId .. MaxNumber : ~Known(<<"thread", n>>)
    /\ Started(<<"thread", Made("thread", nextId)>>, unifies)
    /\ nextId' = Made("thread", nextId) + 1

\* psi_thread_set_symbol: the name it had stays in the table.
SetSymbol(loc, name) ==
    /\ Room /\ ~Known(name)
    /\ names' = AddName(names, name, loc)
    /\ array' = [array EXCEPT ![loc].symbol = name, ![loc].had = @ \union {name}]
    /\ UNCHANGED <<live, nextId>>

\* A bug the next definition avoids: the name stays.
NameRemoved_not(loc) == names

NameRemoved(loc) == MakeRemoved(names, LookupPlace(names, array[loc].symbol))

\* psi_thread_exit, by the thread or from another one, and what the scheduler
\* does then; the initial thread, which has the first place, does not exit.
Exit(loc) ==
    /\ loc # 0
    /\ names' = NameRemoved(loc)
    /\ array' = [array EXCEPT ![loc] = NoThread]
    /\ live' = live - 1
    /\ UNCHANGED nextId

TableNext ==
    \/ \E name \in UserNames : ForkNamed(name)
    \/ \E unifies \in {TRUE, ~MayFreeze} :
        (\E root \in Roots : ForkRooted(root, unifies)) \/ ForkAnonymous(unifies)
    \/ \E loc \in Running \intersect Renamers, name \in UserNames : SetSymbol(loc, name)
    \/ \E loc \in Running : Exit(loc)

TableSpec == TableInit /\ [][TableNext]_tableVars

-----------------------------------------------------------------------------
(* Properties.                                                             *)

\* The hash table of names is well formed, with a place for the next name.
NamesSound == Sound(names) /\ Open(names) /\ 2 * names.used <= names.size + 2

\* The name of a running thread leads to it, so no two have the same name.
NamesLead ==
    \A loc \in Running : Known(array[loc].symbol) /\ LookupName(array[loc].symbol) = loc

\* A name leads to a thread, and to one that has had that name: no message gets
\* to a stranger (pedro_escapes.cc:217, "assert(thread != NULL)").
NamesDenote == \A name \in Keys(names) : name \in array[LookupName(name)].had

\* The places that are taken are those of the live threads: AddID, which asks
\* for the number of live ones only, finds a free one.
SlotsCounted == live = Cardinality({p \in Places : array[p] # NoThread})

\* The names are a directory: they are given and withdrawn one at a time, and
\* collisions, marks and resizing are not seen.
Directory == {<<e.key, e.value>> : e \in {d \in {names.at[i] : i \in DOMAIN names.at} : Live(d)}}
NameSpec  == INSTANCE NameDirectory WITH directory <- Directory
NamesAreDirectory == NameSpec!Spec

\* The table, its names and the count of its places agree (thread_table.cc).
TableRight == NamesSound /\ NamesLead /\ NamesDenote /\ SlotsCounted
=============================================================================
