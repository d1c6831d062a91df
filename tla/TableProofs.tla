----------------------------- MODULE TableProofs -----------------------------
(***************************************************************************)
(* Proofs about the two components that use the open hash table.           *)
(*                                                                         *)
(* The thread table is right if no thread but the initial one gives itself *)
(* another name and no variable for a name is frozen: TLC shows that       *)
(* without these a name can be left in the table by a thread that exits,   *)
(* or a place that no thread ever leaves.                                  *)
(*                                                                         *)
(* The hash table of terms is right until a number is a key while the heap *)
(* is collected, from when on its behaviour is undefined.                  *)
(***************************************************************************)
EXTENDS ThreadTable, UserHash, HashTableProofs

NamesAreKept == Renamers \subseteq {0} /\ ~MayFreeze

Threads == [symbol : Names, had : SUBSET Names, lost : {FALSE}]

Taken == {p \in Places : array[p] # NoThread}

\* A thread has the entry of its name, and an entry is of a thread that has had that
\* name; a thread with another name than it was created with is the initial one.
NamesAgree ==
    /\ \A p \in Taken :
           /\ array[p].symbol \in array[p].had
           /\ \E e \in Items(names) : e.key = array[p].symbol /\ e.value = p
           /\ p # 0 => array[p].had = {array[p].symbol}
    /\ \A e \in Items(names) : e.value \in Taken /\ e.key \in array[e.value].had

TableInv ==
    /\ WellFormed(names, HashOf, Places) /\ Counted(names)
    /\ array \in [Places -> Threads \union {NoThread}]
    /\ nextId \in Nat
    /\ 0 \in Taken
    /\ NamesAgree
    /\ SlotsCounted

-----------------------------------------------------------------------------
(* The table of names.                                                     *)

LEMMA NoThreadIsNone ==
    /\ NoThread \notin Threads
    /\ \A p \in Places : array \in [Places -> Threads \union {NoThread}] =>
           (array[p] # NoThread <=> array[p] \in Threads)
<1>1. NoThread.lost = TRUE
  BY DEF NoThread
<1>2. \A x \in Threads : x.lost = FALSE
  BY DEF Threads
<1> QED
  BY <1>1, <1>2

LEMMA HashesType == HashOf \in [DOMAIN HashOf -> Nat] /\ DOMAIN HashOf = Names
BY TableAssumption DEF TableAssumption

\* A name is known if the table has it, and leads to the value of its entry.
LEMMA KnownRight ==
    ASSUME NEW t, WellFormed(t, HashOf, Places), NEW name \in Names
    PROVE  /\ LookupPlace(t, name) # -1 <=> name \in Keys(t)
           /\ name \in Keys(t) =>
                  /\ LookupPlace(t, name) \in LivePlaces(t)
                  /\ t.at[LookupPlace(t, name)].key = name
<1>1. name \in DOMAIN HashOf /\ HashOf[name] \in Nat
  BY TableAssumption DEF TableAssumption
<1>2. \/ Search(t, name, HashOf[name]) = -1 /\ name \notin Keys(t)
      \/ /\ Search(t, name, HashOf[name]) \in LivePlaces(t)
         /\ t.at[Search(t, name, HashOf[name])].key = name
         /\ Search(t, name, HashOf[name]) # -1 /\ name \in Keys(t)
  BY <1>1, SearchFinds
<1> QED
  BY <1>2 DEF LookupPlace

LEMMA LeadsToValue ==
    ASSUME WellFormed(names, HashOf, Places), NEW e \in Items(names)
    PROVE  /\ e.key \in Names /\ Known(e.key) /\ LookupName(e.key) = e.value
           /\ names.at[LookupPlace(names, e.key)] = e
           /\ LookupPlace(names, e.key) \in LivePlaces(names)
<1>1. PICK i \in LivePlaces(names) : e = names.at[i]
  BY DEF Items
<1>2. e.key \in Names /\ e.key \in Keys(names)
  BY <1>1, HashesType, LivePlace, KeysOfItems DEF WellFormed
<1> DEFINE j == LookupPlace(names, e.key)
<1>3. j # -1 /\ j \in LivePlaces(names) /\ names.at[j].key = e.key
  BY <1>2, KnownRight
<1> HIDE DEF j
<1>4. i = j
  BY <1>1, <1>3 DEF WellFormed, KeysDiffer
<1> QED
  BY <1>1, <1>2, <1>3, <1>4 DEF j, Known, LookupName

\* A name that is not known is added.
LEMMA AddNameRight ==
    ASSUME NEW t, WellFormed(t, HashOf, Places), Counted(t),
           NEW name \in Names, name \notin Keys(t), NEW loc \in Places
    PROVE  /\ WellFormed(AddName(t, name, loc), HashOf, Places) /\ Counted(AddName(t, name, loc))
           /\ \E e : e.key = name /\ e.value = loc
                     /\ Items(AddName(t, name, loc)) = Items(t) \union {e}
<1> DEFINE e == Entry(name, HashOf[name], loc)
           u == AddName(t, name, loc)
<1>1. e \in Slots(HashOf, Places) /\ Live(e) /\ e.key = name /\ e.value = loc
  BY HashesType, EntryType
<1>2. u = Insert(t, e)
  BY DEF AddName
<1> HIDE DEF e, u
<1>3. WellFormed(u, HashOf, Places) /\ Counted(u) /\ Items(u) = Items(t) \union {e}
  BY <1>1, <1>2, InsertRight
<1> QED
  BY <1>1, <1>3 DEF u

-----------------------------------------------------------------------------
(* The inductive invariant.                                                *)

LEMMA ThreadType ==
    ASSUME NEW name \in Names
    PROVE  /\ Thread(name, TRUE) \in Threads
           /\ Thread(name, TRUE).symbol = name /\ Thread(name, TRUE).had = {name}
BY DEF Thread, Threads

LEMMA TakenRunning ==
    ASSUME array \in [Places -> Threads \union {NoThread}]
    PROVE  /\ Running = Taken
           /\ \A p \in Taken : p \in Places /\ array[p] \in Threads
           /\ IsFiniteSet(Taken) /\ Cardinality(Taken) \in Nat
<1>1. \A p \in Taken : p \in Places /\ array[p] \in Threads
  BY DEF Taken
<1>2. Running = Taken
  BY <1>1 DEF Running, Taken, Threads
<1>3. IsFiniteSet(Places)
  BY TableAssumption, PlacesFinite DEF TableAssumption, Places
<1>4. Taken \in SUBSET Places
  BY DEF Taken
<1> QED
  BY <1>1, <1>2, <1>3, <1>4, FS_Subset, FS_CardinalityType

LEMMA InitTable ==
    ASSUME TableInit
    PROVE  TableInv
<1> DEFINE name == <<"thread", 0>>
           t == New(NextPower2(TableSize))
<1>1. name \in Names /\ 0 \in Places
  BY TableAssumption DEF TableAssumption, Names, Stems, Places
<1>2. WellFormed(t, HashOf, Places) /\ Counted(t) /\ Items(t) = {} /\ Keys(t) = {}
  BY TableAssumption, NewCounted DEF TableAssumption
<1> HIDE DEF t
<1>3. names = AddName(t, name, 0)
  BY DEF TableInit, t
<1>4. /\ array = [p \in Places |-> IF p = 0 THEN Thread(name, TRUE) ELSE NoThread]
      /\ live = 1 /\ nextId = 1
  BY DEF TableInit
<1> HIDE DEF name
<1>5. WellFormed(names, HashOf, Places) /\ Counted(names)
  BY <1>1, <1>2, <1>3, AddNameRight
<1>6. PICK e : e.key = name /\ e.value = 0 /\ Items(names) = {e}
  <2>1. PICK e : e.key = name /\ e.value = 0 /\ Items(names) = Items(t) \union {e}
    BY <1>1, <1>2, <1>3, AddNameRight
  <2> QED
    BY <1>2, <2>1
<1>7. array \in [Places -> Threads \union {NoThread}]
  BY <1>1, <1>4, ThreadType
<1>8. Thread(name, TRUE) # NoThread
  BY <1>1, ThreadType, NoThreadIsNone
<1>9. Taken = {0}
  BY <1>1, <1>4, <1>8 DEF Taken
<1>10. array[0].symbol = name /\ array[0].had = {name}
  BY <1>1, <1>4, ThreadType
<1>11. NamesAgree
  BY <1>6, <1>9, <1>10 DEF NamesAgree
<1>12. SlotsCounted
  BY <1>4, <1>9, FS_Singleton DEF SlotsCounted, Taken
<1> QED
  BY <1>4, <1>5, <1>7, <1>9, <1>11, <1>12 DEF TableInv

\* A thread is given a free place and a name that is not in use.
LEMMA StartedKeeps ==
    ASSUME TableInv, CanFork, NEW name \in Names, ~Known(name), Started(name, TRUE), nextId' \in Nat
    PROVE  TableInv'
<1> DEFINE p == Loc
           th == Thread(name, TRUE)
<1>1. p \in Places /\ array[p] = NoThread
  <2> DEFINE S == {q \in Places : array[q] = NoThread}
  <2>1. S # {} /\ S \in SUBSET Nat
    BY DEF CanFork, Places
  <2>2. Min(S) \in S
    BY <2>1, MinRight
  <2> QED
    BY <2>2 DEF Loc
<1>2. /\ WellFormed(names, HashOf, Places) /\ Counted(names) /\ NamesAgree /\ 0 \in Taken
      /\ array \in [Places -> Threads \union {NoThread}] /\ SlotsCounted
  BY DEF TableInv
<1> HIDE DEF p
<1>3. /\ names' = AddName(names, name, p) /\ array' = [array EXCEPT ![p] = th] /\ live' = live + 1
  BY DEF Started, p
<1>4. th \in Threads /\ th.symbol = name /\ th.had = {name} /\ th # NoThread
  BY ThreadType, NoThreadIsNone
<1> HIDE DEF th
<1>5. name \notin Keys(names)
  BY <1>2, KnownRight DEF Known
<1>6. WellFormed(names, HashOf, Places)' /\ Counted(names)'
  BY <1>1, <1>2, <1>3, <1>5, AddNameRight
<1>7. PICK e : e.key = name /\ e.value = p /\ Items(names') = Items(names) \union {e}
  BY <1>1, <1>2, <1>3, <1>5, AddNameRight
<1>8. (array \in [Places -> Threads \union {NoThread}])'
  BY <1>1, <1>2, <1>3, <1>4
<1>9. array'[p] = th /\ \A q \in Places : q # p => array'[q] = array[q]
  BY <1>1, <1>2, <1>3
<1>10. Taken' = Taken \union {p} /\ p \notin Taken
  BY <1>1, <1>4, <1>9 DEF Taken
<1>11. \A q \in Taken : q \in Places /\ q # p /\ array'[q] = array[q]
  BY <1>9, <1>10 DEF Taken
<1>12. NamesAgree'
  <2>1. ASSUME NEW q \in Taken'
        PROVE  /\ array'[q].symbol \in array'[q].had
               /\ \E f \in Items(names') : f.key = array'[q].symbol /\ f.value = q
               /\ q # 0 => array'[q].had = {array'[q].symbol}
    <3>1. CASE q = p
      BY <1>4, <1>7, <1>9, <3>1
    <3>2. CASE q # p
      <4>1. q \in Taken
        BY <1>10, <3>2
      <4>2. \E f \in Items(names) : f.key = array[q].symbol /\ f.value = q
        BY <1>2, <4>1 DEF NamesAgree
      <4>3. \E f \in Items(names') : f.key = array'[q].symbol /\ f.value = q
        BY <1>7, <1>11, <4>1, <4>2
      <4> QED
        BY <1>2, <1>11, <4>1, <4>3 DEF NamesAgree
    <3> QED
      BY <3>1, <3>2
  <2>2. ASSUME NEW f \in Items(names')
        PROVE  f.value \in Taken' /\ f.key \in array'[f.value].had
    <3>1. CASE f = e
      BY <1>4, <1>7, <1>9, <1>10, <3>1
    <3>2. CASE f # e
      <4>1. f \in Items(names)
        BY <1>7, <3>2
      <4> QED
        BY <1>2, <1>10, <1>11, <4>1 DEF NamesAgree
    <3> QED
      BY <3>1, <3>2
  <2> QED
    BY <2>1, <2>2 DEF NamesAgree
<1>13. SlotsCounted'
  <2>1. IsFiniteSet(Taken) /\ Cardinality(Taken) \in Nat
    BY <1>2, TakenRunning
  <2>2. Cardinality(Taken') = Cardinality(Taken) + 1
    BY <1>10, <2>1, FS_AddElement
  <2>3. live = Cardinality(Taken)
    BY <1>2 DEF SlotsCounted, Taken
  <2>4. live' = Cardinality(Taken')
    BY <1>3, <2>2, <2>3
  <2> QED
    BY <2>4 DEF SlotsCounted, Taken
<1> QED
  BY <1>2, <1>6, <1>8, <1>10, <1>12, <1>13 DEF TableInv

\* The initial thread gives itself a name more.
LEMMA SetSymbolKeeps ==
    ASSUME TableInv, NEW name \in Names, SetSymbol(0, name)
    PROVE  TableInv'
<1>1. /\ WellFormed(names, HashOf, Places) /\ Counted(names) /\ NamesAgree /\ 0 \in Taken
      /\ array \in [Places -> Threads \union {NoThread}] /\ SlotsCounted /\ nextId \in Nat
  BY DEF TableInv
<1>2. 0 \in Places /\ array[0] \in Threads
  BY <1>1, TakenRunning
<1> DEFINE th == [array[0] EXCEPT !.symbol = name, !.had = @ \union {name}]
<1>3. /\ names' = AddName(names, name, 0) /\ array' = [array EXCEPT ![0] = th]
      /\ live' = live /\ nextId' = nextId /\ ~Known(name)
  BY DEF SetSymbol
<1>4. th \in Threads /\ th.symbol = name /\ th.had = array[0].had \union {name} /\ th # NoThread
  <2> DEFINE x == array[0]
  <2>1. x \in [symbol : Names, had : SUBSET Names, lost : {FALSE}]
    BY <1>2 DEF Threads
  <2>2. th = [x EXCEPT !.symbol = name, !.had = @ \union {name}]
    OBVIOUS
  <2> HIDE DEF x, th
  <2>3. th.symbol = name /\ th.had = x.had \union {name} /\ th.lost = x.lost
    BY <2>1, <2>2
  <2>4. th = [symbol |-> th.symbol, had |-> th.had, lost |-> th.lost]
    BY <2>1, <2>2
  <2>5. x.had \in SUBSET Names /\ x.lost = FALSE
    BY <2>1
  <2>6. th \in Threads
    BY <2>3, <2>4, <2>5 DEF Threads
  <2> QED
    BY <2>3, <2>6, NoThreadIsNone DEF x
<1> HIDE DEF th
<1>5. name \notin Keys(names)
  BY <1>1, <1>3, KnownRight DEF Known
<1>6. WellFormed(names, HashOf, Places)' /\ Counted(names)'
  BY <1>1, <1>2, <1>3, <1>5, AddNameRight
<1>7. PICK e : e.key = name /\ e.value = 0 /\ Items(names') = Items(names) \union {e}
  BY <1>1, <1>2, <1>3, <1>5, AddNameRight
<1>8. (array \in [Places -> Threads \union {NoThread}])'
  BY <1>1, <1>2, <1>3, <1>4
<1>9. array'[0] = th /\ \A q \in Places : q # 0 => array'[q] = array[q]
  BY <1>1, <1>2, <1>3
<1>10. Taken' = Taken
  BY <1>1, <1>4, <1>9 DEF Taken
<1>11. \A q \in Taken : q # 0 => array'[q] = array[q]
  BY <1>9 DEF Taken
<1>12. NamesAgree'
  <2>1. ASSUME NEW q \in Taken'
        PROVE  /\ array'[q].symbol \in array'[q].had
               /\ \E f \in Items(names') : f.key = array'[q].symbol /\ f.value = q
               /\ q # 0 => array'[q].had = {array'[q].symbol}
    <3>1. CASE q = 0
      BY <1>4, <1>7, <1>9, <3>1
    <3>2. CASE q # 0
      <4>1. q \in Taken
        BY <1>10
      <4>2. \E f \in Items(names) : f.key = array[q].symbol /\ f.value = q
        BY <1>1, <4>1 DEF NamesAgree
      <4>3. \E f \in Items(names') : f.key = array'[q].symbol /\ f.value = q
        BY <1>7, <1>11, <3>2, <4>1, <4>2
      <4> QED
        BY <1>1, <1>11, <3>2, <4>1, <4>3 DEF NamesAgree
    <3> QED
      BY <3>1, <3>2
  <2>2. ASSUME NEW f \in Items(names')
        PROVE  f.value \in Taken' /\ f.key \in array'[f.value].had
    <3>1. CASE f = e
      BY <1>1, <1>4, <1>7, <1>9, <1>10, <3>1
    <3>2. CASE f # e
      <4>1. f.value \in Taken /\ f.key \in array[f.value].had
        BY <1>1, <1>7, <3>2 DEF NamesAgree
      <4>2. array[f.value].had \subseteq array'[f.value].had
        BY <1>4, <1>9, <1>11, <4>1
      <4> QED
        BY <1>10, <4>1, <4>2
    <3> QED
      BY <3>1, <3>2
  <2> QED
    BY <2>1, <2>2 DEF NamesAgree
<1>13. SlotsCounted'
  BY <1>1, <1>3, <1>10 DEF SlotsCounted, Taken
<1> QED
  BY <1>1, <1>3, <1>6, <1>8, <1>10, <1>12, <1>13 DEF TableInv

\* What an exit takes out of the table of names: the entry of the thread.
LEMMA ExitTakes ==
    ASSUME TableInv, NEW p \in Taken
    PROVE  \E e \in Items(names) :
               /\ e.key = array[p].symbol /\ e.value = p
               /\ NameRemoved(p) = MakeRemoved(names, LookupPlace(names, e.key))
               /\ LookupPlace(names, e.key) \in LivePlaces(names)
               /\ names.at[LookupPlace(names, e.key)] = e
<1>1. WellFormed(names, HashOf, Places) /\ NamesAgree
  BY DEF TableInv
<1>2. PICK e \in Items(names) : e.key = array[p].symbol /\ e.value = p
  BY <1>1 DEF NamesAgree
<1>3. names.at[LookupPlace(names, e.key)] = e /\ LookupPlace(names, e.key) \in LivePlaces(names)
  BY <1>1, LeadsToValue
<1> QED
  BY <1>2, <1>3 DEF NameRemoved

LEMMA ExitKeeps ==
    ASSUME TableInv, NEW p \in Running, Exit(p)
    PROVE  TableInv'
<1>1. /\ WellFormed(names, HashOf, Places) /\ Counted(names) /\ NamesAgree /\ 0 \in Taken
      /\ array \in [Places -> Threads \union {NoThread}] /\ SlotsCounted /\ nextId \in Nat
  BY DEF TableInv
<1>2. p \in Taken /\ p \in Places
  BY <1>1, TakenRunning
<1>3. /\ p # 0 /\ names' = NameRemoved(p) /\ array' = [array EXCEPT ![p] = NoThread]
      /\ live' = live - 1 /\ nextId' = nextId
  BY DEF Exit
<1>4. PICK e \in Items(names) :
          /\ e.key = array[p].symbol /\ e.value = p
          /\ NameRemoved(p) = MakeRemoved(names, LookupPlace(names, e.key))
          /\ LookupPlace(names, e.key) \in LivePlaces(names)
          /\ names.at[LookupPlace(names, e.key)] = e
  BY <1>2, ExitTakes
<1>5. WellFormed(names, HashOf, Places)' /\ Counted(names)' /\ Items(names') = Items(names) \ {e}
  BY <1>1, <1>3, <1>4, RemoveRight
<1>6. (array \in [Places -> Threads \union {NoThread}])'
  BY <1>1, <1>3
<1>7. array'[p] = NoThread /\ \A q \in Places : q # p => array'[q] = array[q]
  BY <1>1, <1>2, <1>3
<1>8. Taken' = Taken \ {p}
  BY <1>7 DEF Taken
<1>9. \A q \in Taken' : q \in Taken /\ q # p /\ array'[q] = array[q]
  BY <1>7, <1>8 DEF Taken
<1>10. NamesAgree'
  <2>1. ASSUME NEW q \in Taken'
        PROVE  /\ array'[q].symbol \in array'[q].had
               /\ \E f \in Items(names') : f.key = array'[q].symbol /\ f.value = q
               /\ q # 0 => array'[q].had = {array'[q].symbol}
    <3>1. PICK f \in Items(names) : f.key = array[q].symbol /\ f.value = q
      BY <1>1, <1>9 DEF NamesAgree
    <3>2. f \in Items(names')
      BY <1>4, <1>5, <1>9, <3>1
    <3>3. \E g \in Items(names') : g.key = array'[q].symbol /\ g.value = q
      BY <1>9, <3>1, <3>2
    <3> QED
      BY <1>1, <1>9, <3>3 DEF NamesAgree
  <2>2. ASSUME NEW f \in Items(names')
        PROVE  f.value \in Taken' /\ f.key \in array'[f.value].had
    <3>1. f \in Items(names) /\ f # e
      BY <1>5
    <3>2. f.value \in Taken /\ f.key \in array[f.value].had
      BY <1>1, <3>1 DEF NamesAgree
    <3>3. f.value # p
      <4> SUFFICES ASSUME f.value = p PROVE FALSE
        OBVIOUS
      <4>1. f.key = array[p].symbol
        BY <1>1, <1>2, <1>3, <3>2 DEF NamesAgree
      <4>2. names.at[LookupPlace(names, f.key)] = f
        BY <1>1, <3>1, LeadsToValue
      <4> QED
        BY <1>4, <3>1, <4>1, <4>2
    <3> QED
      BY <1>8, <1>9, <3>2, <3>3
  <2> QED
    BY <2>1, <2>2 DEF NamesAgree
<1>11. SlotsCounted'
  <2>1. IsFiniteSet(Taken) /\ Cardinality(Taken) \in Nat
    BY <1>1, TakenRunning
  <2>2. Cardinality(Taken') = Cardinality(Taken) - 1
    BY <1>2, <1>8, <2>1, FS_RemoveElement
  <2>3. live = Cardinality(Taken)
    BY <1>1 DEF SlotsCounted, Taken
  <2>4. live' = Cardinality(Taken')
    BY <1>3, <2>2, <2>3
  <2> QED
    BY <2>4 DEF SlotsCounted, Taken
<1>12. 0 \in Taken'
  BY <1>1, <1>3, <1>8
<1> QED
  BY <1>1, <1>3, <1>5, <1>6, <1>10, <1>11, <1>12 DEF TableInv

\* MakeName gives a name that is not in use.
LEMMA MadeRight ==
    ASSUME NEW stem \in Stems, NEW from \in Nat, \E n \in from .. MaxNumber : ~Known(<<stem, n>>)
    PROVE  /\ Made(stem, from) \in Nat /\ <<stem, Made(stem, from)>> \in Names
           /\ ~Known(<<stem, Made(stem, from)>>)
<1> DEFINE S == {n \in from .. MaxNumber : ~Known(<<stem, n>>)}
<1>1. S # {} /\ S \in SUBSET Nat
  BY TableAssumption DEF TableAssumption
<1>2. Min(S) \in S
  BY <1>1, MinRight
<1>3. Made(stem, from) = Min(S)
  BY DEF Made
<1>4. Min(S) \in Nat /\ Min(S) \in 0 .. MaxNumber /\ ~Known(<<stem, Min(S)>>)
  BY <1>2, TableAssumption DEF TableAssumption
<1> HIDE DEF S
<1>5. <<stem, Min(S)>> \in Names
  BY <1>4 DEF Names
<1> QED
  BY <1>3, <1>4, <1>5

\* A step creates a thread, gives the initial one a name, or is an exit.
LEMMA TableSteps ==
    ASSUME NamesAreKept, TableInv, TableNext
    PROVE  \/ \E name \in Names : CanFork /\ ~Known(name) /\ Started(name, TRUE) /\ nextId' \in Nat
           \/ \E name \in Names : SetSymbol(0, name)
           \/ \E loc \in Running : Exit(loc)
<1>0. nextId \in Nat /\ UserNames \subseteq Names
  BY TableAssumption DEF TableAssumption, TableInv
<1>1. ASSUME NEW name \in UserNames, ForkNamed(name)
      PROVE  CanFork /\ ~Known(name) /\ Started(name, TRUE) /\ nextId' \in Nat
  BY <1>0, <1>1 DEF ForkNamed
<1>2. ASSUME NEW root \in Roots, ForkRooted(root, TRUE)
      PROVE  \E name \in Names : CanFork /\ ~Known(name) /\ Started(name, TRUE) /\ nextId' \in Nat
  <2>1. /\ CanFork /\ Started(<<root, Made(root, 0)>>, TRUE) /\ nextId' = nextId
        /\ \E n \in 0 .. MaxNumber : ~Known(<<root, n>>)
    BY <1>2 DEF ForkRooted
  <2>2. <<root, Made(root, 0)>> \in Names /\ ~Known(<<root, Made(root, 0)>>)
    BY <2>1, MadeRight DEF Stems
  <2> QED
    BY <1>0, <2>1, <2>2
<1>3. ASSUME ForkAnonymous(TRUE)
      PROVE  \E name \in Names : CanFork /\ ~Known(name) /\ Started(name, TRUE) /\ nextId' \in Nat
  <2> DEFINE n == Made("thread", nextId)
  <2>1. /\ CanFork /\ Started(<<"thread", n>>, TRUE) /\ nextId' = n + 1
        /\ \E k \in nextId .. MaxNumber : ~Known(<<"thread", k>>)
    BY <1>3 DEF ForkAnonymous
  <2>2. n \in Nat /\ <<"thread", n>> \in Names /\ ~Known(<<"thread", n>>)
    BY <1>0, <2>1, MadeRight DEF Stems
  <2> HIDE DEF n
  <2>3. n + 1 \in Nat
    BY <2>2
  <2>4. \A name : name \in Names /\ ~Known(name) /\ Started(name, TRUE) =>
            \E other \in Names : CanFork /\ ~Known(other) /\ Started(other, TRUE) /\ nextId' \in Nat
    BY <2>1, <2>3, Zenon
  <2> QED
    BY <2>1, <2>2, <2>4, Zenon
<1>4. ASSUME NEW loc \in Running \intersect Renamers, NEW name \in UserNames, SetSymbol(loc, name)
      PROVE  SetSymbol(0, name)
  <2>1. loc = 0
    BY DEF NamesAreKept
  <2> QED
    BY <1>4, <2>1
<1>5. {TRUE, ~MayFreeze} = {TRUE}
  BY DEF NamesAreKept
<1> QED
  BY <1>0, <1>1, <1>2, <1>3, <1>4, <1>5 DEF TableNext

LEMMA NextTable ==
    ASSUME NamesAreKept, TableInv, [TableNext]_tableVars
    PROVE  TableInv'
<1>1. CASE TableNext
  <2>1. ASSUME NEW name \in Names, CanFork, ~Known(name), Started(name, TRUE), nextId' \in Nat
        PROVE  TableInv'
    BY <2>1, StartedKeeps
  <2>2. ASSUME NEW name \in Names, SetSymbol(0, name)
        PROVE  TableInv'
    BY <2>2, SetSymbolKeeps
  <2>3. ASSUME NEW loc \in Running, Exit(loc)
        PROVE  TableInv'
    BY <2>3, ExitKeeps
  <2> QED
    BY <1>1, <2>1, <2>2, <2>3, TableSteps
<1>2. CASE UNCHANGED tableVars
  BY <1>2 DEF tableVars, TableInv, NamesAgree, SlotsCounted, Taken
<1> QED
  BY <1>1, <1>2

LEMMA TableIsRight ==
    ASSUME TableInv
    PROVE  TableRight
<1>1. /\ WellFormed(names, HashOf, Places) /\ Counted(names) /\ NamesAgree /\ SlotsCounted
      /\ array \in [Places -> Threads \union {NoThread}]
  BY DEF TableInv
<1>2. NamesSound
  BY <1>1, SoundTable, OpenTable DEF NamesSound, Counted
<1>3. NamesLead
  <2>1. ASSUME NEW p \in Running PROVE Known(array[p].symbol) /\ LookupName(array[p].symbol) = p
    <3>1. PICK e \in Items(names) : e.key = array[p].symbol /\ e.value = p
      BY <1>1, TakenRunning DEF NamesAgree
    <3> QED
      BY <1>1, <3>1, LeadsToValue
  <2> QED
    BY <2>1 DEF NamesLead
<1>4. NamesDenote
  <2>1. ASSUME NEW name \in Keys(names) PROVE name \in array[LookupName(name)].had
    <3>1. PICK e \in Items(names) : e.key = name
      BY KeysOfItems
    <3> QED
      BY <1>1, <3>1, LeadsToValue DEF NamesAgree
  <2> QED
    BY <2>1 DEF NamesDenote
<1> QED
  BY <1>1, <1>2, <1>3, <1>4 DEF TableRight

LEMMA AlwaysTable ==
    ASSUME NamesAreKept
    PROVE  TableSpec => []TableInv
<1>1. TableInit => TableInv
  BY InitTable
<1>2. TableInv /\ [TableNext]_tableVars => TableInv'
  BY NextTable
<1> QED
  BY <1>1, <1>2, PTL DEF TableSpec

\* For any size of the table and any hashes: names are found, the next one finds a
\* place, a thread's name leads to it, a name leads to a thread that has had it, and the
\* places of the array are counted.
THEOREM TableIsAlwaysRight ==
    ASSUME NamesAreKept
    PROVE  TableSpec => []TableRight
<1>1. TableInv => TableRight
  BY TableIsRight
<1>2. TableSpec => []TableInv
  BY AlwaysTable
<1> QED
  BY <1>1, <1>2, PTL

-----------------------------------------------------------------------------
(* The refinement of the directory.                                        *)

LEMMA DirectoryIs == Directory = {<<e.key, e.value>> : e \in Items(names)}
BY DEF Directory, Items, LivePlaces

LEMMA DirectoryInit ==
    ASSUME TableInit
    PROVE  NameSpec!Init
<1> DEFINE name == <<"thread", 0>>
           t == New(NextPower2(TableSize))
<1>1. name \in Names /\ 0 \in Places
  BY TableAssumption DEF TableAssumption, Names, Stems, Places
<1>2. WellFormed(t, HashOf, Places) /\ Counted(t) /\ Items(t) = {} /\ Keys(t) = {}
  BY TableAssumption, NewCounted DEF TableAssumption
<1> HIDE DEF t
<1>3. names = AddName(t, name, 0)
  BY DEF TableInit, t
<1> HIDE DEF name
<1>4. PICK e : e.key = name /\ e.value = 0 /\ Items(names) = Items(t) \union {e}
  BY <1>1, <1>2, <1>3, AddNameRight
<1>5. Directory = {<<name, 0>>}
  BY <1>2, <1>4, DirectoryIs
<1> QED
  BY <1>1, <1>5 DEF NameSpec!Init

\* A new name makes the directory one larger.
LEMMA AddGives ==
    ASSUME TableInv, NEW name \in Names, NEW p \in Places, ~Known(name),
           names' = AddName(names, name, p)
    PROVE  NameSpec!Give
<1>1. WellFormed(names, HashOf, Places) /\ Counted(names)
  BY DEF TableInv
<1>2. name \notin Keys(names)
  BY <1>1, KnownRight DEF Known
<1>3. PICK e : e.key = name /\ e.value = p /\ Items(names') = Items(names) \union {e}
  BY <1>1, <1>2, AddNameRight
<1>4. Directory' = {<<f.key, f.value>> : f \in Items(names')}
  BY DEF Directory, Items, LivePlaces
<1>5. Directory' = Directory \union {<<name, p>>}
  BY <1>3, <1>4, DirectoryIs
<1>6. \A entry \in Directory : entry[1] # name
  <2>1. \A f \in Items(names) : f.key # name
    BY <1>2, KeysOfItems
  <2> QED
    BY <2>1, DirectoryIs
<1> QED
  BY <1>5, <1>6 DEF NameSpec!Give, NameSpec!OneMore

\* An exit makes it one smaller.
LEMMA ExitWithdraws ==
    ASSUME TableInv, NEW p \in Running, Exit(p)
    PROVE  NameSpec!Withdraw
<1>1. /\ WellFormed(names, HashOf, Places) /\ Counted(names) /\ NamesAgree
      /\ array \in [Places -> Threads \union {NoThread}]
  BY DEF TableInv
<1>2. p \in Taken /\ p \in Places
  BY <1>1, TakenRunning
<1>3. PICK e \in Items(names) :
          /\ e.key = array[p].symbol /\ e.value = p
          /\ NameRemoved(p) = MakeRemoved(names, LookupPlace(names, e.key))
          /\ LookupPlace(names, e.key) \in LivePlaces(names)
          /\ names.at[LookupPlace(names, e.key)] = e
  BY <1>2, ExitTakes
<1>4. Items(names') = Items(names) \ {e}
  BY <1>1, <1>3, RemoveRight DEF Exit
<1>5. e.key \in Names
  BY <1>1, LeadsToValue
<1>6. \A f \in Items(names) : f.key = e.key => f = e
  BY <1>1, <1>3, LeadsToValue
<1>7. Directory' = {<<f.key, f.value>> : f \in Items(names')}
  BY DEF Directory, Items, LivePlaces
<1>8. Directory = Directory' \union {<<e.key, p>>}
  BY <1>3, <1>4, <1>7, DirectoryIs
<1>9. \A entry \in Directory' : entry[1] # e.key
  BY <1>4, <1>6, <1>7
<1> QED
  BY <1>2, <1>5, <1>8, <1>9 DEF NameSpec!Withdraw, NameSpec!OneMore

LEMMA DirectoryNext ==
    ASSUME NamesAreKept, TableInv, [TableNext]_tableVars
    PROVE  [NameSpec!Give \/ NameSpec!Withdraw]_Directory
<1>1. CASE TableNext
  <2>1. ASSUME NEW name \in Names, CanFork, ~Known(name), Started(name, TRUE)
        PROVE  NameSpec!Give
    <3> DEFINE S == {q \in Places : array[q] = NoThread}
    <3>1. S # {} /\ S \in SUBSET Nat
      BY <2>1 DEF CanFork, Places
    <3>2. Min(S) \in S
      BY <3>1, MinRight
    <3>3. Loc \in Places
      BY <3>2 DEF Loc
    <3> QED
      BY <2>1, <3>3, AddGives DEF Started
  <2>2. ASSUME NEW name \in Names, SetSymbol(0, name)
        PROVE  NameSpec!Give
    <3>1. 0 \in Places
      BY TableAssumption DEF TableAssumption, Places
    <3> QED
      BY <2>2, <3>1, AddGives DEF SetSymbol
  <2>3. ASSUME NEW loc \in Running, Exit(loc)
        PROVE  NameSpec!Withdraw
    BY <2>3, ExitWithdraws
  <2> QED
    BY <1>1, <2>1, <2>2, <2>3, TableSteps
<1>2. CASE UNCHANGED tableVars
  BY <1>2 DEF tableVars, Directory
<1> QED
  BY <1>1, <1>2

\* The names of threads are a directory: a step gives one name or withdraws one, and
\* collisions, marks and resizing are not seen.
THEOREM NamesFormDirectory ==
    ASSUME NamesAreKept
    PROVE  TableSpec => NamesAreDirectory
<1>1. TableInit => NameSpec!Init
  BY DirectoryInit
<1>2. TableInv /\ [TableNext]_tableVars => [NameSpec!Give \/ NameSpec!Withdraw]_Directory
  BY DirectoryNext
<1>3. TableSpec => []TableInv
  BY AlwaysTable
<1> QED
  BY <1>1, <1>2, <1>3, PTL DEF TableSpec, NamesAreDirectory, NameSpec!Spec

-----------------------------------------------------------------------------
(* The hash table of terms.                                                *)

\* What is noted for a value.
Values == [term : [n : Nat, size : Nat, at : Nat], size : Nat, ptr : Nat]

\* A value has its term at the place that is noted for it, which may be larger.
HasTerm(h, v) ==
    /\ v.term.size <= v.size
    /\ v.term.size # 0 => v.term.at = v.ptr
    /\ v.size # 0 => 1 <= v.ptr /\ v.ptr + v.size <= Len(h) + 1
    /\ \A k \in v.ptr .. v.ptr + v.term.size - 1 : h[k] = v.term.n

\* Two values have no place of the heap in common.
Apart(v, w) ==
    v.size # 0 /\ w.size # 0 => v.ptr + v.size <= w.ptr \/ w.ptr + w.size <= v.ptr

Kept(es, h) ==
    /\ \A e \in es : HasTerm(h, e.value)
    /\ \A e, f \in es : e # f => Apart(e.value, f.value)

\* The program's last term under each key is the one that the key leads to.
LastStored(es, s) == \A e \in es : e.value.term.n = s[e.key]

TermsRight(t, h, s) ==
    /\ WellFormed(t, HashOfKey, Values) /\ Counted(t)
    /\ h \in Seq(Int)
    /\ Kept(Items(t), h)
    /\ s \in [Keys(t) -> Nat] /\ LastStored(Items(t), s)

HashInv ==
    /\ undefined \in BOOLEAN /\ writes \in Nat
    /\ ~undefined => TermsRight(ht, heap, stored)

\* A copy is behind everything that the heap has.
LEMMA CopiedRight ==
    ASSUME NEW h \in Seq(Int), NEW n \in Int, NEW size \in Nat
    PROVE  /\ Copied(h, n, size) \in Seq(Int)
           /\ Len(Copied(h, n, size)) = Len(h) + size
           /\ \A k \in 1 .. Len(h) : Copied(h, n, size)[k] = h[k]
           /\ \A k \in Len(h) + 1 .. Len(h) + size : Copied(h, n, size)[k] = n
<1> DEFINE c == [i \in 1 .. size |-> n]
<1>1. c \in Seq(Int) /\ Len(c) = size
  OBVIOUS
<1>2. \A k \in 1 .. size : c[k] = n
  OBVIOUS
<1> HIDE DEF c
<1>3. h \o c \in Seq(Int) /\ Len(h \o c) = Len(h) + size
  BY <1>1
<1>4. \A k \in 1 .. Len(h) + size : (h \o c)[k] = IF k <= Len(h) THEN h[k] ELSE c[k - Len(h)]
  BY <1>1
<1>5. Copied(h, n, size) = h \o c
  BY DEF Copied, c
<1>6. Len(h) \in Nat
  OBVIOUS
<1>7. ASSUME NEW k \in 1 .. Len(h) PROVE (h \o c)[k] = h[k]
  BY <1>4, <1>6
<1>8. ASSUME NEW k \in Len(h) + 1 .. Len(h) + size PROVE (h \o c)[k] = n
  <2>1. k \in 1 .. Len(h) + size /\ ~(k <= Len(h)) /\ k - Len(h) \in 1 .. size
    BY <1>6
  <2> QED
    BY <1>2, <1>4, <2>1
<1> QED
  BY <1>3, <1>5, <1>7, <1>8

LEMMA OverwrittenRight ==
    ASSUME NEW h \in Seq(Int), NEW n \in Int, NEW size \in Nat, NEW at \in Nat
    PROVE  /\ Overwritten(h, n, size, at) \in Seq(Int)
           /\ Len(Overwritten(h, n, size, at)) = Len(h)
           /\ \A k \in 1 .. Len(h) : Overwritten(h, n, size, at)[k] =
                                         IF k \in at .. at + size - 1 THEN n ELSE h[k]
<1> DEFINE o == Overwritten(h, n, size, at)
<1>1. o = [i \in 1 .. Len(h) |-> IF i \in at .. at + size - 1 THEN n ELSE h[i]]
  BY DEF Overwritten
<1>2. Len(h) \in Nat /\ \A i \in 1 .. Len(h) : h[i] \in Int
  OBVIOUS
<1>3. o \in [1 .. Len(h) -> Int]
  BY <1>1, <1>2
<1> HIDE DEF o
<1>4. o \in Seq(Int) /\ Len(o) = Len(h)
  BY <1>2, <1>3
<1>5. \A k \in 1 .. Len(h) : o[k] = IF k \in at .. at + size - 1 THEN n ELSE h[k]
  BY <1>1
<1> QED
  BY <1>4, <1>5 DEF o

LEMMA ValueType ==
    ASSUME NEW v \in Values
    PROVE  /\ v.term.n \in Nat /\ v.term.size \in Nat /\ v.term.at \in Nat
           /\ v.size \in Nat /\ v.ptr \in Nat
BY DEF Values

LEMMA NotedType ==
    ASSUME NEW n \in Nat, NEW size \in Nat, NEW at \in Nat, NEW noted \in Nat, NEW ptr \in Nat,
           NEW v, v = Noted(TermAt(n, size, at), noted, ptr)
    PROVE  /\ v \in Values /\ v.term.n = n /\ v.term.size = size /\ v.term.at = at
           /\ v.size = noted /\ v.ptr = ptr
BY DEF Noted, TermAt, Values

\* An entry of the table has a key and a value that is noted.
LEMMA ItemType ==
    ASSUME NEW t, WellFormed(t, HashOfKey, Values), NEW e \in Items(t)
    PROVE  /\ e.value \in Values /\ e.key \in UserKeys /\ e.key \in Keys(t)
           /\ \A f \in Items(t) : f.key = e.key => f = e
<1>1. DOMAIN HashOfKey = UserKeys
  BY HashAssumption DEF HashAssumption
<1>2. PICK i \in LivePlaces(t) : e = t.at[i]
  BY DEF Items
<1>3. e.value \in Values /\ e.key \in UserKeys
  BY <1>1, <1>2, LivePlace DEF WellFormed
<1>4. \A f \in Items(t) : f.key = e.key => f = e
  BY <1>2 DEF Items, WellFormed, KeysDiffer
<1> QED
  BY <1>3, <1>4, KeysOfItems

\* What is kept in a heap is kept while the heap grows.
LEMMA KeptByGrowing ==
    ASSUME NEW h \in Seq(Int), NEW g \in Seq(Int), Len(h) <= Len(g),
           \A k \in 1 .. Len(h) : g[k] = h[k], NEW v \in Values, HasTerm(h, v)
    PROVE  HasTerm(g, v)
<1>1. v.term.n \in Nat /\ v.term.size \in Nat /\ v.size \in Nat /\ v.ptr \in Nat
      /\ Len(h) \in Nat /\ Len(g) \in Nat
  BY ValueType
<1>2. v.size # 0 => v.ptr + v.size <= Len(g) + 1
  BY <1>1 DEF HasTerm
<1>3. ASSUME NEW k \in v.ptr .. v.ptr + v.term.size - 1 PROVE g[k] = v.term.n
  <2>1. k \in 1 .. Len(h)
    BY <1>1 DEF HasTerm
  <2> QED
    BY <2>1 DEF HasTerm
<1> QED
  BY <1>2, <1>3 DEF HasTerm

LEMMA GrownRight ==
    ASSUME NEW t, NEW h, NEW s, TermsRight(t, h, s), NEW n \in Int, NEW size \in Nat
    PROVE  TermsRight(t, Copied(h, n, size), s)
<1> DEFINE g == Copied(h, n, size)
<1>1. h \in Seq(Int) /\ WellFormed(t, HashOfKey, Values)
  BY DEF TermsRight
<1>2. g \in Seq(Int) /\ Len(h) <= Len(g) /\ \A k \in 1 .. Len(h) : g[k] = h[k]
  BY <1>1, CopiedRight
<1> HIDE DEF g
<1>3. ASSUME NEW e \in Items(t) PROVE HasTerm(g, e.value)
  <2>1. e.value \in Values /\ HasTerm(h, e.value)
    BY <1>1, ItemType DEF TermsRight, Kept
  <2> QED
    BY <1>1, <1>2, <2>1, KeptByGrowing
<1>4. Kept(Items(t), g)
  BY <1>3 DEF TermsRight, Kept
<1> QED
  BY <1>2, <1>4 DEF TermsRight, g

\* What is stored under a new key.
LEMMA InsertedRight ==
    ASSUME NEW t, NEW h, NEW s, TermsRight(t, h, s),
           NEW key \in UserKeys, key \notin Keys(t), NEW v \in Values, HasTerm(h, v),
           \A e \in Items(t) : Apart(e.value, v) /\ Apart(v, e.value)
    PROVE  TermsRight(Insert(t, Entry(key, HashOfKey[key], v)), h,
                      [k \in Keys(t) \union {key} |-> IF k = key THEN v.term.n ELSE s[k]])
<1> DEFINE d == Entry(key, HashOfKey[key], v)
           u == Insert(t, d)
           z == [k \in Keys(t) \union {key} |-> IF k = key THEN v.term.n ELSE s[k]]
<1>0. HashOfKey \in [DOMAIN HashOfKey -> Nat] /\ key \in DOMAIN HashOfKey
  BY HashAssumption DEF HashAssumption
<1>1. WellFormed(t, HashOfKey, Values) /\ Counted(t) /\ s \in [Keys(t) -> Nat]
  BY DEF TermsRight
<1>2. /\ WellFormed(u, HashOfKey, Values) /\ Counted(u)
      /\ Items(u) = Items(t) \union {d} /\ Keys(u) = Keys(t) \union {key}
  BY <1>0, <1>1, InsertionRight
<1>3. d.key = key /\ d.value = v
  BY DEF Entry
<1> HIDE DEF d, u
<1>4. Kept(Items(u), h)
  BY <1>2, <1>3 DEF TermsRight, Kept
<1>5. z \in [Keys(u) -> Nat]
  BY <1>1, <1>2, ValueType
<1>6. ASSUME NEW e \in Items(u) PROVE e.value.term.n = z[e.key]
  <2>1. CASE e = d
    BY <1>3, <2>1
  <2>2. CASE e # d
    <3>1. e \in Items(t)
      BY <1>2, <2>2
    <3>2. e.key \in Keys(t) /\ e.value.term.n = s[e.key]
      BY <1>1, <3>1, ItemType DEF TermsRight, LastStored
    <3> QED
      BY <3>2
  <2> QED
    BY <2>1, <2>2
<1> HIDE DEF z
<1>7. LastStored(Items(u), z)
  BY <1>6 DEF LastStored
<1>8. TermsRight(u, h, z)
  BY <1>2, <1>4, <1>5, <1>7 DEF TermsRight
<1> QED
  BY <1>8 DEF u, d, z

LEMMA NewValue ==
    \A x, y, k, n, v, w :
        [[full |-> x, removed |-> y, key |-> k, hash |-> n, value |-> w] EXCEPT !.value = v]
        = [full |-> x, removed |-> y, key |-> k, hash |-> n, value |-> v]
OBVIOUS

\* An entry with another value.
LEMMA ChangedEntry ==
    ASSUME NEW t, IsTable(t, HashOfKey, Values), NEW p \in LivePlaces(t), NEW v \in Values
    PROVE  LET d == [t.at[p] EXCEPT !.value = v] IN
           /\ d \in Slots(HashOfKey, Values) /\ Live(d)
           /\ d.key = t.at[p].key /\ d.hash = t.at[p].hash /\ d.value = v
<1> DEFINE d == [t.at[p] EXCEPT !.value = v]
<1>1. /\ p \in 0 .. t.size - 1 /\ t.at[p] \in Slots(HashOfKey, Values)
      /\ t.at[p].full /\ ~t.at[p].removed
  BY DEF IsTable, LivePlaces, Live
<1>2. /\ t.at[p].key \in DOMAIN HashOfKey /\ t.at[p].hash = HashOfKey[t.at[p].key]
      /\ t.at[p].hash \in Nat /\ t.at[p].full = TRUE /\ t.at[p].removed = FALSE
      /\ t.at[p] = [full |-> TRUE, removed |-> t.at[p].removed, key |-> t.at[p].key,
                    hash |-> t.at[p].hash, value |-> t.at[p].value]
  BY <1>1, SlotType
<1>3. d = [full |-> t.at[p].full, removed |-> t.at[p].removed, key |-> t.at[p].key,
            hash |-> t.at[p].hash, value |-> v]
  <2> DEFINE e == t.at[p]
  <2>1. e = [full |-> e.full, removed |-> e.removed, key |-> e.key, hash |-> e.hash,
             value |-> e.value]
    BY <1>1, <1>2
  <2> HIDE DEF e
  <2>2. [e EXCEPT !.value = v] = [full |-> e.full, removed |-> e.removed, key |-> e.key,
                                  hash |-> e.hash, value |-> v]
    <3> DEFINE r == [full |-> e.full, removed |-> e.removed, key |-> e.key, hash |-> e.hash,
                     value |-> e.value]
               c == [full |-> e.full, removed |-> e.removed, key |-> e.key, hash |-> e.hash,
                     value |-> v]
    <3>1. e = r
      BY <2>1
    <3>2. [r EXCEPT !.value = v] = c
      BY NewValue
    <3> HIDE DEF r, c
    <3>3. [e EXCEPT !.value = v] = c
      BY <3>1, <3>2
    <3> QED
      BY <3>3 DEF c
  <2> QED
    BY <2>2 DEF e
<1>4. d \in [full : {TRUE}, removed : BOOLEAN, key : DOMAIN HashOfKey, hash : Nat,
            value : Values]
  BY <1>1, <1>2, <1>3
<1>5. /\ d \in Slots(HashOfKey, Values) /\ Live(d)
      /\ d.key = t.at[p].key /\ d.hash = t.at[p].hash /\ d.value = v
  <2>1. /\ d.key = t.at[p].key /\ d.value = v /\ d.hash = HashOfKey[d.key]
        /\ d.hash = t.at[p].hash
        /\ d.full = TRUE /\ d.removed = FALSE
    BY <1>1, <1>2, <1>3
  <2> HIDE DEF d
  <2> QED
    BY <1>4, <2>1 DEF Slots, Live
<1> QED
  BY <1>5

\* What is stored under a key that the table has, in the heap that comes of it.
LEMMA ReplacedRight ==
    ASSUME NEW t, NEW h, NEW s, TermsRight(t, h, s), NEW p \in LivePlaces(t),
           NEW v \in Values, NEW g \in Seq(Int), HasTerm(g, v),
           \A e \in Items(t) : e # t.at[p] =>
               HasTerm(g, e.value) /\ Apart(e.value, v) /\ Apart(v, e.value)
    PROVE  TermsRight([t EXCEPT !.at[p].value = v], g,
                      [k \in Keys(t) |-> IF k = t.at[p].key THEN v.term.n ELSE s[k]])
<1> DEFINE d == [t.at[p] EXCEPT !.value = v]
           u == [t EXCEPT !.at[p].value = v]
           z == [k \in Keys(t) |-> IF k = t.at[p].key THEN v.term.n ELSE s[k]]
<1>1. /\ WellFormed(t, HashOfKey, Values) /\ Counted(t) /\ s \in [Keys(t) -> Nat]
      /\ IsTable(t, HashOfKey, Values) /\ KeysDiffer(t)
  BY DEF TermsRight, WellFormed
<1>2. /\ t.size \in Nat \ {0} /\ t.used \in Nat /\ DOMAIN t.at = 0 .. t.size - 1
      /\ t = [size |-> t.size, used |-> t.used, at |-> t.at]
      /\ p \in 0 .. t.size - 1 /\ t.at[p] \in Slots(HashOfKey, Values)
      /\ t.at[p].full /\ ~t.at[p].removed
  BY <1>1 DEF IsTable, LivePlaces, Live
<1>3. d \in Slots(HashOfKey, Values) /\ Live(d) /\ d.key = t.at[p].key /\ d.value = v
  BY <1>1, ChangedEntry
<1>4. u = With(t, t.used, p, d)
  <2>0. u = [t EXCEPT !.at = [t.at EXCEPT ![p] = d]]
    BY <1>2
  <2> HIDE DEF u, d
  <2>1. u.size = t.size /\ u.used = t.used /\ u.at = [t.at EXCEPT ![p] = d]
    BY <1>2, <2>0
  <2>2. u = [size |-> u.size, used |-> u.used, at |-> u.at]
    BY <1>2, <2>0
  <2> QED
    BY <2>1, <2>2 DEF With
<1> HIDE DEF d, u
<1>5. d.full /\ ~d.removed
  BY <1>3 DEF Live
<1>6. WellFormed(u, HashOfKey, Values) /\ LivePlaces(u) = LivePlaces(t)
  BY <1>1, <1>2, <1>3, <1>4, <1>5, ChangeRight
<1>7. /\ u.size = t.size /\ u.used = t.used /\ u.at[p] = d
       /\ \A i \in 0 .. t.size - 1 : i # p => u.at[i] = t.at[i]
  BY <1>1, <1>2, <1>3, <1>4, WithType
<1>8. Counted(u)
  BY <1>1, <1>6, <1>7 DEF Counted
<1>9. ASSUME NEW e \in Items(u)
       PROVE  e = d \/ (e \in Items(t) /\ e # t.at[p] /\ e.key # d.key)
  <2>1. PICK i \in LivePlaces(u) : e = u.at[i]
    BY DEF Items
  <2>2. i \in LivePlaces(t) /\ i \in 0 .. t.size - 1
    BY <1>2, <1>6, <2>1 DEF LivePlaces
  <2>3. CASE i = p
    BY <1>7, <2>1, <2>3
  <2>4. CASE i # p
    <3>1. e = t.at[i] /\ e \in Items(t)
      BY <1>7, <2>1, <2>2, <2>4 DEF Items
    <3>2. t.at[i].key # t.at[p].key
      BY <1>1, <2>2, <2>4 DEF KeysDiffer
    <3> QED
      BY <1>3, <3>1, <3>2
  <2> QED
    BY <2>3, <2>4
<1>10. Kept(Items(u), g)
  <2>1. ASSUME NEW e \in Items(u) PROVE HasTerm(g, e.value)
    BY <1>3, <1>9
  <2>2. ASSUME NEW e \in Items(u), NEW f \in Items(u), e # f PROVE Apart(e.value, f.value)
    <3>1. e = d \/ (e \in Items(t) /\ e # t.at[p])
      BY <1>9
    <3>2. f = d \/ (f \in Items(t) /\ f # t.at[p])
      BY <1>9
    <3>3. e \in Items(t) /\ f \in Items(t) => Apart(e.value, f.value)
      BY <2>2 DEF TermsRight, Kept
    <3> QED
      BY <1>3, <2>2, <3>1, <3>2, <3>3
  <2> QED
    BY <2>1, <2>2 DEF Kept
<1>11. Keys(u) = Keys(t)
  <2>1. \A i \in LivePlaces(t) : u.at[i].key = t.at[i].key
    BY <1>2, <1>3, <1>7 DEF LivePlaces
  <2> QED
    BY <1>6, <2>1 DEF Keys, LivePlaces
<1>12. z \in [Keys(u) -> Nat]
  BY <1>1, <1>11, ValueType
<1>13. ASSUME NEW e \in Items(u) PROVE e.value.term.n = z[e.key]
  <2>0. e.key \in Keys(t)
    BY <1>6, <1>11, ItemType
  <2>1. CASE e = d
    BY <1>3, <2>0, <2>1
  <2>2. CASE e # d
    <3>1. e \in Items(t) /\ e.key # t.at[p].key
      BY <1>3, <1>9, <2>2
    <3>2. e.value.term.n = s[e.key]
      BY <3>1 DEF TermsRight, LastStored
    <3> QED
      BY <2>0, <3>1, <3>2
  <2> QED
    BY <2>1, <2>2
<1> HIDE DEF z
<1>14. LastStored(Items(u), z)
  BY <1>13 DEF LastStored
<1>15. TermsRight(u, g, z)
  BY <1>6, <1>8, <1>10, <1>12, <1>14 DEF TermsRight
<1> QED
  BY <1>15 DEF u, z

\* A table with other values at its live places.
LEMMA Reshaped ==
    ASSUME NEW t, WellFormed(t, HashOfKey, Values), Counted(t), NEW u,
           u = [size |-> t.size, used |-> t.used, at |-> u.at],
           u.at \in [0 .. t.size - 1 -> Slots(HashOfKey, Values)],
           \A i \in 0 .. t.size - 1 : u.at[i].full <=> t.at[i].full,
           LivePlaces(u) = LivePlaces(t),
           \A i \in LivePlaces(t) : u.at[i].key = t.at[i].key /\ u.at[i].hash = t.at[i].hash
    PROVE  WellFormed(u, HashOfKey, Values) /\ Counted(u) /\ Keys(u) = Keys(t)
<1>1. IsTable(t, HashOfKey, Values) /\ AllReached(t) /\ KeysDiffer(t)
  BY DEF WellFormed
<1>2. u.size = t.size /\ u.used = t.used
  OBVIOUS
<1>3. \A h, k : Probe(u, h, k) = Probe(t, h, k)
  BY <1>2 DEF Probe
<1>4. IsTable(u, HashOfKey, Values)
  BY <1>1, <1>2 DEF IsTable
<1>5. ASSUME NEW i \in LivePlaces(u) PROVE Reached(u, i)
  <2>1. i \in LivePlaces(t) /\ Reached(t, i) /\ u.at[i].hash = t.at[i].hash
    BY <1>1 DEF AllReached
  <2>2. \A j \in 0 .. t.size - 1 : t.at[j].full => u.at[j].full
    OBVIOUS
  <2> QED
    BY <1>1, <1>2, <1>3, <2>1, <2>2, StillReached
<1>6. AllReached(u)
  BY <1>5 DEF AllReached
<1>7. KeysDiffer(u)
  BY <1>1 DEF KeysDiffer
<1>8. Counted(u)
  BY <1>2 DEF Counted
<1>9. Keys(u) = Keys(t)
  BY DEF Keys, LivePlaces
<1> QED
  BY <1>4, <1>6, <1>7, <1>8, <1>9 DEF WellFormed

\* The loop of garbageCollect, over the first places of a table.
Collecting(f, t, m) ==
    f = [i \in 0 .. m |->
            IF i = 0 THEN <<>>
            ELSE IF Live(t.at[i - 1])
            THEN Copied(f[i - 1], t.at[i - 1].value.term.n, t.at[i - 1].value.term.size)
            ELSE f[i - 1]]

LEMMA CollectingExists ==
    ASSUME NEW t, NEW l \in Nat
    PROVE  \E f : Collecting(f, t, l)
<1> DEFINE Step(f, i) ==
               IF Live(t.at[i - 1])
               THEN Copied(f[i - 1], t.at[i - 1].value.term.n, t.at[i - 1].value.term.size)
               ELSE f[i - 1]
           bad == {m \in Nat : ~\E f : Collecting(f, t, m)}
<1> SUFFICES ASSUME bad # {} PROVE FALSE
  OBVIOUS
<1>1. PICK m \in bad : \A k \in bad : m <= k
  BY LeastElement
<1>2. CASE m = 0
  <2>1. Collecting([i \in 0 .. 0 |-> <<>>], t, 0)
    BY DEF Collecting
  <2> QED
    BY <1>2, <2>1
<1>3. CASE m # 0
  <2>1. m - 1 \in Nat /\ m - 1 \notin bad
    BY <1>1, <1>3
  <2>2. PICK f : Collecting(f, t, m - 1)
    BY <2>1
  <2> DEFINE g == [i \in 0 .. m |-> IF i <= m - 1 THEN f[i] ELSE Step(f, i)]
  <2>3. ASSUME NEW i \in 0 .. m
        PROVE  g[i] = IF i = 0 THEN <<>> ELSE Step(g, i)
    <3>0. m \in Nat /\ m >= 1
      BY <1>1, <1>3
    <3>1. CASE i = 0
      <4>1. g[i] = f[0] /\ 0 \in 0 .. m - 1
        BY <3>0, <3>1
      <4>2. f[0] = <<>>
        BY <2>2, <4>1 DEF Collecting
      <4> QED
        BY <3>1, <4>1, <4>2
    <3>2. CASE i # 0
      <4>1. i - 1 \in 0 .. m /\ i - 1 <= m - 1
        BY <3>0, <3>2
      <4>2. g[i - 1] = f[i - 1]
        BY <4>1
      <4>3. Step(g, i) = Step(f, i)
        BY <4>2
      <4>4. g[i] = Step(f, i)
        <5>1. CASE i <= m - 1
          <6>1. g[i] = f[i] /\ i \in 0 .. m - 1
            BY <3>0, <5>1
          <6>2. f[i] = Step(f, i)
            BY <2>2, <3>2, <6>1 DEF Collecting
          <6> QED
            BY <6>1, <6>2
        <5>2. CASE ~(i <= m - 1)
          BY <5>2
        <5> QED
          BY <5>1, <5>2
      <4> QED
        BY <3>2, <4>3, <4>4
    <3> QED
      BY <3>1, <3>2
  <2>4. g = [i \in 0 .. m |-> g[i]]
    OBVIOUS
  <2> HIDE DEF g
  <2>5. Collecting(g, t, m)
    BY <2>3, <2>4 DEF Collecting
  <2> QED
    BY <1>1, <2>5
<1> QED
  BY <1>2, <1>3

\* g has what h has.
Extends(g, h) ==
    g \in Seq(Int) /\ h \in Seq(Int) /\ Len(h) <= Len(g) /\ \A k \in 1 .. Len(h) : g[k] = h[k]

LEMMA ExtendsMore ==
    ASSUME NEW a, NEW b, NEW c, Extends(a, b), Extends(b, c)
    PROVE  Extends(a, c)
<1>1. Len(a) \in Nat /\ Len(b) \in Nat /\ Len(c) \in Nat /\ Len(c) <= Len(b) /\ Len(b) <= Len(a)
  BY DEF Extends
<1>2. ASSUME NEW k \in 1 .. Len(c) PROVE a[k] = c[k]
  <2>1. k \in 1 .. Len(b)
    BY <1>1
  <2> QED
    BY <2>1 DEF Extends
<1> QED
  BY <1>1, <1>2 DEF Extends

LEMMA CopiedExtends ==
    ASSUME NEW h \in Seq(Int), NEW n \in Int, NEW size \in Nat
    PROVE  Extends(Copied(h, n, size), h)
<1>1. /\ Copied(h, n, size) \in Seq(Int) /\ Len(Copied(h, n, size)) = Len(h) + size
      /\ \A k \in 1 .. Len(h) : Copied(h, n, size)[k] = h[k]
  BY CopiedRight
<1>2. Len(h) \in Nat
  OBVIOUS
<1> QED
  BY <1>1, <1>2 DEF Extends

LEMMA CollectingSteps ==
    ASSUME NEW t, NEW l \in Nat, NEW f, Collecting(f, t, l)
    PROVE  /\ f[0] = <<>>
           /\ \A i \in 0 .. l - 1 :
                  f[i + 1] = IF Live(t.at[i])
                             THEN Copied(f[i], t.at[i].value.term.n, t.at[i].value.term.size)
                             ELSE f[i]
<1>1. f[0] = <<>>
  BY DEF Collecting
<1>2. ASSUME NEW i \in 1 .. l
      PROVE  f[i] = IF Live(t.at[i - 1])
                    THEN Copied(f[i - 1], t.at[i - 1].value.term.n, t.at[i - 1].value.term.size)
                    ELSE f[i - 1]
  <2>1. i \in 0 .. l /\ i # 0
    OBVIOUS
  <2> QED
    BY <2>1 DEF Collecting
<1>3. ASSUME NEW i \in 0 .. l - 1
      PROVE  f[i + 1] = IF Live(t.at[i])
                        THEN Copied(f[i], t.at[i].value.term.n, t.at[i].value.term.size)
                        ELSE f[i]
  <2>1. i + 1 \in 1 .. l /\ (i + 1) - 1 = i
    OBVIOUS
  <2> QED
    BY <1>2, <2>1
<1> QED
  BY <1>1, <1>3

\* What the loop has copied stays.
LEMMA CollectingExtends ==
    ASSUME NEW t, IsTable(t, HashOfKey, Values), NEW f, Collecting(f, t, t.size),
           NEW i \in 0 .. t.size, NEW j \in 0 .. i
    PROVE  Extends(f[i], f[j])
<1> DEFINE good(m) == \A l \in 0 .. m : Extends(f[m], f[l])
           bad == {m \in 0 .. t.size : ~good(m)}
<1>0. t.size \in Nat
  BY DEF IsTable
<1> SUFFICES ASSUME bad # {} PROVE FALSE
  OBVIOUS
<1>1. PICK m \in bad : \A k \in bad : m <= k
  <2>1. bad \in SUBSET Nat
    BY <1>0
  <2> QED
    BY <2>1, LeastElement
<1>2. CASE m = 0
  <2>1. f[0] = <<>>
    <3> HIDE DEF bad, good
    <3> QED
      BY <1>0, CollectingSteps
  <2>2. Extends(<<>>, <<>>)
    BY DEF Extends
  <2> QED
    BY <1>1, <1>2, <2>1, <2>2
<1>3. CASE m # 0
  <2>1. m - 1 \in 0 .. t.size /\ m - 1 \in Nat /\ m \in 1 .. t.size
    BY <1>0, <1>1, <1>3
  <2>2. good(m - 1)
    BY <1>1, <2>1
  <2>3. Extends(f[m - 1], f[m - 1])
    BY <2>1, <2>2
  <2>4. f[m - 1] \in Seq(Int)
    BY <2>3 DEF Extends
  <2> DEFINE v == t.at[m - 1].value
  <2>5. f[m] = IF Live(t.at[m - 1]) THEN Copied(f[m - 1], v.term.n, v.term.size) ELSE f[m - 1]
    <3>1. m - 1 \in 0 .. t.size - 1 /\ (m - 1) + 1 = m
      BY <1>0, <2>1
    <3>2. f[(m - 1) + 1] = IF Live(t.at[m - 1]) THEN Copied(f[m - 1], v.term.n, v.term.size)
                           ELSE f[m - 1]
      BY <1>0, <3>1, CollectingSteps
    <3> QED
      BY <3>1, <3>2
  <2>6. Extends(f[m], f[m - 1])
    <3>1. CASE ~Live(t.at[m - 1])
      BY <2>3, <2>5, <3>1
    <3>2. CASE Live(t.at[m - 1])
      <4>1. m - 1 \in LivePlaces(t)
        BY <1>0, <2>1, <3>2 DEF LivePlaces, IsTable
      <4>2. v \in Values
        BY <4>1, LivePlace
      <4> HIDE DEF v
      <4>3. v.term.n \in Int /\ v.term.size \in Nat
        BY <4>2, ValueType
      <4>4. f[m] = Copied(f[m - 1], v.term.n, v.term.size)
        BY <2>5, <3>2
      <4> QED
        BY <2>4, <4>3, <4>4, CopiedExtends
    <3> QED
      BY <3>1, <3>2
  <2>7. ASSUME NEW l \in 0 .. m PROVE Extends(f[m], f[l])
    <3>1. CASE l = m
      BY <2>6, <3>1 DEF Extends
    <3>2. CASE l # m
      <4>1. l \in 0 .. m - 1
        BY <2>1, <3>2
      <4>2. Extends(f[m - 1], f[l])
        BY <2>2, <4>1
      <4> QED
        BY <2>6, <4>2, ExtendsMore
    <3> QED
      BY <3>1, <3>2
  <2> QED
    BY <1>1, <2>7
<1> QED
  BY <1>2, <1>3

\* The value at a place when its term has been copied behind a heap.
Moved(t, i, h) ==
    LET term == t.at[i].value.term
        value == TermAt(term.n, term.size, Top(h)) IN
    Noted(value, term.size, IF term.size = 0 THEN 0 ELSE value.at)

\* A collection, as the loop that it is.
LEMMA CollectedIs ==
    ASSUME IsTable(ht, HashOfKey, Values)
    PROVE  \E f : /\ Collecting(f, ht, ht.size)
                  /\ Collected.heap = f[ht.size]
                  /\ Collected.ht =
                        [size |-> ht.size, used |-> ht.used,
                         at |-> [i \in 0 .. ht.size - 1 |->
                                   IF Live(ht.at[i])
                                   THEN [ht.at[i] EXCEPT !.value = Moved(ht, i, f[i])]
                                   ELSE ht.at[i]]]
<1> DEFINE f == CHOOSE g : Collecting(g, ht, ht.size)
           at == [i \in 0 .. ht.size - 1 |->
                    IF Live(ht.at[i]) THEN [ht.at[i] EXCEPT !.value = Moved(ht, i, f[i])]
                    ELSE ht.at[i]]
<1>1. ht.size \in Nat /\ DOMAIN ht.at = 0 .. ht.size - 1
      /\ ht = [size |-> ht.size, used |-> ht.used, at |-> ht.at]
  BY DEF IsTable
<1>2. Collecting(f, ht, ht.size)
  BY <1>1, CollectingExists
<1>3. Collected.heap = f[ht.size]
  BY DEF Collected, Collecting
<1>4. Collected.ht = [ht EXCEPT !.at = at]
  <2> DEFINE moved == [i \in DOMAIN ht.at |->
                         IF Live(ht.at[i]) THEN [ht.at[i] EXCEPT !.value = Moved(ht, i, f[i])]
                         ELSE ht.at[i]]
  <2>1. Collected.ht = [ht EXCEPT !.at = moved]
    BY DEF Collected, Collecting, Moved
  <2> HIDE DEF f
  <2>2. moved = at
    BY <1>1
  <2> QED
    BY <2>1, <2>2
<1> HIDE DEF f, at
<1>5. [ht EXCEPT !.at = at] = [size |-> ht.size, used |-> ht.used, at |-> at]
  BY <1>1
<1> QED
  BY <1>2, <1>3, <1>4, <1>5 DEF at

\* A collection keeps the terms that the table leads to, each at a place of its own.
LEMMA CollectedRight ==
    ASSUME NEW s, TermsRight(ht, heap, s)
    PROVE  TermsRight(Collected.ht, Collected.heap, s) /\ Keys(Collected.ht) = Keys(ht)
<1> DEFINE t == ht
           u == Collected.ht
           g == Collected.heap
<1>1. /\ WellFormed(t, HashOfKey, Values) /\ Counted(t) /\ IsTable(t, HashOfKey, Values)
      /\ KeysDiffer(t) /\ t.size \in Nat \ {0} /\ DOMAIN t.at = 0 .. t.size - 1
      /\ t.at \in [0 .. t.size - 1 -> Slots(HashOfKey, Values)]
  BY DEF TermsRight, WellFormed, IsTable
<1>2. PICK f : /\ Collecting(f, t, t.size)
               /\ g = f[t.size]
               /\ u = [size |-> t.size, used |-> t.used,
                       at |-> [i \in 0 .. t.size - 1 |->
                                 IF Live(t.at[i])
                                 THEN [t.at[i] EXCEPT !.value = Moved(t, i, f[i])]
                                 ELSE t.at[i]]]
  BY <1>1, CollectedIs
<1> HIDE DEF u, g
<1>3. \A i \in 0 .. t.size : \A j \in 0 .. i : Extends(f[i], f[j])
  BY <1>1, <1>2, CollectingExtends
<1> DEFINE v(i) == Moved(t, i, f[i])
           term(i) == t.at[i].value.term
<1>4. ASSUME NEW i \in LivePlaces(t)
      PROVE  /\ i \in 0 .. t.size - 1 /\ i \in Nat
             /\ term(i).n \in Nat /\ term(i).size \in Nat
             /\ f[i] \in Seq(Int) /\ f[i + 1] \in Seq(Int)
             /\ f[i + 1] = Copied(f[i], term(i).n, term(i).size)
             /\ Extends(g, f[i + 1]) /\ g \in Seq(Int)
  <2>1. i \in 0 .. t.size - 1 /\ Live(t.at[i])
    BY <1>1 DEF LivePlaces
  <2>2. t.at[i].value \in Values
    BY <1>1, LivePlace
  <2>3. term(i).n \in Nat /\ term(i).size \in Nat
    BY <2>2, ValueType
  <2>4. i + 1 \in 0 .. t.size /\ t.size \in 0 .. t.size /\ i \in 0 .. i + 1 /\ i + 1 \in 0 .. t.size
    BY <1>1, <2>1
  <2>5. Extends(f[i + 1], f[i]) /\ Extends(f[t.size], f[i + 1])
    BY <1>3, <2>4
  <2>6. f[i + 1] = Copied(f[i], term(i).n, term(i).size)
    BY <1>1, <1>2, <2>1, CollectingSteps
  <2>7. Extends(g, f[i + 1])
    BY <1>2, <2>5
  <2>8. f[i] \in Seq(Int) /\ f[i + 1] \in Seq(Int) /\ g \in Seq(Int)
    BY <2>5, <2>7 DEF Extends
  <2>9. i \in Nat
    BY <2>1
  <2> QED
    BY <2>1, <2>3, <2>6, <2>7, <2>8, <2>9
<1>5. ASSUME NEW i \in LivePlaces(t)
      PROVE  /\ v(i) \in Values /\ v(i).term.n = term(i).n
             /\ v(i).term.size = term(i).size /\ v(i).size = term(i).size
             /\ v(i).term.at = Len(f[i]) + 1
             /\ v(i).ptr = IF term(i).size = 0 THEN 0 ELSE Len(f[i]) + 1
  <2>1. term(i).n \in Nat /\ term(i).size \in Nat /\ Len(f[i]) \in Nat
    BY <1>4
  <2> DEFINE n == term(i).n
             size == term(i).size
             at == Len(f[i]) + 1
             ptr == IF size = 0 THEN 0 ELSE at
  <2>2. at \in Nat /\ ptr \in Nat
    BY <2>1
  <2>3. TermAt(n, size, at).at = at
    BY DEF TermAt
  <2>4. v(i) = Noted(TermAt(n, size, at), size, ptr)
    BY <2>3 DEF Moved, Top
  <2> HIDE DEF v, n, size, at, ptr
  <2>5. n \in Nat /\ size \in Nat
    BY <2>1 DEF n, size
  <2> DEFINE w == Noted(TermAt(n, size, at), size, ptr)
  <2>6. /\ w \in Values /\ w.term.n = n /\ w.term.size = size /\ w.term.at = at
        /\ w.size = size /\ w.ptr = ptr
    BY <2>2, <2>5, NotedType
  <2> HIDE DEF w
  <2>7. v(i) = w
    BY <2>4 DEF w
  <2> QED
    BY <2>6, <2>7 DEF n, size, at, ptr
<1> HIDE DEF v
<1>6. ASSUME NEW i \in LivePlaces(t) PROVE HasTerm(g, v(i))
  <2> DEFINE h == f[i]
             c == f[i + 1]
             n == term(i).n
             size == term(i).size
  <2>1. /\ n \in Nat /\ size \in Nat /\ h \in Seq(Int) /\ c \in Seq(Int) /\ g \in Seq(Int)
        /\ c = Copied(h, n, size) /\ Extends(g, c)
    BY <1>4
  <2>2. /\ v(i).term.n = n /\ v(i).term.size = size /\ v(i).size = size
        /\ v(i).term.at = Len(h) + 1 /\ v(i).ptr = IF size = 0 THEN 0 ELSE Len(h) + 1
    BY <1>5
  <2> HIDE DEF h, c, n, size, g
  <2>3. /\ Len(c) = Len(h) + size /\ Len(h) \in Nat
        /\ \A k \in Len(h) + 1 .. Len(h) + size : c[k] = n
    BY <2>1, CopiedRight
  <2>4. Len(c) <= Len(g) /\ Len(g) \in Nat /\ \A k \in 1 .. Len(c) : g[k] = c[k]
    BY <2>1 DEF Extends
  <2>5. ASSUME NEW k \in v(i).ptr .. v(i).ptr + v(i).term.size - 1 PROVE g[k] = v(i).term.n
    <3>1. size # 0 /\ k \in Len(h) + 1 .. Len(h) + size
      BY <2>1, <2>2, <2>3
    <3>2. k \in 1 .. Len(c)
      BY <2>1, <2>3, <3>1
    <3> QED
      BY <2>2, <2>3, <2>4, <3>1, <3>2
  <2>6. v(i).size # 0 => 1 <= v(i).ptr /\ v(i).ptr + v(i).size <= Len(g) + 1
    BY <2>1, <2>2, <2>3, <2>4
  <2> QED
    BY <2>1, <2>2, <2>5, <2>6 DEF HasTerm
<1>7. ASSUME NEW i \in LivePlaces(t), NEW j \in LivePlaces(t), i < j
      PROVE  Apart(v(i), v(j)) /\ Apart(v(j), v(i))
  <2>1. /\ i \in 0 .. t.size - 1 /\ j \in 0 .. t.size - 1
        /\ term(i).n \in Nat /\ term(i).size \in Nat /\ term(j).size \in Nat
        /\ f[i] \in Seq(Int) /\ f[j] \in Seq(Int)
        /\ f[i + 1] = Copied(f[i], term(i).n, term(i).size)
    BY <1>4
  <2> DEFINE a == term(i).size
             b == term(j).size
             m == Len(f[i])
             l == Len(f[j])
  <2>2. Len(f[i + 1]) = m + a
    <3> DEFINE h == f[i]
               n == term(i).n
    <3>1. h \in Seq(Int) /\ n \in Int /\ a \in Nat /\ f[i + 1] = Copied(h, n, a)
      BY <2>1
    <3> HIDE DEF h, n, a
    <3>2. Len(Copied(h, n, a)) = Len(h) + a
      BY <3>1, CopiedRight
    <3> QED
      BY <3>1, <3>2 DEF h
  <2>3. i + 1 \in 0 .. j /\ j \in 0 .. t.size
    BY <1>1, <1>7, <2>1
  <2>4. Len(f[i + 1]) <= Len(f[j])
    BY <1>3, <2>3 DEF Extends
  <2>5. m \in Nat /\ l \in Nat /\ a \in Nat /\ b \in Nat
    BY <2>1
  <2>6. /\ v(i).size = a /\ v(i).ptr = IF a = 0 THEN 0 ELSE m + 1
        /\ v(j).size = b /\ v(j).ptr = IF b = 0 THEN 0 ELSE l + 1
    BY <1>5
  <2>7. m + a <= l
    BY <2>2, <2>4
  <2> HIDE DEF a, b, m, l
  <2> QED
    BY <2>5, <2>6, <2>7 DEF Apart
<1>8. u = [size |-> t.size, used |-> t.used, at |-> u.at]
  BY <1>2
<1>9. ASSUME NEW i \in 0 .. t.size - 1
      PROVE  u.at[i] = IF Live(t.at[i]) THEN [t.at[i] EXCEPT !.value = v(i)] ELSE t.at[i]
  BY <1>2 DEF v
<1>10. DOMAIN u.at = 0 .. t.size - 1 /\ u.at = [i \in 0 .. t.size - 1 |-> u.at[i]]
  BY <1>2
<1>11. ASSUME NEW i \in LivePlaces(t)
       PROVE  /\ i \in 0 .. t.size - 1
              /\ u.at[i] \in Slots(HashOfKey, Values) /\ Live(u.at[i])
              /\ u.at[i].key = t.at[i].key /\ u.at[i].hash = t.at[i].hash
              /\ u.at[i].value = v(i)
  <2>1. i \in 0 .. t.size - 1 /\ Live(t.at[i])
    BY <1>1 DEF LivePlaces
  <2>2. v(i) \in Values
    BY <1>5
  <2>3. u.at[i] = [t.at[i] EXCEPT !.value = v(i)]
    BY <1>9, <2>1
  <2> QED
    BY <1>1, <2>1, <2>2, <2>3, ChangedEntry
<1>12. ASSUME NEW i \in 0 .. t.size - 1, i \notin LivePlaces(t)
       PROVE  u.at[i] = t.at[i] /\ ~Live(u.at[i]) /\ u.at[i] \in Slots(HashOfKey, Values)
  BY <1>1, <1>9, <1>12 DEF LivePlaces
<1>13. u.at \in [0 .. t.size - 1 -> Slots(HashOfKey, Values)]
  BY <1>10, <1>11, <1>12
<1>14. LivePlaces(u) = LivePlaces(t)
  <2>1. \A i \in 0 .. t.size - 1 : i \in LivePlaces(u) <=> i \in LivePlaces(t)
    BY <1>10, <1>11, <1>12 DEF LivePlaces
  <2>2. LivePlaces(u) \subseteq 0 .. t.size - 1 /\ LivePlaces(t) \subseteq 0 .. t.size - 1
    BY <1>1, <1>10 DEF LivePlaces
  <2> QED
    BY <2>1, <2>2
<1>15. \A i \in 0 .. t.size - 1 : u.at[i].full <=> t.at[i].full
  <2>1. ASSUME NEW i \in LivePlaces(t) PROVE u.at[i].full /\ t.at[i].full
    <3>1. Live(t.at[i]) /\ Live(u.at[i])
      BY <1>11, <1>14 DEF LivePlaces
    <3> QED
      BY <3>1 DEF Live
  <2> QED
    BY <1>12, <2>1
<1>16. WellFormed(u, HashOfKey, Values) /\ Counted(u) /\ Keys(u) = Keys(t)
  BY <1>1, <1>8, <1>11, <1>13, <1>14, <1>15, Reshaped
<1>17. ASSUME NEW e \in Items(u)
       PROVE  \E i \in LivePlaces(t) : e = u.at[i] /\ e.key = t.at[i].key /\ e.value = v(i)
  BY <1>11, <1>14 DEF Items
<1>18. Kept(Items(u), g)
  <2>1. ASSUME NEW e \in Items(u) PROVE HasTerm(g, e.value)
    BY <1>6, <1>17
  <2>2. ASSUME NEW e \in Items(u), NEW d \in Items(u), e # d PROVE Apart(e.value, d.value)
    <3>1. PICK i \in LivePlaces(t) : e = u.at[i] /\ e.value = v(i)
      BY <1>17
    <3>2. PICK j \in LivePlaces(t) : d = u.at[j] /\ d.value = v(j)
      BY <1>17
    <3>3. i # j /\ i \in Nat /\ j \in Nat
      BY <1>4, <2>2, <3>1, <3>2
    <3>4. i < j \/ j < i
      BY <3>3
    <3> QED
      BY <1>7, <3>1, <3>2, <3>4
  <2> QED
    BY <2>1, <2>2 DEF Kept
<1>19. g \in Seq(Int)
  <2>1. t.size \in 0 .. t.size
    BY <1>1
  <2>2. Extends(f[t.size], f[t.size])
    BY <1>3, <2>1
  <2> QED
    BY <1>2, <2>2 DEF Extends
<1>20. ASSUME NEW e \in Items(u) PROVE e.value.term.n = s[e.key]
  <2>1. PICK i \in LivePlaces(t) : e.key = t.at[i].key /\ e.value = v(i)
    BY <1>17
  <2>2. t.at[i] \in Items(t)
    BY DEF Items
  <2>3. term(i).n = s[t.at[i].key]
    BY <2>2 DEF TermsRight, LastStored
  <2> QED
    BY <1>5, <2>1, <2>3
<1>21. s \in [Keys(u) -> Nat]
  BY <1>16 DEF TermsRight
<1>22. TermsRight(u, g, s)
  BY <1>16, <1>18, <1>19, <1>20, <1>21 DEF TermsRight, LastStored
<1> QED
  BY <1>16, <1>22 DEF u, g

\* A term that has just been copied behind a heap has no place in common with what the
\* heap has.
LEMMA NewApart ==
    ASSUME NEW t, NEW h, NEW s, TermsRight(t, h, s), NEW v \in Values,
           v.size # 0 => v.ptr = Len(h) + 1, NEW e \in Items(t)
    PROVE  Apart(e.value, v) /\ Apart(v, e.value)
<1>1. HasTerm(h, e.value) /\ e.value \in Values /\ Len(h) \in Nat
  BY ItemType DEF TermsRight, Kept
<1>2. e.value.size \in Nat /\ e.value.ptr \in Nat /\ v.size \in Nat /\ v.ptr \in Nat
  BY <1>1, ValueType
<1> QED
  BY <1>1, <1>2 DEF HasTerm, Apart

\* A term that is copied, with what may be noted for it.
LEMMA CopiedTerm ==
    ASSUME NEW t, NEW h, NEW s, TermsRight(t, h, s), NEW size \in Nat, NEW n \in Nat,
           NEW ptr \in Nat, size # 0 => ptr = Top(h),
           NEW g, g = Copied(h, n, size), NEW w, w = Noted(TermAt(n, size, Top(h)), size, ptr)
    PROVE  /\ TermsRight(t, g, s) /\ g \in Seq(Int)
           /\ w \in Values /\ HasTerm(g, w)
           /\ \A e \in Items(t) : Apart(e.value, w) /\ Apart(w, e.value)
<1>1. h \in Seq(Int) /\ Len(h) \in Nat /\ n \in Int
  BY DEF TermsRight
<1>2. /\ g \in Seq(Int) /\ Len(g) = Len(h) + size
      /\ \A k \in Len(h) + 1 .. Len(h) + size : g[k] = n
  BY <1>1, CopiedRight
<1>3. TermsRight(t, g, s)
  BY <1>1, GrownRight
<1>4. Top(h) = Len(h) + 1 /\ Top(h) \in Nat
  BY <1>1 DEF Top
<1> DEFINE at == Top(h)
<1>5. /\ w \in Values /\ w.term.n = n /\ w.term.size = size /\ w.term.at = at
      /\ w.size = size /\ w.ptr = ptr
  <2>1. at \in Nat /\ w = Noted(TermAt(n, size, at), size, ptr)
    BY <1>4
  <2> HIDE DEF at
  <2>2. TermAt(n, size, at) = [n |-> n, size |-> size, at |-> at]
    BY DEF TermAt
  <2>3. w = [term |-> TermAt(n, size, at), size |-> size, ptr |-> ptr]
    BY <2>1 DEF Noted
  <2>4. w.term = TermAt(n, size, at) /\ w.size = size /\ w.ptr = ptr
    BY <2>3
  <2>5. w.term.n = n /\ w.term.size = size /\ w.term.at = at
    BY <2>2, <2>4
  <2>6. w \in Values
    BY <2>1, <2>2, <2>3 DEF Values
  <2> QED
    BY <2>4, <2>5, <2>6
<1>6. ASSUME NEW k \in w.ptr .. w.ptr + w.term.size - 1 PROVE g[k] = w.term.n
  <2>1. size # 0 /\ k \in Len(h) + 1 .. Len(h) + size
    BY <1>1, <1>4, <1>5
  <2> QED
    BY <1>2, <1>5, <2>1
<1>7. HasTerm(g, w)
  <2>1. w.term.size <= w.size
    BY <1>5
  <2>2. w.term.size # 0 => w.term.at = w.ptr
    BY <1>5
  <2>3. w.size # 0 => 1 <= w.ptr /\ w.ptr + w.size <= Len(g) + 1
    BY <1>1, <1>2, <1>4, <1>5
  <2> QED
    BY <1>6, <2>1, <2>2, <2>3 DEF HasTerm
<1>8. \A e \in Items(t) : Apart(e.value, w) /\ Apart(w, e.value)
  BY <1>4, <1>5, NewApart
<1> QED
  BY <1>2, <1>3, <1>5, <1>7, <1>8

\* addEntry, of a key that the table does not have.
LEMMA AddNew ==
    ASSUME NEW t, NEW h, NEW s, TermsRight(t, h, s), NEW key \in UserKeys, key \notin Keys(t),
           NEW size \in Nat, NEW n \in Nat, NEW ptr \in Nat, size # 0 => ptr = Top(h)
    PROVE  TermsRight(Insert(t, Entry(key, HashOfKey[key],
                                      Noted(TermAt(n, size, Top(h)), size, ptr))),
                      Copied(h, n, size),
                      [k \in Keys(t) \union {key} |-> IF k = key THEN n ELSE s[k]])
<1> DEFINE g == Copied(h, n, size)
           w == Noted(TermAt(n, size, Top(h)), size, ptr)
<1>1. /\ TermsRight(t, g, s) /\ w \in Values /\ w.term.n = n /\ HasTerm(g, w)
      /\ \A e \in Items(t) : Apart(e.value, w) /\ Apart(w, e.value)
  <2>1. g = Copied(h, n, size) /\ w = Noted(TermAt(n, size, Top(h)), size, ptr)
    OBVIOUS
  <2> HIDE DEF g, w
  <2>2. TermsRight(t, g, s) /\ w \in Values /\ HasTerm(g, w)
        /\ \A e \in Items(t) : Apart(e.value, w) /\ Apart(w, e.value)
    BY <2>1, CopiedTerm
  <2>3. w.term.n = n
    BY <2>1 DEF Noted, TermAt
  <2> QED
    BY <2>2, <2>3
<1> HIDE DEF g, w
<1>2. TermsRight(Insert(t, Entry(key, HashOfKey[key], w)), g,
                 [k \in Keys(t) \union {key} |-> IF k = key THEN w.term.n ELSE s[k]])
  BY <1>1, InsertedRight
<1>3. TermsRight(Insert(t, Entry(key, HashOfKey[key], w)), g,
                 [k \in Keys(t) \union {key} |-> IF k = key THEN n ELSE s[k]])
  BY <1>1, <1>2
<1> QED
  BY <1>3 DEF g, w

\* What is noted for a value, with another term.
LEMMA OtherTerm ==
    ASSUME NEW v \in Values, NEW n \in Nat, NEW size \in Nat, NEW at \in Nat
    PROVE  LET w == [v EXCEPT !.term = TermAt(n, size, at)] IN
           /\ w \in Values /\ w.term.n = n /\ w.term.size = size /\ w.term.at = at
           /\ w.size = v.size /\ w.ptr = v.ptr
<1> DEFINE x == TermAt(n, size, at)
           w == [v EXCEPT !.term = x]
<1>1. x \in [n : Nat, size : Nat, at : Nat] /\ x.n = n /\ x.size = size /\ x.at = at
  BY DEF TermAt
<1> HIDE DEF x
<1>2. w \in Values /\ w.term = x /\ w.size = v.size /\ w.ptr = v.ptr
  BY <1>1 DEF Values
<1> QED
  BY <1>1, <1>2 DEF x

\* addEntry, of a key that the table has: the heap and the value that come of it.
LEMMA AddOver ==
    ASSUME NEW t, NEW h, NEW s, TermsRight(t, h, s), NEW i \in LivePlaces(t),
           NEW size \in Nat, NEW n \in Nat
    PROVE  LET old == t.at[i].value
               v == TermAt(n, size, Top(h))
               g == IF InPlace(old, size) THEN Overwritten(h, n, size, old.ptr)
                    ELSE Copied(h, n, size)
               w == IF InPlace(old, size) THEN [old EXCEPT !.term = TermAt(n, size, old.ptr)]
                    ELSE IF size # 0 THEN Noted(v, size, v.at)
                    ELSE [old EXCEPT !.term = v] IN
           /\ w \in Values /\ w.term.n = n /\ g \in Seq(Int) /\ HasTerm(g, w)
           /\ \A e \in Items(t) : e # t.at[i] =>
                  HasTerm(g, e.value) /\ Apart(e.value, w) /\ Apart(w, e.value)
<1> DEFINE old == t.at[i].value
<1>0. /\ WellFormed(t, HashOfKey, Values) /\ h \in Seq(Int) /\ IsTable(t, HashOfKey, Values)
      /\ Len(h) \in Nat /\ n \in Int
  BY DEF TermsRight, WellFormed
<1>1. old \in Values /\ t.at[i] \in Items(t)
  BY <1>0, LivePlace DEF Items
<1>2. HasTerm(h, old) /\ \A e \in Items(t) : e # t.at[i] =>
          HasTerm(h, e.value) /\ Apart(e.value, old) /\ Apart(old, e.value) /\ e.value \in Values
  BY <1>0, <1>1, ItemType DEF TermsRight, Kept
<1> HIDE DEF old
<1>3. old.size \in Nat /\ old.ptr \in Nat
  BY <1>1, ValueType
<1>4. CASE InPlace(old, size)
  <2> DEFINE g == Overwritten(h, n, size, old.ptr)
             w == [old EXCEPT !.term = TermAt(n, size, old.ptr)]
  <2>1. /\ w \in Values /\ w.term.n = n /\ w.term.size = size /\ w.term.at = old.ptr
        /\ w.size = old.size /\ w.ptr = old.ptr
    BY <1>1, <1>3, OtherTerm
  <2>2. /\ g \in Seq(Int) /\ Len(g) = Len(h)
        /\ \A k \in 1 .. Len(h) : g[k] = IF k \in old.ptr .. old.ptr + size - 1 THEN n ELSE h[k]
    BY <1>0, <1>3, OverwrittenRight
  <2> HIDE DEF g, w
  <2>3. /\ old.size >= size /\ size # 0 /\ old.size # 0
        /\ 1 <= old.ptr /\ old.ptr + old.size <= Len(h) + 1
    BY <1>2, <1>3, <1>4 DEF InPlace, HasTerm
  <2>4. ASSUME NEW k \in w.ptr .. w.ptr + w.term.size - 1 PROVE g[k] = w.term.n
    <3>1. k \in old.ptr .. old.ptr + size - 1 /\ k \in 1 .. Len(h)
      BY <1>0, <1>3, <2>1, <2>3
    <3> QED
      BY <2>1, <2>2, <3>1
  <2>5. HasTerm(g, w)
    BY <1>0, <1>3, <2>1, <2>2, <2>3, <2>4 DEF HasTerm
  <2>6. ASSUME NEW e \in Items(t), e # t.at[i]
        PROVE  HasTerm(g, e.value) /\ Apart(e.value, w) /\ Apart(w, e.value)
    <3> DEFINE v == e.value
    <3>1. HasTerm(h, v) /\ Apart(v, old) /\ Apart(old, v) /\ v \in Values
      BY <1>2, <2>6
    <3> HIDE DEF v
    <3>2. v.size \in Nat /\ v.ptr \in Nat /\ v.term.size \in Nat
      BY <3>1, ValueType
    <3>3. ASSUME NEW k \in v.ptr .. v.ptr + v.term.size - 1 PROVE g[k] = v.term.n
      <4>0. /\ v.term.size <= v.size
            /\ v.size # 0 => 1 <= v.ptr /\ v.ptr + v.size <= Len(h) + 1
        BY <3>1 DEF HasTerm
      <4> DEFINE a == v.ptr
                 b == v.size
                 c == v.term.size
                 l == Len(h)
      <4>5. a \in Nat /\ b \in Nat /\ c \in Nat /\ l \in Nat /\ c <= b
            /\ (b # 0 => 1 <= a /\ a + b <= l + 1) /\ k \in a .. a + c - 1
        BY <1>0, <3>2, <4>0
      <4>1. v.size # 0 /\ k \in v.ptr .. v.ptr + v.size - 1 /\ k \in 1 .. Len(h)
        <5> HIDE DEF a, b, c, l
        <5>1. b # 0 /\ k \in a .. a + b - 1 /\ k \in 1 .. l
          BY <4>5
        <5> QED
          BY <5>1 DEF a, b, l
      <4>3. h[k] = v.term.n
        BY <3>1 DEF HasTerm
      <4>2. k \notin old.ptr .. old.ptr + size - 1
        <5>1. v.ptr + v.size <= old.ptr \/ old.ptr + old.size <= v.ptr
          BY <2>3, <3>1, <4>1 DEF Apart
        <5> DEFINE d == old.ptr
                   e2 == old.size
        <5>2. d \in Nat /\ e2 \in Nat /\ size <= e2
              /\ (a + b <= d \/ d + e2 <= a) /\ k \in a .. a + b - 1
          BY <1>3, <2>3, <4>1, <5>1
        <5>3. d = old.ptr
          OBVIOUS
        <5> HIDE DEF a, b, d, e2
        <5>4. k \notin d .. d + size - 1
          BY <4>5, <5>2
        <5> QED
          BY <5>3, <5>4
      <4> QED
        BY <2>2, <4>1, <4>2, <4>3
    <3>4. HasTerm(g, v)
      BY <2>2, <3>1, <3>3 DEF HasTerm
    <3>5. Apart(v, w) /\ Apart(w, v)
      BY <2>1, <3>1 DEF Apart
    <3> QED
      BY <3>4, <3>5 DEF v
  <2> QED
    BY <1>4, <2>1, <2>2, <2>5, <2>6 DEF g, w, old
<1>5. CASE ~InPlace(old, size) /\ size # 0
  <2> DEFINE g == Copied(h, n, size)
             w == Noted(TermAt(n, size, Top(h)), size, Top(h))
  <2>0. Top(h) = Len(h) + 1 /\ Top(h) \in Nat /\ TermAt(n, size, Top(h)).at = Top(h)
    BY <1>0 DEF Top, TermAt
  <2>1. /\ TermsRight(t, g, s) /\ g \in Seq(Int)
        /\ w \in Values /\ w.term.n = n /\ HasTerm(g, w)
        /\ \A e \in Items(t) : Apart(e.value, w) /\ Apart(w, e.value)
    <3> DEFINE ptr == Top(h)
    <3>1. ptr \in Nat /\ (size # 0 => ptr = Top(h)) /\ g = Copied(h, n, size)
          /\ w = Noted(TermAt(n, size, Top(h)), size, ptr)
      BY <2>0
    <3> HIDE DEF g, w, ptr
    <3>2. TermsRight(t, g, s) /\ g \in Seq(Int) /\ w \in Values /\ HasTerm(g, w)
          /\ \A e \in Items(t) : Apart(e.value, w) /\ Apart(w, e.value)
      BY <3>1, CopiedTerm
    <3>3. w.term.n = n
      BY <3>1 DEF Noted, TermAt
    <3> QED
      BY <3>2, <3>3
  <2> HIDE DEF g, w
  <2>2. \A e \in Items(t) : HasTerm(g, e.value)
    BY <2>1 DEF TermsRight, Kept
  <2> QED
    BY <1>5, <2>0, <2>1, <2>2 DEF g, w, old
<1>6. CASE ~InPlace(old, size) /\ size = 0
  <2> DEFINE g == Copied(h, n, size)
             w == [old EXCEPT !.term = TermAt(n, size, Top(h))]
  <2>0. Top(h) \in Nat
    BY <1>0 DEF Top
  <2>1. w \in Values /\ w.term.n = n /\ w.term.size = 0 /\ w.size = old.size /\ w.ptr = old.ptr
    BY <1>1, <1>6, <2>0, OtherTerm
  <2>2. g \in Seq(Int) /\ Len(g) = Len(h) + size /\ TermsRight(t, g, s)
    BY <1>0, CopiedRight, GrownRight
  <2> HIDE DEF g, w
  <2>3. HasTerm(g, w)
    BY <1>0, <1>2, <1>3, <1>6, <2>1, <2>2 DEF HasTerm
  <2>4. ASSUME NEW e \in Items(t), e # t.at[i]
        PROVE  HasTerm(g, e.value) /\ Apart(e.value, w) /\ Apart(w, e.value)
    <3>1. HasTerm(g, e.value)
      BY <2>2 DEF TermsRight, Kept
    <3>2. Apart(e.value, old) /\ Apart(old, e.value)
      BY <1>2, <2>4
    <3> QED
      BY <2>1, <3>1, <3>2 DEF Apart
  <2> QED
    BY <1>6, <2>1, <2>2, <2>3, <2>4 DEF g, w, old
<1> QED
  BY <1>4, <1>5, <1>6

\* The table and the heap that addEntry meets, which may have been collected.
LEMMA BeforeRight ==
    ASSUME TermsRight(ht, heap, stored)
    PROVE  TermsRight(Before.ht, Before.heap, stored) /\ Keys(Before.ht) = Keys(ht)
<1>1. CASE Full
  <2>1. Before = Collected
    BY <1>1 DEF Before
  <2> QED
    BY <2>1, CollectedRight
<1>2. CASE ~Full
  <2>1. Before.ht = ht /\ Before.heap = heap
    BY <1>2 DEF Before
  <2> QED
    BY <2>1
<1> QED
  BY <1>1, <1>2

LEMMA InsertKeeps ==
    ASSUME HashInv, NEW key \in UserKeys, NEW size \in Sizes, HashInsert(key, size)
    PROVE  HashInv'
<1> DEFINE b == Before
           n == writes + 1
           h == Copied(b.heap, -1, KeySize(key))
           i == Search(b.ht, key, HashOfKey[key])
           old == b.ht.at[i].value
           v == TermAt(n, size, Top(h))
           s == [k \in Keys(b.ht) \union {key} |-> IF k = key THEN n ELSE stored[k]]
<1>1. TermsRight(ht, heap, stored) /\ writes \in Nat /\ n \in Nat /\ writes' = n
  BY DEF HashInv, HashInsert
<1>2. undefined' \in BOOLEAN /\ writes' \in Nat
  BY <1>1 DEF HashInsert
<1>3. size \in Nat /\ KeySize(key) \in Nat
  BY HashAssumption DEF HashAssumption, KeySize
<1>4. TermsRight(b.ht, b.heap, stored) /\ Keys(b.ht) = Keys(ht)
  BY <1>1, BeforeRight
<1>5. TermsRight(b.ht, h, stored)
  BY <1>3, <1>4, GrownRight
<1>6. DOMAIN stored = Keys(b.ht)
  BY <1>5 DEF TermsRight
<1>7. stored' = s
  BY <1>6 DEF HashInsert
<1>8. heap' = IF i # -1 /\ InPlace(old, size) THEN Overwritten(h, n, size, old.ptr)
              ELSE Copied(h, n, size)
  BY DEF HashInsert, AddEntry
<1>9. ht' = IF i = -1
            THEN Insert(b.ht, Entry(key, HashOfKey[key],
                                    Noted(v, size, IF size = 0 THEN 0 ELSE v.at)))
            ELSE [b.ht EXCEPT !.at[i].value =
                     IF InPlace(old, size) THEN [old EXCEPT !.term = TermAt(n, size, old.ptr)]
                     ELSE IF size # 0 THEN Noted(v, size, v.at)
                     ELSE [old EXCEPT !.term = v]]
  BY DEF HashInsert, AddEntry
<1>10. WellFormed(b.ht, HashOfKey, Values) /\ key \in DOMAIN HashOfKey /\ HashOfKey[key] \in Nat
  BY <1>5, HashAssumption DEF TermsRight, HashAssumption
<1>11. v.at = Top(h) /\ Top(h) \in Nat
  BY <1>5 DEF TermAt, Top, TermsRight
<1> HIDE DEF b, n, h
<1>12. ASSUME i = -1 PROVE TermsRight(ht', heap', stored')
  <2> DEFINE ptr == IF size = 0 THEN 0 ELSE v.at
  <2>1. key \notin Keys(b.ht)
    BY <1>10, <1>12, SearchFinds
  <2>2. ptr \in Nat /\ (size # 0 => ptr = Top(h))
    BY <1>11
  <2>3. heap' = Copied(h, n, size)
    BY <1>8, <1>12
  <2>4. ht' = Insert(b.ht, Entry(key, HashOfKey[key], Noted(TermAt(n, size, Top(h)), size, ptr)))
    BY <1>9, <1>12
  <2> HIDE DEF ptr
  <2>5. TermsRight(Insert(b.ht, Entry(key, HashOfKey[key],
                                      Noted(TermAt(n, size, Top(h)), size, ptr))),
                   Copied(h, n, size), s)
    BY <1>1, <1>3, <1>5, <2>1, <2>2, AddNew
  <2> QED
    BY <1>7, <2>3, <2>4, <2>5
<1>13. ASSUME i # -1 PROVE TermsRight(ht', heap', stored')
  <2> DEFINE t == b.ht
             g == IF InPlace(old, size) THEN Overwritten(h, n, size, old.ptr)
                  ELSE Copied(h, n, size)
             w == IF InPlace(old, size) THEN [old EXCEPT !.term = TermAt(n, size, old.ptr)]
                  ELSE IF size # 0 THEN Noted(v, size, v.at)
                  ELSE [old EXCEPT !.term = v]
  <2>1. i \in LivePlaces(t) /\ t.at[i].key = key /\ key \in Keys(t)
    BY <1>10, <1>13, SearchFinds
  <2>2. /\ w \in Values /\ w.term.n = n /\ g \in Seq(Int) /\ HasTerm(g, w)
        /\ \A e \in Items(t) : e # t.at[i] =>
               HasTerm(g, e.value) /\ Apart(e.value, w) /\ Apart(w, e.value)
    <3> HIDE DEF i
    <3> QED
      BY <1>1, <1>3, <1>5, <2>1, AddOver
  <2>3. heap' = g /\ ht' = [t EXCEPT !.at[i].value = w]
    BY <1>8, <1>9, <1>13
  <2> HIDE DEF w, g, i
  <2>4. TermsRight([t EXCEPT !.at[i].value = w], g,
                   [k \in Keys(t) |-> IF k = t.at[i].key THEN w.term.n ELSE stored[k]])
    BY <1>5, <2>1, <2>2, ReplacedRight
  <2>5. s = [k \in Keys(t) |-> IF k = t.at[i].key THEN w.term.n ELSE stored[k]]
    BY <2>1, <2>2
  <2> QED
    BY <1>7, <2>3, <2>4, <2>5
<1>14. TermsRight(ht', heap', stored')
  BY <1>12, <1>13
<1>15. TermsRight(ht, heap, stored)'
  BY <1>14 DEF TermsRight, WellFormed, IsTable, AllReached, Reached, KeysDiffer, LivePlaces,
               Counted, Kept, Items, LastStored, Slots, Values, HasTerm, Apart, Keys, Probe
<1> QED
  BY <1>2, <1>15 DEF HashInv

LEMMA RemoveKeeps ==
    ASSUME HashInv, NEW key \in UserKeys, HashRemove(key)
    PROVE  HashInv'
<1> DEFINE i == Search(ht, key, HashOfKey[key])
           u == Removed(ht, i)
           s == [k \in DOMAIN stored \ {key} |-> stored[k]]
<1>1. TermsRight(ht, heap, stored) /\ undefined' \in BOOLEAN /\ writes' \in Nat
  BY DEF HashInv, HashRemove
<1>2. i # -1 /\ ht' = u /\ stored' = s /\ heap' = heap
  BY DEF HashRemove
<1>3. /\ WellFormed(ht, HashOfKey, Values) /\ Counted(ht) /\ stored \in [Keys(ht) -> Nat]
      /\ key \in DOMAIN HashOfKey /\ HashOfKey[key] \in Nat
  BY <1>1, HashAssumption DEF TermsRight, HashAssumption
<1>4. i \in LivePlaces(ht) /\ ht.at[i].key = key
  BY <1>2, <1>3, SearchFinds
<1> HIDE DEF i
<1>5. /\ WellFormed(u, HashOfKey, Values) /\ Counted(u)
      /\ Items(u) = Items(ht) \ {ht.at[i]}
  BY <1>3, <1>4, RemoveRight
<1> HIDE DEF u
<1>6. Keys(u) = Keys(ht) \ {key}
  <2>1. \A e \in Items(ht) : e.key = key <=> e = ht.at[i]
    <3>1. ht.at[i] \in Items(ht)
      BY <1>4 DEF Items
    <3> QED
      BY <1>3, <1>4, <3>1, ItemType
  <2> QED
    BY <1>5, <2>1, KeysOfItems
<1>7. Kept(Items(u), heap)
  BY <1>1, <1>5 DEF TermsRight, Kept
<1>8. s \in [Keys(u) -> Nat]
  BY <1>3, <1>6
<1>9. ASSUME NEW e \in Items(u) PROVE e.value.term.n = s[e.key]
  <2>1. e \in Items(ht) /\ e.key \in Keys(u)
    BY <1>5, ItemType
  <2> QED
    BY <1>1, <1>3, <1>6, <2>1 DEF TermsRight, LastStored
<1> HIDE DEF s
<1>10. TermsRight(u, heap, s)
  BY <1>1, <1>5, <1>7, <1>8, <1>9 DEF TermsRight, LastStored
<1>11. TermsRight(ht', heap', stored')
  BY <1>2, <1>10
<1>12. TermsRight(ht, heap, stored)'
  BY <1>11 DEF TermsRight, WellFormed, IsTable, AllReached, Reached, KeysDiffer, LivePlaces,
               Counted, Kept, Items, LastStored, Slots, Values, HasTerm, Apart, Keys, Probe
<1> QED
  BY <1>1, <1>12 DEF HashInv

LEMMA InitHash ==
    ASSUME UserInit
    PROVE  HashInv
<1>1. /\ WellFormed(ht, HashOfKey, Values) /\ Counted(ht) /\ Items(ht) = {} /\ Keys(ht) = {}
  BY HashAssumption, NewCounted DEF UserInit, HashAssumption
<1>2. heap \in Seq(Int) /\ stored \in [Keys(ht) -> Nat]
  BY <1>1 DEF UserInit
<1>3. Kept(Items(ht), heap) /\ LastStored(Items(ht), stored)
  BY <1>1 DEF Kept, LastStored
<1> QED
  BY <1>1, <1>2, <1>3 DEF TermsRight, HashInv, UserInit

LEMMA NextHash ==
    ASSUME HashInv, [UserNext]_hashVars
    PROVE  HashInv'
<1>1. ASSUME NEW key \in UserKeys, HashRemove(key) PROVE HashInv'
  BY <1>1, RemoveKeeps
<1>2. ASSUME NEW key \in UserKeys, NEW size \in Sizes, HashInsert(key, size) PROVE HashInv'
  BY <1>2, InsertKeeps
<1>3. CASE UNCHANGED hashVars
  <2>1. ht' = ht /\ heap' = heap /\ stored' = stored /\ undefined' = undefined /\ writes' = writes
    BY <1>3 DEF hashVars
  <2>2. ASSUME ~undefined PROVE TermsRight(ht', heap', stored')
    BY <2>1, <2>2 DEF HashInv
  <2>3. ASSUME ~undefined PROVE TermsRight(ht, heap, stored)'
    BY <2>2, <2>3 DEF TermsRight, WellFormed, IsTable, AllReached, Reached, KeysDiffer,
                      LivePlaces, Counted, Kept, Items, LastStored, Slots, Values, HasTerm,
                      Apart, Keys, Probe
  <2> QED
    BY <2>1, <2>3 DEF HashInv
<1> QED
  BY <1>1, <1>2, <1>3 DEF UserNext

\* A lookup gives what was stored last, and it is as it was stored.
LEMMA LookupIsRight ==
    ASSUME HashInv
    PROVE  LookupRight
<1> SUFFICES ASSUME ~undefined, NEW key \in UserKeys
             PROVE  LET i == Search(ht, key, HashOfKey[key])
                        v == ht.at[i].value.term IN
                    IF key \in DOMAIN stored THEN i # -1 /\ v.n = stored[key] /\ Intact(v)
                    ELSE i = -1
  BY DEF LookupRight
<1> DEFINE i == Search(ht, key, HashOfKey[key])
           w == ht.at[i].value
<1>1. TermsRight(ht, heap, stored)
  BY DEF HashInv
<1>2. /\ WellFormed(ht, HashOfKey, Values) /\ DOMAIN stored = Keys(ht) /\ heap \in Seq(Int)
      /\ key \in DOMAIN HashOfKey /\ HashOfKey[key] \in Nat
  BY <1>1, HashAssumption DEF TermsRight, HashAssumption
<1>3. CASE key \notin DOMAIN stored
  BY <1>2, <1>3, SearchFinds
<1>4. CASE key \in DOMAIN stored
  <2>1. i # -1 /\ i \in LivePlaces(ht) /\ ht.at[i].key = key
    BY <1>2, <1>4, SearchFinds
  <2> HIDE DEF i
  <2>2. ht.at[i] \in Items(ht)
    BY <2>1 DEF Items
  <2>3. w \in Values /\ HasTerm(heap, w) /\ w.term.n = stored[key]
    BY <1>1, <1>2, <2>1, <2>2, ItemType DEF TermsRight, Kept, LastStored
  <2>4. Intact(w.term)
    <3> HIDE DEF w
    <3>1. w.term.size \in Nat /\ w.size \in Nat /\ w.ptr \in Nat /\ Len(heap) \in Nat
          /\ DOMAIN heap = 1 .. Len(heap)
      BY <1>2, <2>3, ValueType
    <3>2. CASE w.term.size = 0
      BY <3>2 DEF Intact
    <3>3. CASE w.term.size # 0
      <4>1. /\ w.term.at = w.ptr /\ w.size # 0 /\ w.term.size <= w.size
            /\ 1 <= w.ptr /\ w.ptr + w.size <= Len(heap) + 1
        BY <2>3, <3>1, <3>3 DEF HasTerm
      <4>2. ASSUME NEW k \in w.ptr .. w.ptr + w.term.size - 1
            PROVE  k \in DOMAIN heap /\ heap[k] = w.term.n
        BY <2>3, <3>1, <4>1 DEF HasTerm
      <4> QED
        BY <4>1, <4>2 DEF Intact
    <3> QED
      BY <3>2, <3>3
  <2> QED
    BY <1>4, <2>1, <2>3, <2>4 DEF i
<1> QED
  BY <1>3, <1>4

\* A search through the table gives each key once.
LEMMA SearchIsRight ==
    ASSUME HashInv
    PROVE  SearchRight
<1> SUFFICES ASSUME ~undefined
             PROVE  /\ Keys(ht) = DOMAIN stored
                    /\ Cardinality(LivePlaces(ht)) = Cardinality(DOMAIN stored)
  BY DEF SearchRight, LivePlaces
<1>1. /\ WellFormed(ht, HashOfKey, Values) /\ KeysDiffer(ht) /\ IsTable(ht, HashOfKey, Values)
      /\ DOMAIN stored = Keys(ht)
  BY DEF HashInv, TermsRight, WellFormed
<1> DEFINE f == [i \in LivePlaces(ht) |-> ht.at[i].key]
<1>2. f \in Bijection(LivePlaces(ht), Keys(ht))
  <2>1. f \in [LivePlaces(ht) -> Keys(ht)]
    BY DEF Keys, LivePlaces
  <2>2. \A k \in Keys(ht) : \E i \in LivePlaces(ht) : f[i] = k
    BY DEF Keys, LivePlaces
  <2>3. \A i, j \in LivePlaces(ht) : f[i] = f[j] => i = j
    BY <1>1 DEF KeysDiffer
  <2> HIDE DEF f
  <2> QED
    BY <2>1, <2>2, <2>3 DEF Bijection, Injection, IsInjective, Surjection
<1>3. IsFiniteSet(LivePlaces(ht))
  BY <1>1, LiveFinite DEF IsTable
<1>4. ExistsBijection(LivePlaces(ht), Keys(ht))
  BY <1>2 DEF ExistsBijection
<1> QED
  BY <1>1, <1>3, <1>4, FS_Bijection

LEMMA HashIsRight ==
    ASSUME HashInv
    PROVE  HashRight
<1>1. HashSound
  BY SoundTable, OpenTable DEF HashInv, TermsRight, HashSound
<1> QED
  BY <1>1, LookupIsRight, SearchIsRight DEF HashRight

LEMMA AlwaysHash == UserSpec => []HashInv
<1>1. UserInit => HashInv
  BY InitHash
<1>2. HashInv /\ [UserNext]_hashVars => HashInv'
  BY NextHash
<1> QED
  BY <1>1, <1>2, PTL DEF UserSpec

\* The hash table of terms (user_hash_table.cc) has what the program stored in it last and
\* no more, for any keys, hashes and sizes of terms: no term is written over while an entry
\* has it, whatever is replaced in its place, removed, and moved to another heap.
THEOREM TermsAreAlwaysRight == UserSpec => []HashRight
<1>1. HashInv => HashRight
  BY HashIsRight
<1> QED
  BY <1>1, AlwaysHash, PTL
=============================================================================
