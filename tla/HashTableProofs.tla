--------------------------- MODULE HashTableProofs ---------------------------
(***************************************************************************)
(* What the operations of the open hash table do, for any size, any keys   *)
(* and any hashes: a table that is well formed stays so, a search finds a  *)
(* key if and only if the table has it, and no insertion meets a table     *)
(* without a free place.  That rests on an arithmetical fact: in a table   *)
(* whose size is a power of 2 the triangular probes come to every place.   *)
(***************************************************************************)
EXTENDS HashTable, SelectionProofs, FiniteSetTheorems

-----------------------------------------------------------------------------
(* Powers of 2.                                                            *)

LEMMA OnePower == IsPower2(1)
BY DEF IsPower2

LEMMA Division ==
    \A x \in Nat, n \in Nat \ {0} :
        x = n * (x \div n) + (x % n) /\ x \div n \in Nat /\ x % n \in 0 .. n - 1
<1>1. \A x \in Nat, n \in Nat \ {0} : x = n * (x \div n) + (x % n)
  OBVIOUS
<1>2. \A x \in Nat, n \in Nat \ {0} : x \div n \in Nat
  OBVIOUS
<1>3. \A x \in Nat, n \in Nat \ {0} : x % n \in 0 .. n - 1
  OBVIOUS
<1> QED
  BY <1>1, <1>2, <1>3

LEMMA Parity ==
    ASSUME NEW a \in Nat, NEW b \in Nat, (a * b) % 2 = 0
    PROVE  a % 2 = 0 \/ b % 2 = 0
<1> SUFFICES ASSUME a % 2 # 0, b % 2 # 0 PROVE FALSE
  OBVIOUS
<1>1. PICK c \in Nat : a = 2 * c + 1
  <2>1. a = 2 * (a \div 2) + (a % 2) /\ a \div 2 \in Nat /\ a % 2 \in 0 .. 1
    BY Division
  <2> QED
    BY <2>1
<1>2. PICK d \in Nat : b = 2 * d + 1
  <2>1. b = 2 * (b \div 2) + (b % 2) /\ b \div 2 \in Nat /\ b % 2 \in 0 .. 1
    BY Division
  <2> QED
    BY <2>1
<1>3. \A x, y \in Nat : (2 * x + 1) * (2 * y + 1) = 2 * (2 * x * y + x + y) + 1 /\ 2 * x * y + x + y \in Nat
  OBVIOUS
<1>4. \A x \in Nat : (2 * x + 1) % 2 = 1
  OBVIOUS
<1>5. (a * b) % 2 = 1
  <2>1. a * b = 2 * (2 * c * d + c + d) + 1 /\ 2 * c * d + c + d \in Nat
    BY <1>1, <1>2, <1>3
  <2> HIDE <1>1, <1>2
  <2> QED
    BY <2>1, <1>4
<1> QED
  BY <1>5

LEMMA Half ==
    ASSUME NEW a \in Nat, a % 2 = 0
    PROVE  \E b \in Nat : a = 2 * b
<1>1. a = 2 * (a \div 2) + (a % 2) /\ a \div 2 \in Nat
  BY Division
<1> QED
  BY <1>1

LEMMA DoubledEven == \A b \in Nat : (2 * b) % 2 = 0
OBVIOUS

\* A power of 2 is 1 or twice a power of 2.
LEMMA PowerHalf ==
    ASSUME NEW n \in Nat \ {0}, IsPower2(n), n # 1
    PROVE  \E h \in Nat \ {0} : n = 2 * h /\ IsPower2(h) /\ h < n
<1>1. n % 2 = 0
  <2>1. n \in 1 .. n /\ 1 \in 1 .. n /\ n * 1 = n
    OBVIOUS
  <2> QED
    BY <2>1 DEF IsPower2
<1>2. PICK h \in Nat : n = 2 * h
  BY <1>1, Half
<1>3. h # 0 /\ h < n
  BY <1>2
<1>4. ASSUME NEW d \in 1 .. h, NEW q \in 1 .. h, d * q = h
      PROVE  d = 1 \/ d % 2 = 0
  <2>1. d \in 1 .. n /\ 2 * q \in 1 .. n
    BY <1>2
  <2>2. d * (2 * q) = n
    <3>1. \A x, y, z \in Nat : x * y = z => x * (2 * y) = 2 * z
      OBVIOUS
    <3>2. d \in Nat /\ q \in Nat
      OBVIOUS
    <3> QED
      BY <1>2, <1>4, <3>1, <3>2
  <2> QED
    BY <2>1, <2>2 DEF IsPower2
<1> QED
  BY <1>2, <1>3, <1>4 DEF IsPower2

LEMMA PowerDouble ==
    ASSUME NEW h \in Nat \ {0}, IsPower2(h)
    PROVE  IsPower2(2 * h)
<1> SUFFICES ASSUME NEW d \in 1 .. 2 * h, NEW q \in 1 .. 2 * h, d * q = 2 * h, d % 2 # 0
             PROVE  d = 1
  BY DEF IsPower2
<1>0. d \in Nat /\ q \in Nat /\ d >= 1 /\ q >= 1
  OBVIOUS
<1>1. q % 2 = 0
  BY <1>0, Parity, DoubledEven
<1>2. PICK r \in Nat : q = 2 * r
  BY <1>0, <1>1, Half
<1>3. d * r = h
  <2>1. \A x, y, z \in Nat : x * (2 * y) = 2 * z => x * y = z
    OBVIOUS
  <2> QED
    BY <1>0, <1>2, <2>1
<1>4. r # 0
  BY <1>0, <1>2
<1>5. d \in 1 .. h /\ r \in 1 .. h
  <2>1. \A x, y \in Nat \ {0} : x <= x * y /\ y <= x * y
    OBVIOUS
  <2> QED
    BY <1>0, <1>3, <1>4, <2>1
<1> QED
  BY <1>3, <1>5 DEF IsPower2

Divides(n, b) == \E e \in Nat : b = n * e

\* A power of 2 that divides a product of which one factor is odd divides the other.
LEMMA OddFactor ==
    ASSUME NEW n \in Nat \ {0}, IsPower2(n),
           NEW a \in Nat, a % 2 # 0, NEW b \in Nat, Divides(n, a * b)
    PROVE  Divides(n, b)
<1> SUFFICES ASSUME NEW c \in Nat, a * b = n * c
             PROVE  \E e \in Nat : b = n * e
  BY DEF Divides
<1> DEFINE bad == {m \in Nat \ {0} : /\ IsPower2(m)
                                     /\ \E x, y \in Nat : a * x = m * y /\ ~\E e \in Nat : x = m * e}
<1> SUFFICES ASSUME bad # {} PROVE FALSE
  OBVIOUS
<1>1. PICK m \in bad : \A k \in bad : m <= k
  BY LeastElement
<1>2. PICK x \in Nat, y \in Nat : a * x = m * y /\ ~\E e \in Nat : x = m * e
  BY <1>1
<1>3. m # 1
  BY <1>2
<1>4. PICK h \in Nat \ {0} : m = 2 * h /\ IsPower2(h) /\ h < m
  BY <1>1, <1>3, PowerHalf
<1>5. (a * x) % 2 = 0
  <2>1. a * x = 2 * (h * y) /\ h * y \in Nat
    BY <1>2, <1>4
  <2> QED
    BY <2>1, DoubledEven
<1>6. PICK z \in Nat : x = 2 * z
  BY <1>5, Parity, Half
<1>7. a * z = h * y
  <2>1. \A r, s, t, u \in Nat : r * (2 * s) = (2 * t) * u => r * s = t * u
    OBVIOUS
  <2> QED
    BY <1>2, <1>4, <1>6, <2>1
<1>8. h \notin bad
  <2>1. h \in Nat /\ m \in Nat /\ ~(m <= h)
    BY <1>1, <1>4
  <2> HIDE DEF bad
  <2> QED
    BY <1>1, <2>1
<1>9. PICK e \in Nat : z = h * e
  BY <1>4, <1>7, <1>8
<1>10. x = m * e
  <2>1. \A r, s, t \in Nat : r = s * t => 2 * r = (2 * s) * t
    OBVIOUS
  <2> QED
    BY <1>4, <1>6, <1>9, <2>1
<1> QED
  BY <1>2, <1>10

-----------------------------------------------------------------------------
(* Probes.                                                                 *)

LEMMA TriangleTwice ==
    \A k \in Nat : (k * (k + 1)) \div 2 \in Nat /\ 2 * ((k * (k + 1)) \div 2) = k * (k + 1)
<1> SUFFICES ASSUME NEW k \in Nat
             PROVE  (k * (k + 1)) \div 2 \in Nat /\ 2 * ((k * (k + 1)) \div 2) = k * (k + 1)
  OBVIOUS
<1> DEFINE m == k * (k + 1)
<1>1. m \in Nat
  OBVIOUS
<1>2. m % 2 = 0
  OBVIOUS
<1> HIDE DEF m
<1>3. m = 2 * (m \div 2) + (m % 2) /\ m \div 2 \in Nat
  BY <1>1, Division
<1>4. 2 * (m \div 2) = m /\ m \div 2 \in Nat
  BY <1>1, <1>2, <1>3
<1> QED
  BY <1>4 DEF m

\* Two numbers with the same remainder differ by a multiple.
LEMMA SameRemainder ==
    ASSUME NEW n \in Nat \ {0}, NEW x \in Nat, NEW y \in Nat, x <= y, x % n = y % n
    PROVE  \E c \in Nat : y - x = n * c
<1>1. x = n * (x \div n) + (x % n) /\ x \div n \in Nat /\ x % n \in Nat
  <2>1. x % n \in 0 .. n - 1
    BY Division
  <2>2. x % n \in Nat
    BY <2>1
  <2> QED
    BY <2>2, Division
<1>2. y = n * (y \div n) + (y % n) /\ y \div n \in Nat
  BY Division
<1>3. \A p, q, r, m, u, v \in Nat :
          u = m * p + r /\ v = m * q + r /\ u <= v /\ m # 0 => v - u = m * (q - p) /\ p <= q
  OBVIOUS
<1> DEFINE p == x \div n
           q == y \div n
           r == x % n
<1>4. x = n * p + r /\ y = n * q + r /\ p \in Nat /\ q \in Nat /\ r \in Nat
  BY <1>1, <1>2
<1> HIDE DEF p, q, r
<1>5. y - x = n * (q - p) /\ p <= q
  BY <1>3, <1>4
<1> QED
  BY <1>4, <1>5

\* In a table whose size is a power of 2 no place is probed twice in the first round.
LEMMA ProbesDiffer ==
    ASSUME NEW n \in Nat \ {0}, IsPower2(n), NEW h \in Nat,
           NEW k \in 0 .. n - 1, NEW l \in 0 .. n - 1, k < l
    PROVE  (h + (k * (k + 1)) \div 2) % n # (h + (l * (l + 1)) \div 2) % n
<1> DEFINE x == (k * (k + 1)) \div 2
           y == (l * (l + 1)) \div 2
<1>1. x \in Nat /\ 2 * x = k * (k + 1) /\ y \in Nat /\ 2 * y = l * (l + 1)
  BY TriangleTwice
<1> HIDE DEF x, y
<1> SUFFICES ASSUME (h + x) % n = (h + y) % n PROVE FALSE
  BY DEF x, y
<1>2. 2 * y - 2 * x = (l - k) * (l + k + 1)
  <2>1. \A a, b \in Nat : b * (b + 1) - a * (a + 1) = (b - a) * (b + a + 1)
    OBVIOUS
  <2> QED
    BY <1>1, <2>1
<1>3. x <= y
  <2>1. \A a, b \in Nat : a < b => a * (a + 1) <= b * (b + 1)
    OBVIOUS
  <2>2. 2 * x <= 2 * y
    BY <1>1, <2>1
  <2> QED
    BY <1>1, <2>2
<1>4. PICK c \in Nat : (h + y) - (h + x) = n * c
  <2>1. h + x \in Nat /\ h + y \in Nat /\ h + x <= h + y
    BY <1>1, <1>3
  <2> QED
    BY <2>1, SameRemainder
<1> DEFINE a == l - k
           b == l + k + 1
<1>5. /\ a \in Nat /\ a # 0 /\ a < 2 * n
      /\ b \in Nat /\ b # 0 /\ b < 2 * n
      /\ a + b = 2 * l + 1
  OBVIOUS
<1> DEFINE m == 2 * n
<1>6. a * b = m * c
  <2>1. \A r, s \in Nat : r = s * c => 2 * r = (2 * s) * c
    OBVIOUS
  <2>2. y - x = n * c /\ y - x \in Nat
    BY <1>1, <1>3, <1>4
  <2>3. 2 * (y - x) = m * c
    BY <2>1, <2>2
  <2> QED
    BY <1>1, <1>2, <2>3
<1> HIDE DEF a, b
<1>7. m \in Nat \ {0} /\ IsPower2(m) /\ a < m /\ b < m
  BY <1>5, PowerDouble
<1> HIDE DEF m
<1>8. \A e, u, v \in Nat : u = v * e /\ u # 0 => u >= v
  OBVIOUS
<1>9. a % 2 # 0 \/ b % 2 # 0
  <2>1. \A r, s, t \in Nat : r + s = 2 * t + 1 => r % 2 # 0 \/ s % 2 # 0
    OBVIOUS
  <2> QED
    BY <1>5, <2>1
<1>10. CASE a % 2 # 0
  <2>1. Divides(m, a * b)
    BY <1>6 DEF Divides
  <2>2. Divides(m, b)
    BY <1>5, <1>7, <1>10, <2>1, OddFactor
  <2>3. PICK e \in Nat : b = m * e
    BY <2>2 DEF Divides
  <2> QED
    BY <1>5, <1>7, <1>8, <2>3
<1>11. CASE b % 2 # 0
  <2>1. Divides(m, b * a)
    BY <1>5, <1>6 DEF Divides
  <2>2. Divides(m, a)
    BY <1>5, <1>7, <1>11, <2>1, OddFactor
  <2>3. PICK e \in Nat : a = m * e
    BY <2>2 DEF Divides
  <2> QED
    BY <1>5, <1>7, <1>8, <2>3
<1> QED
  BY <1>9, <1>10, <1>11

LEMMA ProbeType ==
    ASSUME NEW t, t.size \in Nat \ {0}, NEW h \in Nat, NEW k \in Nat
    PROVE  Probe(t, h, k) \in 0 .. t.size - 1
<1>1. h + (k * (k + 1)) \div 2 \in Nat
  BY TriangleTwice
<1> QED
  BY <1>1, Division DEF Probe

\* The triangular probes of a table whose size is a power of 2 (hashValue, increment and
\* tableSizeMask in dynamic_hash_table.h) come to every place in one round, whatever the
\* hash: a search that meets no end has seen the whole table.
THEOREM ProbesReachAll ==
    ASSUME NEW t, t.size \in Nat \ {0}, IsPower2(t.size), NEW h \in Nat,
           NEW i \in 0 .. t.size - 1
    PROVE  \E k \in 0 .. t.size - 1 : Probe(t, h, k) = i
<1> DEFINE I == 0 .. t.size - 1
           f == [k \in I |-> Probe(t, h, k)]
<1>1. f \in [I -> I]
  <2>1. ASSUME NEW k \in I PROVE Probe(t, h, k) \in I
    <3>1. k \in Nat
      OBVIOUS
    <3> QED
      BY <3>1, ProbeType
  <2> QED
    BY <2>1
<1>2. \A k, l \in I : k < l => f[k] # f[l]
  BY ProbesDiffer DEF Probe
<1>3. \A k, l \in I : f[k] = f[l] => k = l
  <2>1. \A k, l \in I : k < l \/ k = l \/ l < k
    OBVIOUS
  <2> HIDE DEF f, I
  <2> QED
    BY <1>2, <2>1
<1>4. f \in Injection(I, I)
  BY <1>1, <1>3 DEF Injection, IsInjective
<1>5. IsFiniteSet(I)
  BY FS_Interval
<1>6. f \in Surjection(I, I)
  BY <1>4, <1>5, FS_Injection
<1> HIDE DEF f
<1>7. PICK k \in I : f[k] = i
  BY <1>6 DEF Surjection
<1> QED
  BY <1>7 DEF f

-----------------------------------------------------------------------------
(* Tables.                                                                 *)

\* A set of natural numbers that is not empty has its least one as Min.
LEMMA MinRight ==
    ASSUME NEW S \in SUBSET Nat, S # {}
    PROVE  Min(S) \in S /\ \A y \in S : Min(S) <= y
<1>1. \E x \in S : \A y \in S : x <= y
  BY LeastElement
<1> QED
  BY <1>1 DEF Min

\* The places of a table whose keys have those hashes, and whose values are of that
\* kind.
Slots(hashes, values) ==
    {Empty} \union
    {e \in [full : {TRUE}, removed : BOOLEAN, key : DOMAIN hashes, hash : Nat, value : values] :
        e.hash = hashes[e.key]}

IsTable(t, hashes, values) ==
    /\ t = [size |-> t.size, used |-> t.used, at |-> t.at]
    /\ t.size \in Nat \ {0} /\ IsPower2(t.size)
    /\ t.used \in Nat
    /\ t.at \in [0 .. t.size - 1 -> Slots(hashes, values)]

\* A search for the key at i comes to i, over places that are all taken.
Reached(t, i) ==
    \E k \in 0 .. t.size - 1 :
        /\ Probe(t, t.at[i].hash, k) = i
        /\ \A j \in 0 .. k - 1 : t.at[Probe(t, t.at[i].hash, j)].full

LivePlaces(t) == {i \in DOMAIN t.at : Live(t.at[i])}

AllReached(t) == \A i \in LivePlaces(t) : Reached(t, i)
KeysDiffer(t) == \A i, j \in LivePlaces(t) : t.at[i].key = t.at[j].key => i = j

WellFormed(t, hashes, values) == IsTable(t, hashes, values) /\ AllReached(t) /\ KeysDiffer(t)

\* The entries of a table.
Items(t) == {t.at[i] : i \in LivePlaces(t)}

\* i is the k-th place that is probed, and the first one of them in ends.
FirstAt(t, h, ends, i, k) ==
    /\ k \in 0 .. t.size - 1
    /\ i = Probe(t, h, k) /\ i \in ends /\ i \in 0 .. t.size - 1
    /\ \A j \in 0 .. k - 1 : Probe(t, h, j) \notin ends

LEMMA FirstRight ==
    ASSUME NEW t, t.size \in Nat \ {0}, NEW h \in Nat, NEW ends
    PROVE  \/ First(t, h, ends) = -1 /\ \A k \in 0 .. t.size - 1 : Probe(t, h, k) \notin ends
           \/ \E k \in 0 .. t.size - 1 : FirstAt(t, h, ends, First(t, h, ends), k)
<1> DEFINE ks == {k \in 0 .. t.size - 1 : Probe(t, h, k) \in ends}
<1>1. First(t, h, ends) = IF ks = {} THEN -1 ELSE Probe(t, h, Min(ks))
  BY DEF First
<1>2. CASE ks = {}
  BY <1>1, <1>2
<1>3. CASE ks # {}
  <2>1. ks \in SUBSET Nat
    OBVIOUS
  <2>2. Min(ks) \in ks /\ \A y \in ks : Min(ks) <= y
    BY <1>3, <2>1, MinRight
  <2> DEFINE m == Min(ks)
  <2>3. m \in 0 .. t.size - 1 /\ m \in Nat /\ Probe(t, h, m) \in ends
    BY <2>2
  <2>4. Probe(t, h, m) \in 0 .. t.size - 1
    BY <2>3, ProbeType
  <2>5. ASSUME NEW j \in 0 .. m - 1 PROVE Probe(t, h, j) \notin ends
    <3>1. j \in 0 .. t.size - 1 /\ j \in Nat /\ ~(m <= j)
      BY <2>3
    <3> HIDE DEF m
    <3>2. j \notin ks
      BY <2>2, <3>1 DEF m
    <3> QED
      BY <3>1, <3>2
  <2>6. First(t, h, ends) = Probe(t, h, m)
    BY <1>1, <1>3
  <2> HIDE DEF m
  <2>7. FirstAt(t, h, ends, First(t, h, ends), m)
    BY <2>3, <2>4, <2>5, <2>6 DEF FirstAt
  <2> QED
    BY <2>3, <2>7
<1> QED
  BY <1>2, <1>3

\* An end is met, if there is one in the table.
LEMMA FirstMeets ==
    ASSUME NEW t, t.size \in Nat \ {0}, IsPower2(t.size), NEW h \in Nat, NEW ends,
           NEW i \in 0 .. t.size - 1, i \in ends
    PROVE  \E k \in 0 .. t.size - 1 : FirstAt(t, h, ends, First(t, h, ends), k)
<1>1. PICK k \in 0 .. t.size - 1 : Probe(t, h, k) = i
  BY ProbesReachAll
<1> QED
  BY <1>1, FirstRight

\* A place is empty or has an entry; an entry is live or a mark.
LEMMA SlotType ==
    ASSUME NEW hashes, NEW values, NEW e \in Slots(hashes, values)
    PROVE  /\ e.full \in BOOLEAN
           /\ ~e.full => e = Empty
           /\ e.full => /\ e.removed \in BOOLEAN /\ e.key \in DOMAIN hashes
                        /\ e.hash \in Nat /\ e.hash = hashes[e.key] /\ e.value \in values
                        /\ e = [full |-> TRUE, removed |-> e.removed, key |-> e.key,
                                hash |-> e.hash, value |-> e.value]
<1>1. CASE e = Empty
  <2>1. e.full = FALSE
    BY <1>1 DEF Empty
  <2> QED
    BY <1>1, <2>1
<1>2. CASE e # Empty
  <2>1. e \in [full : {TRUE}, removed : BOOLEAN, key : DOMAIN hashes, hash : Nat, value : values]
    BY <1>2 DEF Slots
  <2>2. e.hash = hashes[e.key]
    BY <1>2 DEF Slots
  <2>3. e.full = TRUE /\ e.removed \in BOOLEAN /\ e.key \in DOMAIN hashes /\ e.hash \in Nat
        /\ e.value \in values
    BY <2>1
  <2>4. e = [full |-> e.full, removed |-> e.removed, key |-> e.key, hash |-> e.hash,
             value |-> e.value]
    BY <2>1
  <2> QED
    BY <2>2, <2>3, <2>4
<1> QED
  BY <1>1, <1>2

LEMMA EntryType ==
    ASSUME NEW hashes, hashes \in [DOMAIN hashes -> Nat], NEW values,
           NEW key \in DOMAIN hashes, NEW value \in values
    PROVE  /\ Entry(key, hashes[key], value) \in Slots(hashes, values)
           /\ Live(Entry(key, hashes[key], value))
           /\ Entry(key, hashes[key], value).key = key
           /\ Entry(key, hashes[key], value).hash = hashes[key]
           /\ Entry(key, hashes[key], value).value = value
<1> DEFINE e == Entry(key, hashes[key], value)
<1>1. hashes[key] \in Nat
  OBVIOUS
<1>2. e = [full |-> TRUE, removed |-> FALSE, key |-> key, hash |-> hashes[key], value |-> value]
  BY DEF Entry
<1>3. /\ e.key = key /\ e.hash = hashes[key] /\ e.value = value /\ e.full = TRUE
      /\ e.removed = FALSE
  BY <1>2
<1>4. e \in [full : {TRUE}, removed : BOOLEAN, key : DOMAIN hashes, hash : Nat, value : values]
  BY <1>1, <1>2
<1> HIDE DEF e
<1>5. e \in Slots(hashes, values)
  BY <1>3, <1>4 DEF Slots
<1>6. Live(e)
  BY <1>3 DEF Live
<1> QED
  BY <1>3, <1>5, <1>6 DEF e

-----------------------------------------------------------------------------
(* Searches.                                                               *)

LEMMA LivePlace ==
    ASSUME NEW t, NEW hashes, NEW values, IsTable(t, hashes, values), NEW i \in LivePlaces(t)
    PROVE  /\ i \in 0 .. t.size - 1 /\ t.at[i].full
           /\ t.at[i].key \in DOMAIN hashes /\ t.at[i].hash \in Nat
           /\ t.at[i].hash = hashes[t.at[i].key] /\ t.at[i].value \in values
<1>1. i \in 0 .. t.size - 1 /\ t.at[i].full /\ t.at[i] \in Slots(hashes, values)
  BY DEF IsTable, LivePlaces, Live
<1> QED
  BY <1>1, SlotType

\* The search for a key that the table has gives its place.
LEMMA SearchLive ==
    ASSUME NEW t, NEW hashes, NEW values, WellFormed(t, hashes, values), NEW i \in LivePlaces(t)
    PROVE  Search(t, t.at[i].key, t.at[i].hash) = i
<1> DEFINE key  == t.at[i].key
           h    == t.at[i].hash
           ends == NeverUsed(t) \union Having(t, key)
           n    == First(t, h, ends)
<1>1. IsTable(t, hashes, values) /\ Reached(t, i) /\ KeysDiffer(t)
  BY DEF WellFormed, AllReached
<1>2. /\ i \in 0 .. t.size - 1 /\ t.at[i].full /\ h \in Nat
      /\ DOMAIN t.at = 0 .. t.size - 1 /\ t.size \in Nat \ {0} /\ IsPower2(t.size)
  BY <1>1, LivePlace DEF IsTable
<1>3. Having(t, key) = {i}
  BY <1>1 DEF Having, Holds, LivePlaces, KeysDiffer
<1>4. i \in ends
  BY <1>3
<1>5. PICK k \in 0 .. t.size - 1 : FirstAt(t, h, ends, n, k)
  <2> HIDE DEF ends, h
  <2> QED
    BY <1>2, <1>4, FirstMeets
<1>6. PICK l \in 0 .. t.size - 1 : Probe(t, h, l) = i /\ \A j \in 0 .. l - 1 : t.at[Probe(t, h, j)].full
  BY <1>1 DEF Reached
<1>7. k <= l
  <2>1. \A j \in 0 .. k - 1 : Probe(t, h, j) \notin ends
    BY <1>5 DEF FirstAt
  <2>2. Probe(t, h, l) \in ends
    BY <1>4, <1>6
  <2>3. l \notin 0 .. k - 1
    BY <2>1, <2>2
  <2> QED
    BY <1>2, <2>3
<1>8. n = i
  <2>1. n = Probe(t, h, k) /\ n \in ends
    BY <1>5 DEF FirstAt
  <2>2. CASE k = l
    BY <1>6, <2>1, <2>2
  <2>3. CASE k # l
    <3>1. k \in 0 .. l - 1
      BY <1>2, <1>7, <2>3
    <3>2. t.at[n].full
      BY <1>6, <2>1, <3>1
    <3>3. n \notin NeverUsed(t)
      BY <3>2 DEF NeverUsed
    <3> QED
      BY <1>3, <2>1, <3>3
  <2> QED
    BY <2>2, <2>3
<1>9. Search(t, key, h) = IF n # -1 /\ t.at[n].full THEN n ELSE -1
  BY DEF Search
<1> QED
  BY <1>2, <1>8, <1>9

\* The search for a key that the table does not have gives none.
LEMMA SearchNone ==
    ASSUME NEW t, NEW hashes, NEW values, WellFormed(t, hashes, values),
           NEW key \in DOMAIN hashes, hashes[key] \in Nat, key \notin Keys(t)
    PROVE  Search(t, key, hashes[key]) = -1
<1> DEFINE h    == hashes[key]
           ends == NeverUsed(t) \union Having(t, key)
           n    == First(t, h, ends)
<1>1. t.size \in Nat \ {0}
  BY DEF WellFormed, IsTable
<1>2. Having(t, key) = {}
  BY DEF Having, Holds, Keys
<1>3. n = -1 \/ n \in NeverUsed(t)
  <2>1. n = -1 \/ \E k \in 0 .. t.size - 1 : FirstAt(t, h, ends, n, k)
    <3> HIDE DEF ends, h
    <3> QED
      BY <1>1, FirstRight DEF h
  <2> QED
    BY <1>2, <2>1 DEF FirstAt
<1>4. Search(t, key, h) = IF n # -1 /\ t.at[n].full THEN n ELSE -1
  BY DEF Search
<1> HIDE DEF n
<1> QED
  BY <1>3, <1>4 DEF NeverUsed

\* A search tells whether the table has a key, and where.
LEMMA SearchFinds ==
    ASSUME NEW t, NEW hashes, NEW values, WellFormed(t, hashes, values),
           NEW key \in DOMAIN hashes, hashes[key] \in Nat
    PROVE  \/ Search(t, key, hashes[key]) = -1 /\ key \notin Keys(t)
           \/ /\ Search(t, key, hashes[key]) \in LivePlaces(t)
              /\ t.at[Search(t, key, hashes[key])].key = key
              /\ Search(t, key, hashes[key]) # -1 /\ key \in Keys(t)
<1>1. CASE key \notin Keys(t)
  BY <1>1, SearchNone
<1>2. CASE key \in Keys(t)
  <2>1. PICK i \in LivePlaces(t) : t.at[i].key = key
    BY <1>2 DEF Keys, LivePlaces
  <2>2. t.at[i].hash = hashes[key] /\ i \in 0 .. t.size - 1 /\ t.size \in Nat
    BY <2>1, LivePlace DEF WellFormed, IsTable
  <2>3. Search(t, key, hashes[key]) = i
    BY <2>1, <2>2, SearchLive
  <2>4. i # -1
    BY <2>2
  <2> QED
    BY <1>2, <2>1, <2>3, <2>4
<1> QED
  BY <1>1, <1>2

LEMMA SoundTable ==
    ASSUME NEW t, NEW hashes, NEW values, WellFormed(t, hashes, values)
    PROVE  Sound(t)
BY SearchLive DEF Sound, LivePlaces

-----------------------------------------------------------------------------
(* Insertions and removals.                                                *)

\* A table with one place changed.
With(t, used, p, e) == [size |-> t.size, used |-> used, at |-> [t.at EXCEPT ![p] = e]]

LEMMA WithType ==
    ASSUME NEW t, NEW hashes, NEW values, IsTable(t, hashes, values),
           NEW p \in 0 .. t.size - 1, NEW e \in Slots(hashes, values), NEW used \in Nat
    PROVE  /\ IsTable(With(t, used, p, e), hashes, values)
           /\ With(t, used, p, e).size = t.size /\ With(t, used, p, e).used = used
           /\ With(t, used, p, e).at[p] = e
           /\ \A i \in 0 .. t.size - 1 : i # p => With(t, used, p, e).at[i] = t.at[i]
           /\ DOMAIN With(t, used, p, e).at = 0 .. t.size - 1 /\ DOMAIN t.at = 0 .. t.size - 1
           /\ \A h, k : Probe(With(t, used, p, e), h, k) = Probe(t, h, k)
<1> DEFINE u == With(t, used, p, e)
<1>1. u.size = t.size /\ u.used = used /\ u.at = [t.at EXCEPT ![p] = e]
  BY DEF With
<1>2. t.at \in [0 .. t.size - 1 -> Slots(hashes, values)]
  BY DEF IsTable
<1>3. u.at \in [0 .. t.size - 1 -> Slots(hashes, values)]
  BY <1>1, <1>2
<1>4. u = [size |-> u.size, used |-> u.used, at |-> u.at]
  BY DEF With
<1>5. IsTable(u, hashes, values)
  <2> HIDE DEF u
  <2> QED
    BY <1>1, <1>3, <1>4 DEF IsTable
<1>6. \A h, k : Probe(u, h, k) = Probe(t, h, k)
  <2> HIDE DEF u
  <2> QED
    BY <1>1 DEF Probe
<1> QED
  BY <1>1, <1>2, <1>3, <1>5, <1>6

\* A live entry of a changed table that has nothing less in its places is reached as
\* it was.
LEMMA StillReached ==
    ASSUME NEW t, NEW hashes, NEW values, IsTable(t, hashes, values), NEW u,
           NEW i \in LivePlaces(t), Reached(t, i),
           u.size = t.size, u.at[i].hash = t.at[i].hash,
           \A h, k : Probe(u, h, k) = Probe(t, h, k),
           \A j \in 0 .. t.size - 1 : t.at[j].full => u.at[j].full
    PROVE  Reached(u, i)
<1>1. PICK k \in 0 .. t.size - 1 :
          /\ Probe(t, t.at[i].hash, k) = i
          /\ \A j \in 0 .. k - 1 : t.at[Probe(t, t.at[i].hash, j)].full
  BY DEF Reached
<1>2. t.at[i].hash \in Nat /\ t.size \in Nat \ {0}
  BY LivePlace DEF IsTable
<1>3. ASSUME NEW j \in 0 .. k - 1 PROVE u.at[Probe(u, t.at[i].hash, j)].full
  <2>1. j \in Nat
    OBVIOUS
  <2>2. Probe(t, t.at[i].hash, j) \in 0 .. t.size - 1
    BY <1>2, <2>1, ProbeType
  <2> QED
    BY <1>1, <2>2
<1> QED
  BY <1>1, <1>3 DEF Reached

\* An entry with a new key is put in the first place that is not live.
LEMMA PutRight ==
    ASSUME NEW t, NEW hashes, NEW values, WellFormed(t, hashes, values),
           NEW e \in Slots(hashes, values), Live(e), e.key \notin Keys(t),
           NEW q \in 0 .. t.size - 1, ~Live(t.at[q])
    PROVE  /\ WellFormed(Put(t, e), hashes, values)
           /\ Put(t, e).size = t.size /\ Put(t, e).used = t.used + 1
           /\ Free(t, e.hash) \in 0 .. t.size - 1 /\ ~Live(t.at[Free(t, e.hash)])
           /\ LivePlaces(Put(t, e)) = LivePlaces(t) \union {Free(t, e.hash)}
           /\ Put(t, e).at[Free(t, e.hash)] = e
           /\ \A i \in 0 .. t.size - 1 : i # Free(t, e.hash) => Put(t, e).at[i] = t.at[i]
<1> DEFINE h == e.hash
           p == Free(t, h)
           u == Put(t, e)
<1>0. IsTable(t, hashes, values) /\ AllReached(t) /\ KeysDiffer(t)
  BY DEF WellFormed
<1>1. /\ t.size \in Nat \ {0} /\ IsPower2(t.size) /\ t.used \in Nat
      /\ DOMAIN t.at = 0 .. t.size - 1 /\ t = [size |-> t.size, used |-> t.used, at |-> t.at]
  BY <1>0 DEF IsTable
<1>2. h \in Nat /\ e.full
  BY SlotType DEF Live
<1>3. PICK k \in 0 .. t.size - 1 : FirstAt(t, h, NotLive(t), p, k)
  <2>1. q \in NotLive(t)
    BY <1>1 DEF NotLive
  <2> HIDE DEF h, p
  <2>2. \E k \in 0 .. t.size - 1 : FirstAt(t, h, NotLive(t), First(t, h, NotLive(t)), k)
    BY <1>1, <1>2, <2>1, FirstMeets
  <2> QED
    BY <2>2 DEF p, Free
<1>4. p \in 0 .. t.size - 1 /\ ~Live(t.at[p])
  BY <1>3 DEF FirstAt, NotLive
<1>5. u = With(t, t.used + 1, p, e)
  <2>1. u = [t EXCEPT !.used = @ + 1, !.at[p] = e]
    BY DEF Put
  <2> HIDE DEF u, p
  <2>2. u.size = t.size /\ u.used = t.used + 1 /\ u.at = [t.at EXCEPT ![p] = e]
    BY <1>1, <2>1
  <2>3. u = [size |-> u.size, used |-> u.used, at |-> u.at]
    BY <1>1, <2>1
  <2> QED
    BY <2>2, <2>3 DEF With
<1> HIDE DEF p, h, u
<1>6. /\ IsTable(u, hashes, values) /\ u.size = t.size /\ u.used = t.used + 1 /\ u.at[p] = e
      /\ \A i \in 0 .. t.size - 1 : i # p => u.at[i] = t.at[i]
      /\ DOMAIN u.at = 0 .. t.size - 1
      /\ \A g, j : Probe(u, g, j) = Probe(t, g, j)
  <2>1. t.used + 1 \in Nat
    BY <1>1
  <2>2. /\ IsTable(With(t, t.used + 1, p, e), hashes, values)
        /\ With(t, t.used + 1, p, e).size = t.size /\ With(t, t.used + 1, p, e).used = t.used + 1
        /\ With(t, t.used + 1, p, e).at[p] = e
        /\ \A i \in 0 .. t.size - 1 : i # p => With(t, t.used + 1, p, e).at[i] = t.at[i]
        /\ DOMAIN With(t, t.used + 1, p, e).at = 0 .. t.size - 1
        /\ \A g, j : Probe(With(t, t.used + 1, p, e), g, j) = Probe(t, g, j)
    BY <1>0, <1>4, <2>1, WithType
  <2> QED
    BY <1>5, <2>2
<1>7. LivePlaces(u) = LivePlaces(t) \union {p}
  BY <1>1, <1>4, <1>6 DEF LivePlaces
<1>8. ASSUME NEW i \in LivePlaces(u) PROVE Reached(u, i)
  <2>1. CASE i = p
    <3>1. \A j \in 0 .. k - 1 : Probe(t, h, j) \notin NotLive(t)
      BY <1>3 DEF FirstAt
    <3>2. ASSUME NEW j \in 0 .. k - 1 PROVE u.at[Probe(t, h, j)].full
      <4>1. Probe(t, h, j) \in 0 .. t.size - 1
        BY <1>1, <1>2, ProbeType
      <4>2. Live(t.at[Probe(t, h, j)])
        BY <1>1, <3>1, <4>1 DEF NotLive
      <4> QED
        BY <1>6, <1>2, <4>1, <4>2 DEF Live
    <3>3. Probe(t, h, k) = p
      BY <1>3 DEF FirstAt
    <3>4. u.at[i].hash = h
      BY <1>6, <2>1 DEF h
    <3> QED
      BY <1>6, <2>1, <3>2, <3>3, <3>4 DEF Reached
  <2>2. CASE i # p
    <3>1. i \in LivePlaces(t) /\ i \in 0 .. t.size - 1
      BY <1>1, <1>7, <2>2 DEF LivePlaces
    <3>2. \A j \in 0 .. t.size - 1 : t.at[j].full => u.at[j].full
      BY <1>2, <1>6
    <3>3. u.at[i].hash = t.at[i].hash
      BY <1>6, <2>2, <3>1
    <3>4. Reached(t, i)
      BY <1>0, <3>1 DEF AllReached
    <3> QED
      BY <1>0, <1>6, <3>1, <3>2, <3>3, <3>4, StillReached
  <2> QED
    BY <2>1, <2>2
<1>9. ASSUME NEW i \in LivePlaces(u), NEW j \in LivePlaces(u), u.at[i].key = u.at[j].key
      PROVE  i = j
  <2>1. \A l \in LivePlaces(t) : l \in 0 .. t.size - 1 /\ t.at[l].key \in Keys(t)
    BY <1>1 DEF LivePlaces, Keys
  <2>2. \A l \in LivePlaces(t) : l # p /\ u.at[l] = t.at[l]
    BY <1>4, <1>6, <2>1 DEF LivePlaces
  <2>3. \A l \in LivePlaces(t) : u.at[l].key # e.key
    BY <2>1, <2>2
  <2> QED
    BY <1>0, <1>6, <1>7, <1>9, <2>2, <2>3 DEF KeysDiffer
<1>10. WellFormed(u, hashes, values)
  BY <1>6, <1>8, <1>9 DEF WellFormed, AllReached, KeysDiffer
<1> QED
  BY <1>4, <1>6, <1>7, <1>10 DEF p, h, u

\* The entry at a live place is changed to one with the same key, or to a mark.
LEMMA ChangeRight ==
    ASSUME NEW t, NEW hashes, NEW values, WellFormed(t, hashes, values),
           NEW p \in LivePlaces(t), NEW used \in Nat,
           NEW e \in Slots(hashes, values), e.full, e.key = t.at[p].key
    PROVE  /\ WellFormed(With(t, used, p, e), hashes, values)
           /\ LivePlaces(With(t, used, p, e)) =
                  IF e.removed THEN LivePlaces(t) \ {p} ELSE LivePlaces(t)
<1> DEFINE u == With(t, used, p, e)
<1>0. IsTable(t, hashes, values) /\ AllReached(t) /\ KeysDiffer(t)
  BY DEF WellFormed
<1>1. /\ p \in 0 .. t.size - 1 /\ DOMAIN t.at = 0 .. t.size - 1 /\ t.at[p].full
      /\ t.at[p].hash = hashes[t.at[p].key]
  BY <1>0, LivePlace DEF IsTable
<1>2. e.hash = t.at[p].hash /\ e.removed \in BOOLEAN
  BY <1>1, SlotType
<1>3. /\ IsTable(u, hashes, values) /\ u.size = t.size /\ u.used = used /\ u.at[p] = e
      /\ \A i \in 0 .. t.size - 1 : i # p => u.at[i] = t.at[i]
      /\ DOMAIN u.at = 0 .. t.size - 1
      /\ \A g, j : Probe(u, g, j) = Probe(t, g, j)
  BY <1>0, <1>1, WithType
<1> HIDE DEF u
<1>4. LivePlaces(u) = IF e.removed THEN LivePlaces(t) \ {p} ELSE LivePlaces(t)
  <2>1. Live(e) = ~e.removed
    BY <1>2 DEF Live
  <2>2. p \in LivePlaces(u) <=> ~e.removed
    BY <1>1, <1>3, <2>1 DEF LivePlaces
  <2>3. \A i : i # p => (i \in LivePlaces(u) <=> i \in LivePlaces(t))
    BY <1>1, <1>3 DEF LivePlaces
  <2> QED
    BY <2>2, <2>3
<1>5. ASSUME NEW i \in LivePlaces(u)
      PROVE  i \in LivePlaces(t) /\ u.at[i].hash = t.at[i].hash /\ u.at[i].key = t.at[i].key
  <2>1. i \in LivePlaces(t)
    BY <1>4
  <2>2. i \in 0 .. t.size - 1
    BY <1>1, <2>1 DEF LivePlaces
  <2> QED
    BY <1>2, <1>3, <2>1, <2>2
<1>6. ASSUME NEW i \in LivePlaces(u) PROVE Reached(u, i)
  <2>1. \A j \in 0 .. t.size - 1 : t.at[j].full => u.at[j].full
    BY <1>3
  <2>2. i \in LivePlaces(t) /\ Reached(t, i) /\ u.at[i].hash = t.at[i].hash
    BY <1>0, <1>5 DEF AllReached
  <2> QED
    BY <1>0, <1>3, <2>1, <2>2, StillReached
<1>7. KeysDiffer(u)
  BY <1>0, <1>5 DEF KeysDiffer
<1> QED
  BY <1>3, <1>4, <1>6, <1>7 DEF WellFormed, AllReached, u

LEMMA RemoveIs ==
    ASSUME NEW t, NEW hashes, NEW values, WellFormed(t, hashes, values), NEW p \in LivePlaces(t)
    PROVE  /\ MakeRemoved(t, p) = With(t, t.used, p, [t.at[p] EXCEPT !.removed = TRUE])
           /\ Removed(t, p) = With(t, t.used - 1, p, [t.at[p] EXCEPT !.removed = TRUE])
           /\ [t.at[p] EXCEPT !.removed = TRUE] \in Slots(hashes, values)
           /\ [t.at[p] EXCEPT !.removed = TRUE].full /\ [t.at[p] EXCEPT !.removed = TRUE].removed
           /\ [t.at[p] EXCEPT !.removed = TRUE].key = t.at[p].key
<1> DEFINE e == [t.at[p] EXCEPT !.removed = TRUE]
           m == MakeRemoved(t, p)
<1>0. IsTable(t, hashes, values)
  BY DEF WellFormed
<1>1. /\ p \in 0 .. t.size - 1 /\ DOMAIN t.at = 0 .. t.size - 1
      /\ t = [size |-> t.size, used |-> t.used, at |-> t.at] /\ t.at[p] \in Slots(hashes, values)
      /\ t.at[p].full
  BY <1>0, LivePlace DEF IsTable
<1>2. /\ t.at[p].key \in DOMAIN hashes
      /\ t.at[p].hash \in Nat /\ t.at[p].hash = hashes[t.at[p].key] /\ t.at[p].value \in values
      /\ t.at[p] = [full |-> TRUE, removed |-> t.at[p].removed, key |-> t.at[p].key,
                    hash |-> t.at[p].hash, value |-> t.at[p].value]
  BY <1>1, SlotType
<1>3. e = [full |-> TRUE, removed |-> TRUE, key |-> t.at[p].key, hash |-> t.at[p].hash,
           value |-> t.at[p].value]
  <2> DEFINE x == t.at[p]
  <2>1. x = [full |-> TRUE, removed |-> x.removed, key |-> x.key, hash |-> x.hash,
             value |-> x.value]
    BY <1>2
  <2>2. e = [x EXCEPT !.removed = TRUE]
    OBVIOUS
  <2> HIDE DEF e, x
  <2>3. /\ e.full = TRUE /\ e.removed = TRUE /\ e.key = x.key /\ e.hash = x.hash
        /\ e.value = x.value
    BY <2>1, <2>2
  <2>4. e = [full |-> e.full, removed |-> e.removed, key |-> e.key, hash |-> e.hash,
             value |-> e.value]
    BY <2>1, <2>2
  <2> QED
    BY <2>3, <2>4 DEF x
<1> HIDE DEF e
<1>4. e \in [full : {TRUE}, removed : BOOLEAN, key : DOMAIN hashes, hash : Nat, value : values]
  BY <1>2, <1>3
<1>5. e \in Slots(hashes, values) /\ e.full /\ e.removed /\ e.key = t.at[p].key
  BY <1>2, <1>3, <1>4 DEF Slots
<1>6. m.size = t.size /\ m.used = t.used /\ m.at = [t.at EXCEPT ![p] = e]
      /\ m = [size |-> m.size, used |-> m.used, at |-> m.at]
  <2>1. m = [t EXCEPT !.at[p].removed = TRUE]
    BY DEF MakeRemoved
  <2> HIDE DEF m
  <2>2. m.size = t.size /\ m.used = t.used /\ m.at = [t.at EXCEPT ![p].removed = TRUE]
    BY <1>1, <2>1
  <2>3. m = [size |-> m.size, used |-> m.used, at |-> m.at]
    BY <1>1, <2>1
  <2>4. [t.at EXCEPT ![p].removed = TRUE] = [t.at EXCEPT ![p] = e]
    BY DEF e
  <2> QED
    BY <2>2, <2>3, <2>4
<1>7. m = With(t, t.used, p, e)
  BY <1>6 DEF With
<1>8. Removed(t, p) = [m EXCEPT !.used = @ - 1]
  BY DEF Removed
<1> HIDE DEF m
<1>9. Removed(t, p) = With(t, t.used - 1, p, e)
  <2>1. [m EXCEPT !.used = @ - 1] = [size |-> m.size, used |-> m.used - 1, at |-> m.at]
    BY <1>6
  <2> QED
    BY <1>6, <1>8, <2>1 DEF With
<1> QED
  BY <1>5, <1>7, <1>9 DEF e, m

-----------------------------------------------------------------------------
(* Resizing.                                                               *)

LEMMA PlacesFinite ==
    ASSUME NEW n \in Nat
    PROVE  IsFiniteSet(0 .. n - 1) /\ Cardinality(0 .. n - 1) = n
<1>1. 0 \in Int /\ n - 1 \in Int
  OBVIOUS
<1>2. /\ IsFiniteSet(0 .. n - 1)
      /\ Cardinality(0 .. n - 1) = IF 0 > n - 1 THEN 0 ELSE (n - 1) - 0 + 1
  BY <1>1, FS_Interval
<1> QED
  BY <1>2

LEMMA LiveFinite ==
    ASSUME NEW t, NEW hashes, NEW values, IsTable(t, hashes, values)
    PROVE  /\ IsFiniteSet(LivePlaces(t)) /\ Cardinality(LivePlaces(t)) \in Nat
           /\ Cardinality(LivePlaces(t)) <= t.size
           /\ Cardinality(LivePlaces(t)) = t.size => LivePlaces(t) = 0 .. t.size - 1
<1>1. IsFiniteSet(0 .. t.size - 1) /\ Cardinality(0 .. t.size - 1) = t.size
  BY PlacesFinite DEF IsTable
<1>2. LivePlaces(t) \in SUBSET (0 .. t.size - 1)
  BY DEF LivePlaces, IsTable
<1> QED
  BY <1>1, <1>2, FS_Subset, FS_CardinalityType

\* A table with fewer live entries than places has a place that is not live.
LEMMA PlaceLeft ==
    ASSUME NEW t, NEW hashes, NEW values, IsTable(t, hashes, values),
           Cardinality(LivePlaces(t)) < t.size
    PROVE  \E q \in 0 .. t.size - 1 : ~Live(t.at[q])
<1>1. IsFiniteSet(0 .. t.size - 1) /\ Cardinality(0 .. t.size - 1) = t.size
      /\ Cardinality(LivePlaces(t)) \in Nat /\ t.size \in Nat
  BY PlacesFinite, LiveFinite DEF IsTable
<1>2. LivePlaces(t) # 0 .. t.size - 1
  BY <1>1
<1> QED
  BY <1>2 DEF LivePlaces, IsTable

NoMarks(t) == \A i \in DOMAIN t.at : t.at[i].full => Live(t.at[i])

LEMMA NewRight ==
    ASSUME NEW hashes, NEW values, NEW n \in Nat \ {0}, IsPower2(n)
    PROVE  /\ WellFormed(New(n), hashes, values) /\ New(n).size = n /\ New(n).used = 0
           /\ LivePlaces(New(n)) = {} /\ NoMarks(New(n))
<1> DEFINE t == New(n)
<1>1. t.size = n /\ t.used = 0 /\ t.at = [i \in 0 .. n - 1 |-> Empty]
      /\ t = [size |-> t.size, used |-> t.used, at |-> t.at]
  BY DEF New
<1> HIDE DEF t
<1>2. t.at \in [0 .. n - 1 -> Slots(hashes, values)]
  BY <1>1 DEF Slots
<1>3. \A i \in DOMAIN t.at : ~t.at[i].full
  BY <1>1 DEF Empty
<1>4. LivePlaces(t) = {}
  BY <1>3 DEF LivePlaces, Live
<1> QED
  BY <1>1, <1>2, <1>3, <1>4 DEF WellFormed, IsTable, AllReached, KeysDiffer, NoMarks, t

\* The loop of resize, over the first places of a table.
Moving(f, t, n, m) ==
    f = [i \in 0 .. m |-> IF i = 0 THEN New(n)
                          ELSE LET moved == f[i - 1]
                                   e == t.at[i - 1] IN
                               IF Live(e) THEN Put(moved, e) ELSE moved]

LEMMA MovingExists ==
    ASSUME NEW t, NEW n, NEW l \in Nat
    PROVE  \E f : Moving(f, t, n, l)
<1> DEFINE Next(f, i) == IF Live(t.at[i - 1]) THEN Put(f[i - 1], t.at[i - 1]) ELSE f[i - 1]
           bad == {m \in Nat : ~\E f : Moving(f, t, n, m)}
<1> SUFFICES ASSUME bad # {} PROVE FALSE
  OBVIOUS
<1>1. PICK m \in bad : \A k \in bad : m <= k
  BY LeastElement
<1>2. CASE m = 0
  <2>1. Moving([i \in 0 .. 0 |-> New(n)], t, n, 0)
    BY DEF Moving
  <2> QED
    BY <1>2, <2>1
<1>3. CASE m # 0
  <2>1. m - 1 \in Nat /\ m - 1 \notin bad
    BY <1>1, <1>3
  <2>2. PICK f : Moving(f, t, n, m - 1)
    BY <2>1
  <2> DEFINE g == [i \in 0 .. m |-> IF i <= m - 1 THEN f[i] ELSE Next(f, i)]
  <2>3. ASSUME NEW i \in 0 .. m
        PROVE  g[i] = IF i = 0 THEN New(n) ELSE Next(g, i)
    <3>0. m \in Nat /\ m >= 1
      BY <1>1, <1>3
    <3>1. CASE i = 0
      <4>1. g[i] = f[0] /\ 0 \in 0 .. m - 1
        BY <3>0, <3>1
      <4>2. f[0] = New(n)
        BY <2>2, <4>1 DEF Moving
      <4> QED
        BY <3>1, <4>1, <4>2
    <3>2. CASE i # 0
      <4>1. i - 1 \in 0 .. m /\ i - 1 <= m - 1
        BY <3>0, <3>2
      <4>2. g[i - 1] = f[i - 1]
        BY <4>1
      <4>3. Next(g, i) = Next(f, i)
        BY <4>2
      <4>4. g[i] = Next(f, i)
        <5>1. CASE i <= m - 1
          <6>1. g[i] = f[i] /\ i \in 0 .. m - 1
            BY <3>0, <5>1
          <6>2. f[i] = Next(f, i)
            BY <2>2, <3>2, <6>1 DEF Moving
          <6> QED
            BY <6>1, <6>2
        <5>2. CASE ~(i <= m - 1)
          BY <5>2
        <5> QED
          BY <5>1, <5>2
      <4> QED
        BY <3>2, <4>3, <4>4
    <3> QED
      BY <3>1, <3>2
  <2>4. g = [i \in 0 .. m |-> g[i]]
    OBVIOUS
  <2> HIDE DEF g
  <2>5. Moving(g, t, n, m)
    BY <2>3, <2>4 DEF Moving
  <2> QED
    BY <1>1, <2>5
<1> QED
  BY <1>2, <1>3

\* What resize does, as a loop.
LEMMA ResizeIs ==
    ASSUME NEW t, t.size \in Nat, NEW n
    PROVE  \E f : /\ Resize(t, n) = f[t.size]
                  /\ f[0] = New(n)
                  /\ \A i \in 1 .. t.size :
                         f[i] = IF Live(t.at[i - 1]) THEN Put(f[i - 1], t.at[i - 1]) ELSE f[i - 1]
<1> DEFINE f == CHOOSE g : Moving(g, t, n, t.size)
<1>1. Moving(f, t, n, t.size)
  BY MovingExists
<1>2. Resize(t, n) = f[t.size]
  BY DEF Resize, Moving
<1> HIDE DEF f
<1>3. f[0] = New(n)
  BY <1>1 DEF Moving
<1>4. ASSUME NEW i \in 1 .. t.size
      PROVE  f[i] = IF Live(t.at[i - 1]) THEN Put(f[i - 1], t.at[i - 1]) ELSE f[i - 1]
  <2>1. i \in 0 .. t.size /\ i # 0
    OBVIOUS
  <2> QED
    BY <1>1, <2>1 DEF Moving
<1> QED
  BY <1>2, <1>3, <1>4

LEMMA KeysOfItems ==
    ASSUME NEW t
    PROVE  Keys(t) = {e.key : e \in Items(t)}
BY DEF Keys, Items, LivePlaces

\* An insertion in a place that is not live adds one entry.
LEMMA PutItems ==
    ASSUME NEW t, NEW hashes, NEW values, WellFormed(t, hashes, values),
           NEW e \in Slots(hashes, values), Live(e), e.key \notin Keys(t),
           NEW q \in 0 .. t.size - 1, ~Live(t.at[q])
    PROVE  /\ Items(Put(t, e)) = Items(t) \union {e}
           /\ Cardinality(LivePlaces(Put(t, e))) = Cardinality(LivePlaces(t)) + 1
           /\ NoMarks(t) => NoMarks(Put(t, e))
<1> DEFINE p == Free(t, e.hash)
           u == Put(t, e)
<1>0. IsTable(t, hashes, values)
  BY DEF WellFormed
<1>1. /\ WellFormed(u, hashes, values) /\ u.size = t.size
      /\ p \in 0 .. t.size - 1 /\ ~Live(t.at[p])
      /\ LivePlaces(u) = LivePlaces(t) \union {p}
      /\ u.at[p] = e
      /\ \A i \in 0 .. t.size - 1 : i # p => u.at[i] = t.at[i]
  BY PutRight
<1> HIDE DEF p, u
<1>2. DOMAIN t.at = 0 .. t.size - 1 /\ DOMAIN u.at = 0 .. t.size - 1
  BY <1>0, <1>1 DEF IsTable, WellFormed
<1>3. \A i \in LivePlaces(t) : i # p /\ u.at[i] = t.at[i]
  BY <1>1, <1>2 DEF LivePlaces
<1>4. Items(u) = Items(t) \union {e}
  BY <1>1, <1>3 DEF Items
<1>5. Cardinality(LivePlaces(u)) = Cardinality(LivePlaces(t)) + 1
  <2>1. p \notin LivePlaces(t) /\ IsFiniteSet(LivePlaces(t))
    BY <1>0, <1>3, LiveFinite
  <2> QED
    BY <1>1, <2>1, FS_AddElement
<1>6. ASSUME NoMarks(t) PROVE NoMarks(u)
  BY <1>1, <1>2, <1>6 DEF NoMarks
<1> QED
  BY <1>4, <1>5, <1>6 DEF p, u

\* The live places before place i.
Earlier(t, i) == {j \in LivePlaces(t) : j < i}

\* What resize has put in the new table when it has come to place i of the old one.
Resizing(m, t, hashes, values, n, i) ==
    /\ WellFormed(m, hashes, values) /\ m.size = n /\ NoMarks(m)
    /\ m.used = Cardinality(LivePlaces(m))
    /\ Cardinality(LivePlaces(m)) = Cardinality(Earlier(t, i))
    /\ Items(m) = {t.at[j] : j \in Earlier(t, i)}

LEMMA ResizingStart ==
    ASSUME NEW t, NEW hashes, NEW values, WellFormed(t, hashes, values),
           NEW n \in Nat \ {0}, IsPower2(n)
    PROVE  Resizing(New(n), t, hashes, values, n, 0)
<1>1. Earlier(t, 0) = {}
  BY DEF Earlier, LivePlaces, WellFormed, IsTable
<1>2. Cardinality({}) = 0
  BY FS_EmptySet
<1>3. /\ WellFormed(New(n), hashes, values) /\ New(n).size = n /\ New(n).used = 0
      /\ LivePlaces(New(n)) = {} /\ NoMarks(New(n))
  BY NewRight
<1>4. Items(New(n)) = {}
  BY <1>3 DEF Items
<1> QED
  BY <1>1, <1>2, <1>3, <1>4 DEF Resizing

LEMMA ResizingStep ==
    ASSUME NEW t, NEW hashes, NEW values, WellFormed(t, hashes, values),
           NEW n \in Nat \ {0}, IsPower2(n), Cardinality(LivePlaces(t)) <= n,
           NEW i \in 1 .. t.size, NEW m, Resizing(m, t, hashes, values, n, i - 1)
    PROVE  Resizing(IF Live(t.at[i - 1]) THEN Put(m, t.at[i - 1]) ELSE m, t, hashes, values, n, i)
<1> DEFINE e == t.at[i - 1]
<1>0. /\ IsTable(t, hashes, values) /\ KeysDiffer(t)
      /\ DOMAIN t.at = 0 .. t.size - 1 /\ i - 1 \in 0 .. t.size - 1 /\ t.size \in Nat
  BY DEF WellFormed, IsTable
<1>1. \A j \in LivePlaces(t) : j < i <=> j < i - 1 \/ j = i - 1
  BY <1>0 DEF LivePlaces
<1>2. CASE ~Live(e)
  <2>1. i - 1 \notin LivePlaces(t)
    BY <1>2 DEF LivePlaces
  <2>2. Earlier(t, i) = Earlier(t, i - 1)
    BY <1>1, <2>1 DEF Earlier
  <2> QED
    BY <1>2, <2>2 DEF Resizing
<1>3. CASE Live(e)
  <2>1. i - 1 \in LivePlaces(t)
    BY <1>0, <1>3 DEF LivePlaces
  <2>2. Earlier(t, i) = Earlier(t, i - 1) \union {i - 1} /\ i - 1 \notin Earlier(t, i - 1)
    BY <1>0, <1>1, <2>1 DEF Earlier
  <2>3. /\ IsFiniteSet(LivePlaces(t)) /\ Cardinality(LivePlaces(t)) \in Nat
        /\ Earlier(t, i) \in SUBSET LivePlaces(t) /\ Earlier(t, i - 1) \in SUBSET LivePlaces(t)
    BY <1>0, LiveFinite DEF Earlier
  <2>4. /\ IsFiniteSet(Earlier(t, i - 1)) /\ Cardinality(Earlier(t, i - 1)) \in Nat
        /\ Cardinality(Earlier(t, i)) <= Cardinality(LivePlaces(t))
        /\ Cardinality(Earlier(t, i)) \in Nat
    BY <2>3, FS_Subset, FS_CardinalityType
  <2>5. Cardinality(Earlier(t, i)) = Cardinality(Earlier(t, i - 1)) + 1
    BY <2>2, <2>4, FS_AddElement
  <2>6. PICK q \in 0 .. m.size - 1 : ~Live(m.at[q])
    <3>1. Cardinality(LivePlaces(m)) < m.size /\ IsTable(m, hashes, values)
      BY <2>3, <2>4, <2>5 DEF Resizing, WellFormed
    <3> QED
      BY <3>1, PlaceLeft
  <2>7. e \in Slots(hashes, values)
    BY <1>0 DEF IsTable
  <2>8. e.key \notin Keys(m)
    <3>1. \A j \in Earlier(t, i - 1) : t.at[j].key # e.key
      BY <1>0, <2>1, <2>2, <2>3 DEF KeysDiffer
    <3>2. \A x \in Items(m) : x.key # e.key
      BY <3>1 DEF Resizing
    <3> HIDE DEF e
    <3> QED
      BY <3>2, KeysOfItems
  <2> HIDE DEF e
  <2>9. /\ WellFormed(Put(m, e), hashes, values) /\ Put(m, e).size = m.size
        /\ Put(m, e).used = m.used + 1
    BY <1>3, <2>6, <2>7, <2>8, PutRight DEF Resizing
  <2>10. /\ Items(Put(m, e)) = Items(m) \union {e}
         /\ Cardinality(LivePlaces(Put(m, e))) = Cardinality(LivePlaces(m)) + 1
         /\ NoMarks(Put(m, e))
    BY <1>3, <2>6, <2>7, <2>8, PutItems DEF Resizing
  <2>11. {t.at[j] : j \in Earlier(t, i)} = {t.at[j] : j \in Earlier(t, i - 1)} \union {e}
    BY <2>2 DEF e
  <2>12. Resizing(Put(m, e), t, hashes, values, n, i)
    BY <2>5, <2>9, <2>10, <2>11 DEF Resizing
  <2> QED
    BY <1>3, <2>12 DEF e
<1> QED
  BY <1>2, <1>3

\* resize keeps the entries and counts them; no marks are left.
LEMMA ResizeRight ==
    ASSUME NEW t, NEW hashes, NEW values, WellFormed(t, hashes, values),
           NEW n \in Nat \ {0}, IsPower2(n), Cardinality(LivePlaces(t)) <= n
    PROVE  /\ WellFormed(Resize(t, n), hashes, values) /\ Resize(t, n).size = n
           /\ NoMarks(Resize(t, n))
           /\ Resize(t, n).used = Cardinality(LivePlaces(t))
           /\ Cardinality(LivePlaces(Resize(t, n))) = Cardinality(LivePlaces(t))
           /\ Items(Resize(t, n)) = Items(t)
<1>0. t.size \in Nat /\ DOMAIN t.at = 0 .. t.size - 1
  BY DEF WellFormed, IsTable
<1>1. PICK f : /\ Resize(t, n) = f[t.size]
               /\ f[0] = New(n)
               /\ \A i \in 1 .. t.size :
                      f[i] = IF Live(t.at[i - 1]) THEN Put(f[i - 1], t.at[i - 1]) ELSE f[i - 1]
  BY <1>0, ResizeIs
<1> DEFINE bad == {i \in 0 .. t.size : ~Resizing(f[i], t, hashes, values, n, i)}
<1>2. bad = {}
  <2> SUFFICES ASSUME bad # {} PROVE FALSE
    OBVIOUS
  <2>1. bad \in SUBSET Nat
    OBVIOUS
  <2>2. PICK i \in bad : \A k \in bad : i <= k
    BY <2>1, LeastElement
  <2>3. i # 0
    BY <1>1, ResizingStart
  <2>4. i \in 1 .. t.size /\ i - 1 \in 0 .. t.size /\ ~(i <= i - 1)
    BY <1>0, <2>2, <2>3
  <2>5. i - 1 \notin bad
    <3> HIDE DEF bad
    <3> QED
      BY <2>2, <2>4
  <2>6. Resizing(f[i - 1], t, hashes, values, n, i - 1)
    BY <2>4, <2>5
  <2>7. Resizing(f[i], t, hashes, values, n, i)
    BY <1>1, <2>4, <2>6, ResizingStep
  <2> QED
    BY <2>2, <2>7
<1>3. Resizing(f[t.size], t, hashes, values, n, t.size)
  <2>1. t.size \in 0 .. t.size
    BY <1>0
  <2> QED
    BY <1>2, <2>1
<1>4. Earlier(t, t.size) = LivePlaces(t)
  BY <1>0 DEF Earlier, LivePlaces
<1>5. Resizing(Resize(t, n), t, hashes, values, n, t.size)
  BY <1>1, <1>3
<1>6. {t.at[j] : j \in Earlier(t, t.size)} = Items(t)
  BY <1>4 DEF Items
<1> QED
  BY <1>4, <1>5, <1>6 DEF Resizing

\* There is a power of 2 in n .. 2 * n - 1.
LEMMA PowerBetween ==
    ASSUME NEW n \in Nat \ {0}
    PROVE  \E p \in n .. 2 * n - 1 : IsPower2(p)
<1> DEFINE bad == {m \in Nat \ {0} : ~\E p \in m .. 2 * m - 1 : IsPower2(p)}
<1> SUFFICES ASSUME bad # {} PROVE FALSE
  OBVIOUS
<1>1. PICK m \in bad : \A k \in bad : m <= k
  BY LeastElement
<1>2. m # 1
  <2>1. 1 \in 1 .. 2 * 1 - 1
    OBVIOUS
  <2> QED
    BY <1>1, <2>1, OnePower
<1>3. PICK h \in Nat : m = 2 * h \/ m = 2 * h - 1
  <2>1. (m + 1) = 2 * ((m + 1) \div 2) + ((m + 1) % 2) /\ (m + 1) \div 2 \in Nat
        /\ (m + 1) % 2 \in 0 .. 1
    BY Division
  <2>2. m = 2 * ((m + 1) \div 2) \/ m = 2 * ((m + 1) \div 2) - 1
    BY <2>1
  <2> QED
    BY <2>1, <2>2
<1>4. h \in Nat \ {0} /\ ~(m <= h)
  BY <1>2, <1>3
<1>5. h \notin bad
  <2> HIDE DEF bad
  <2> QED
    BY <1>1, <1>4
<1>6. PICK q \in h .. 2 * h - 1 : IsPower2(q)
  BY <1>4, <1>5
<1>7. q \in Nat \ {0} /\ IsPower2(2 * q)
  BY <1>4, <1>6, PowerDouble
<1>8. CASE m = 2 * h
  <2>1. 2 * q \in m .. 2 * m - 1
    BY <1>4, <1>8
  <2> QED
    BY <1>1, <1>7, <2>1
<1>9. CASE m = 2 * h - 1
  <2>1. q # m
    <3> SUFFICES ASSUME q = m PROVE FALSE
      OBVIOUS
    <3>1. PICK g \in Nat \ {0} : q = 2 * g
      BY <1>2, <1>6, <1>7, PowerHalf
    <3> QED
      BY <1>9, <3>1
  <2>2. 2 * q \in m .. 2 * m - 1
    BY <1>4, <1>9, <2>1
  <2> QED
    BY <1>1, <1>7, <2>2
<1> QED
  BY <1>3, <1>8, <1>9

LEMMA NextPowerRight ==
    ASSUME NEW n \in Nat \ {0}
    PROVE  /\ NextPower2(n) \in Nat \ {0} /\ IsPower2(NextPower2(n))
           /\ 2 * n <= NextPower2(n) /\ NextPower2(n) < 4 * n
<1>1. PICK p \in 2 * n .. 2 * (2 * n) - 1 : IsPower2(p)
  <2>1. 2 * n \in Nat \ {0}
    OBVIOUS
  <2> QED
    BY <2>1, PowerBetween
<1>2. p \in 2 * n .. 4 * n - 1
  OBVIOUS
<1>3. NextPower2(n) \in 2 * n .. 4 * n - 1 /\ IsPower2(NextPower2(n))
  BY <1>1, <1>2 DEF NextPower2
<1> QED
  BY <1>3

\* The entries are counted, and no more than half of the places and one are.
Counted(t) ==
    /\ t.size >= 4
    /\ Cardinality(LivePlaces(t)) <= t.used
    /\ 2 * t.used <= t.size + 2

\* What Resized keeps of a table: u is t or a new table.
Same(u, t, hashes, values) ==
    /\ WellFormed(u, hashes, values) /\ Counted(u)
    /\ Items(u) = Items(t) /\ u.size >= t.size
    /\ Cardinality(LivePlaces(u)) = Cardinality(LivePlaces(t))

LEMMA ResizedRight ==
    ASSUME NEW t, NEW hashes, NEW values, WellFormed(t, hashes, values), Counted(t)
    PROVE  /\ Same(Resized(t), t, hashes, values)
           /\ 2 * Resized(t).used <= Resized(t).size \/ NoMarks(Resized(t))
           /\ NoMarks(t) => 2 * Resized(t).used <= Resized(t).size
<1>0. t.size \in Nat \ {0} /\ t.used \in Nat /\ IsPower2(t.size) /\ IsTable(t, hashes, values)
  BY DEF WellFormed, IsTable
<1>1. Cardinality(LivePlaces(t)) \in Nat
  BY <1>0, LiveFinite
<1>2. CASE 2 * t.used <= t.size
  <2>1. Resized(t) = t
    BY <1>2 DEF Resized
  <2> QED
    BY <1>0, <1>2, <2>1 DEF Same
<1>3. CASE ~(2 * t.used <= t.size)
  <2> DEFINE n == IF Marked(t) THEN t.size ELSE NextPower2(t.size)
             u == Resize(t, n)
  <2>1. Resized(t) = u
    BY <1>3 DEF Resized
  <2>2. /\ n \in Nat \ {0} /\ IsPower2(n) /\ n >= t.size
        /\ ~Marked(t) => n >= 2 * t.size
    BY <1>0, NextPowerRight
  <2> HIDE DEF n
  <2>3. Cardinality(LivePlaces(t)) <= n
    BY <1>0, <1>1, <2>2, LiveFinite
  <2>4. /\ WellFormed(u, hashes, values) /\ u.size = n /\ NoMarks(u)
        /\ u.used = Cardinality(LivePlaces(t))
        /\ Cardinality(LivePlaces(u)) = Cardinality(LivePlaces(t))
        /\ Items(u) = Items(t)
    BY <2>2, <2>3, ResizeRight
  <2> HIDE DEF u
  <2>5. u.used <= t.used /\ 2 * t.used <= t.size + 2 /\ t.size >= 4
    BY <2>4 DEF Counted
  <2>6. Counted(u)
    BY <1>0, <1>1, <2>2, <2>4, <2>5 DEF Counted
  <2>7. ASSUME NoMarks(t) PROVE 2 * u.used <= u.size
    <3>1. ~Marked(t)
      BY <2>7 DEF NoMarks, Marked, Live
    <3> QED
      BY <1>0, <1>1, <2>2, <2>4, <2>5, <3>1
  <2> QED
    BY <1>0, <2>1, <2>2, <2>4, <2>6, <2>7 DEF Same
<1> QED
  BY <1>2, <1>3

\* After two resizings there is room, and nothing is lost.
LEMMA ResizedTwice ==
    ASSUME NEW t, NEW hashes, NEW values, WellFormed(t, hashes, values), Counted(t)
    PROVE  /\ Same(Resized(Resized(t)), t, hashes, values)
           /\ 2 * Resized(Resized(t)).used <= Resized(Resized(t)).size
<1> DEFINE u == Resized(t)
           r == Resized(u)
<1>1. Same(u, t, hashes, values) /\ (2 * u.used <= u.size \/ NoMarks(u))
  BY ResizedRight
<1>2. WellFormed(u, hashes, values) /\ Counted(u)
  BY <1>1 DEF Same
<1> HIDE DEF u
<1>3. Same(r, u, hashes, values) /\ (NoMarks(u) => 2 * r.used <= r.size)
  BY <1>2, ResizedRight
<1>4. 2 * u.used <= u.size => r = u
  BY DEF Resized
<1> HIDE DEF r
<1>5. 2 * r.used <= r.size
  BY <1>1, <1>3, <1>4
<1>6. r.size \in Nat /\ u.size \in Nat /\ t.size \in Nat
  BY <1>1, <1>3 DEF Same, WellFormed, IsTable
<1>7. Same(r, t, hashes, values)
  BY <1>1, <1>3, <1>6 DEF Same
<1> QED
  BY <1>5, <1>7 DEF r, u

LEMMA CountedLeaves ==
    ASSUME NEW t, NEW hashes, NEW values, WellFormed(t, hashes, values), Counted(t)
    PROVE  \E q \in 0 .. t.size - 1 : ~Live(t.at[q])
<1>1. IsTable(t, hashes, values) /\ t.size \in Nat /\ t.used \in Nat
  BY DEF WellFormed, IsTable
<1>2. Cardinality(LivePlaces(t)) \in Nat
  BY <1>1, LiveFinite
<1>3. Cardinality(LivePlaces(t)) < t.size
  BY <1>1, <1>2 DEF Counted
<1> QED
  BY <1>1, <1>3, PlaceLeft

\* insert adds one entry, and the table stays as it has to be.
LEMMA InsertRight ==
    ASSUME NEW t, NEW hashes, NEW values, WellFormed(t, hashes, values), Counted(t),
           NEW e \in Slots(hashes, values), Live(e), e.key \notin Keys(t)
    PROVE  /\ WellFormed(Insert(t, e), hashes, values) /\ Counted(Insert(t, e))
           /\ Items(Insert(t, e)) = Items(t) \union {e}
<1> DEFINE r == Resized(Resized(t))
           u == Put(r, e)
<1>1. Same(r, t, hashes, values) /\ 2 * r.used <= r.size
  BY ResizedTwice
<1> HIDE DEF r
<1>2. /\ WellFormed(r, hashes, values) /\ Counted(r) /\ Items(r) = Items(t)
      /\ r.size \in Nat /\ r.used \in Nat
  BY <1>1 DEF Same, WellFormed, IsTable
<1>3. Keys(r) = Keys(t)
  BY <1>2, KeysOfItems
<1>4. PICK q \in 0 .. r.size - 1 : ~Live(r.at[q])
  BY <1>2, CountedLeaves
<1>5. /\ WellFormed(u, hashes, values) /\ u.size = r.size /\ u.used = r.used + 1
  BY <1>2, <1>3, <1>4, PutRight
<1>6. Items(u) = Items(r) \union {e} /\ Cardinality(LivePlaces(u)) = Cardinality(LivePlaces(r)) + 1
  BY <1>2, <1>3, <1>4, PutItems
<1> HIDE DEF u
<1>7. Cardinality(LivePlaces(r)) \in Nat
  BY <1>2, LiveFinite DEF WellFormed
<1>8. Counted(u)
  BY <1>1, <1>2, <1>5, <1>6, <1>7 DEF Counted
<1>9. Insert(t, e) = u
  BY DEF Insert, r, u
<1> QED
  BY <1>2, <1>5, <1>6, <1>8, <1>9

\* No insertion aborts: there is a free place in the table, and after every resizing.
LEMMA OpenTable ==
    ASSUME NEW t, NEW hashes, NEW values, WellFormed(t, hashes, values), Counted(t)
    PROVE  Open(t)
<1>1. ASSUME NEW r, WellFormed(r, hashes, values), Counted(r), NEW h \in DOMAIN r.at
      PROVE  Free(r, h) # -1
  <2>1. r.size \in Nat \ {0} /\ IsPower2(r.size) /\ DOMAIN r.at = 0 .. r.size - 1
    BY <1>1 DEF WellFormed, IsTable
  <2>2. PICK q \in 0 .. r.size - 1 : ~Live(r.at[q])
    BY <1>1, CountedLeaves
  <2>3. q \in NotLive(r)
    BY <2>1, <2>2 DEF NotLive
  <2>4. h \in Nat
    BY <1>1, <2>1
  <2>5. PICK k \in 0 .. r.size - 1 : FirstAt(r, h, NotLive(r), First(r, h, NotLive(r)), k)
    BY <2>1, <2>3, <2>4, FirstMeets
  <2>6. Free(r, h) \in 0 .. r.size - 1
    BY <2>5 DEF FirstAt, Free
  <2> QED
    BY <2>1, <2>6
<1>2. WellFormed(Resized(t), hashes, values) /\ Counted(Resized(t))
  BY ResizedRight DEF Same
<1>3. WellFormed(Resized(Resized(t)), hashes, values) /\ Counted(Resized(Resized(t)))
  BY ResizedTwice DEF Same
<1>4. ASSUME NEW r \in {t, Resized(t), Resized(Resized(t))}, NEW h \in DOMAIN r.at
      PROVE  Free(r, h) # -1
  <2>1. WellFormed(r, hashes, values) /\ Counted(r)
    BY <1>2, <1>3
  <2> QED
    BY <1>1, <2>1
<1> QED
  BY <1>4 DEF Open

\* A new table of a power of 2 that is large enough.
LEMMA NewCounted ==
    ASSUME NEW hashes, NEW values, NEW n \in Nat, n >= 2
    PROVE  /\ WellFormed(New(NextPower2(n)), hashes, values) /\ Counted(New(NextPower2(n)))
           /\ Items(New(NextPower2(n))) = {} /\ Keys(New(NextPower2(n))) = {}
<1> DEFINE m == NextPower2(n)
           t == New(m)
<1>1. m \in Nat \ {0} /\ IsPower2(m) /\ m >= 4
  BY NextPowerRight
<1> HIDE DEF m
<1>2. WellFormed(t, hashes, values) /\ t.size = m /\ t.used = 0 /\ LivePlaces(t) = {}
  BY <1>1, NewRight
<1> HIDE DEF t
<1>3. Cardinality(LivePlaces(t)) = 0
  BY <1>2, FS_EmptySet
<1>4. Counted(t)
  BY <1>1, <1>2, <1>3 DEF Counted
<1>5. Items(t) = {} /\ Keys(t) = {}
  BY <1>2, KeysOfItems DEF Items
<1> QED
  BY <1>2, <1>4, <1>5 DEF t, m

\* remove and makeRemoved take one entry away.
LEMMA RemoveRight ==
    ASSUME NEW t, NEW hashes, NEW values, WellFormed(t, hashes, values), Counted(t),
           NEW p \in LivePlaces(t), NEW u \in {MakeRemoved(t, p), Removed(t, p)}
    PROVE  /\ WellFormed(u, hashes, values) /\ Counted(u)
           /\ Items(u) = Items(t) \ {t.at[p]}
<1> DEFINE e == [t.at[p] EXCEPT !.removed = TRUE]
           n == IF u = MakeRemoved(t, p) THEN t.used ELSE t.used - 1
<1>0. IsTable(t, hashes, values) /\ KeysDiffer(t) /\ t.size \in Nat /\ t.used \in Nat
      /\ DOMAIN t.at = 0 .. t.size - 1 /\ p \in 0 .. t.size - 1
  BY LivePlace DEF WellFormed, IsTable
<1>1. /\ MakeRemoved(t, p) = With(t, t.used, p, e)
      /\ Removed(t, p) = With(t, t.used - 1, p, e)
      /\ e \in Slots(hashes, values) /\ e.full /\ e.removed /\ e.key = t.at[p].key
  BY RemoveIs
<1>2. IsFiniteSet(LivePlaces(t)) /\ Cardinality(LivePlaces(t)) \in Nat
  BY <1>0, LiveFinite
<1>3. /\ IsFiniteSet(LivePlaces(t) \ {p})
      /\ Cardinality(LivePlaces(t) \ {p}) = Cardinality(LivePlaces(t)) - 1
      /\ Cardinality(LivePlaces(t) \ {p}) \in Nat
  BY <1>2, FS_RemoveElement, FS_CardinalityType
<1> HIDE DEF e
<1>4. u = With(t, n, p, e)
  BY <1>1
<1>5. n \in Nat /\ t.used - 1 <= n /\ n <= t.used
  BY <1>0, <1>2, <1>3 DEF Counted
<1> HIDE DEF n
<1>6. WellFormed(u, hashes, values) /\ LivePlaces(u) = LivePlaces(t) \ {p}
  BY <1>1, <1>4, <1>5, ChangeRight
<1>7. /\ u.size = t.size /\ u.used = n
      /\ \A i \in 0 .. t.size - 1 : i # p => u.at[i] = t.at[i]
  BY <1>0, <1>1, <1>4, <1>5, WithType
<1>8. Counted(u)
  BY <1>0, <1>2, <1>3, <1>5, <1>6, <1>7 DEF Counted
<1>9. \A i \in LivePlaces(u) : u.at[i] = t.at[i] /\ t.at[i] # t.at[p]
  <2>1. \A i \in LivePlaces(u) : i \in LivePlaces(t) /\ i # p /\ i \in 0 .. t.size - 1
    BY <1>0, <1>6 DEF LivePlaces
  <2> QED
    BY <1>0, <1>7, <2>1 DEF KeysDiffer
<1>10. Items(u) = Items(t) \ {t.at[p]}
  BY <1>6, <1>9 DEF Items
<1> QED
  BY <1>6, <1>8, <1>10
-----------------------------------------------------------------------------
(* What an insertion promises.                                             *)

\* An insertion (DynamicHashTable::insert), with the resizings it does, adds one entry
\* and loses none; every key is found afterwards, at a place of its own, and the next
\* insertion finds a free place whatever its hash is.
THEOREM InsertionRight ==
    ASSUME NEW t, NEW hashes, hashes \in [DOMAIN hashes -> Nat], NEW values,
           WellFormed(t, hashes, values), Counted(t),
           NEW key \in DOMAIN hashes, key \notin Keys(t), NEW value \in values
    PROVE  LET e == Entry(key, hashes[key], value)
               u == Insert(t, e) IN
           /\ WellFormed(u, hashes, values) /\ Counted(u)
           /\ Items(u) = Items(t) \union {e} /\ Keys(u) = Keys(t) \union {key}
           /\ Sound(u) /\ Open(u)
<1> DEFINE e == Entry(key, hashes[key], value)
           u == Insert(t, e)
<1>1. e \in Slots(hashes, values) /\ Live(e) /\ e.key = key
  BY EntryType
<1> HIDE DEF e
<1>2. WellFormed(u, hashes, values) /\ Counted(u) /\ Items(u) = Items(t) \union {e}
  BY <1>1, InsertRight
<1> HIDE DEF u
<1>3. Keys(u) = Keys(t) \union {key}
  BY <1>1, <1>2, KeysOfItems
<1>4. Sound(u) /\ Open(u)
  BY <1>2, SoundTable, OpenTable
<1> QED
  BY <1>2, <1>3, <1>4 DEF u, e
=============================================================================
