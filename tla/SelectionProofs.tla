--------------------------- MODULE SelectionProofs ---------------------------
(***************************************************************************)
(* What Keep gives: what a loop down a chain or an array leaves of it.     *)
(* The facts about every sequence rest on one form of induction, on the    *)
(* set of the sequences a fact holds of.                                   *)
(***************************************************************************)
EXTENDS Selection, SequenceTheorems, NaturalsInduction, WellFoundedInduction, TLAPS

\* A set of natural numbers has a least one.
LEMMA LeastElement ==
    ASSUME NEW S \in SUBSET Nat, S # {}
    PROVE  \E m \in S : \A n \in S : m <= n
<1>1. \E m \in S : \A n \in S : ~(<<n, m>> \in OpToRel(<, Nat))
  BY NatLessThanWellFounded, WFMin
<1>2. PICK m \in S : \A n \in S : ~(n < m)
  BY <1>1 DEF OpToRel
<1>3. \A n \in S : m <= n
  BY <1>2
<1> QED
  BY <1>3

\* What holds of the empty sequence, and of a sequence with one more element
\* when it holds of the sequence, holds of all.
LEMMA AllSequences ==
    ASSUME NEW S, NEW G,
           <<>> \in G,
           \A s \in Seq(S), c \in S : s \in G => Append(s, c) \in G
    PROVE  Seq(S) \subseteq G
<1> DEFINE bad == {Len(s) : s \in {t \in Seq(S) : t \notin G}}
<1> SUFFICES ASSUME bad # {} PROVE FALSE
  OBVIOUS
<1>1. PICK m \in bad : \A n \in bad : m <= n
  <2>1. bad \in SUBSET Nat
    OBVIOUS
  <2> QED
    BY <2>1, LeastElement
<1>2. PICK s \in Seq(S) : s \notin G /\ Len(s) = m
  BY <1>1
<1>3. s # <<>> /\ Len(s) \in Nat /\ Len(s) # 0
  BY <1>2, EmptySeq
<1> DEFINE t == SubSeq(s, 1, Len(s) - 1)
<1>4. t \in Seq(S) /\ Len(t) = Len(s) - 1 /\ \A i \in 1 .. Len(s) - 1 : t[i] = s[i]
  <2>1. \A i \in 1 .. Len(s) - 1 : s[i] \in S
    BY <1>3
  <2>2. Len(s) - 1 \in Int /\ 1 \in Int /\ 1 <= (Len(s) - 1) + 1
    BY <1>3
  <2>3. /\ t \in Seq(S)
        /\ Len(t) = IF 1 <= Len(s) - 1 THEN (Len(s) - 1) - 1 + 1 ELSE 0
        /\ \A i \in 1 .. (Len(s) - 1) - 1 + 1 : t[i] = s[1 + i - 1]
    BY <2>1, <2>2, SubSeqProperties
  <2> HIDE DEF t
  <2>4. ASSUME NEW i \in 1 .. Len(s) - 1 PROVE t[i] = s[i]
    <3>1. i \in 1 .. (Len(s) - 1) - 1 + 1 /\ 1 + i - 1 = i
      BY <1>3
    <3> QED
      BY <2>3, <3>1
  <2>5. Len(t) = Len(s) - 1
    <3>1. Len(t) = IF 1 <= Len(s) - 1 THEN (Len(s) - 1) - 1 + 1 ELSE 0
      BY <2>3
    <3>2. \A n \in Nat : \A l : n # 0 /\ l = (IF 1 <= n - 1 THEN (n - 1) - 1 + 1 ELSE 0) => l = n - 1
      OBVIOUS
    <3> QED
      BY <1>3, <3>1, <3>2, Zenon
  <2> QED
    BY <2>3, <2>4, <2>5
<1>5. s[Len(s)] \in S
  BY <1>3
<1>6. s = Append(t, s[Len(s)])
  <2>1. Append(t, s[Len(s)]) \in Seq(S) /\ Len(Append(t, s[Len(s)])) = Len(s)
    BY <1>3, <1>4, <1>5
  <2>2. \A i \in 1 .. Len(s) : s[i] = Append(t, s[Len(s)])[i]
    BY <1>3, <1>4, <1>5
  <2> QED
    BY <2>1, <2>2, SeqEqual
<1>7. t \in G
  <2>1. SUFFICES ASSUME t \notin G PROVE FALSE
    OBVIOUS
  <2>2. Len(t) \in bad
    BY <1>4, <2>1
  <2>3. m <= Len(t)
    BY <1>1, <2>2
  <2> QED
    BY <1>2, <1>3, <1>4, <2>3
<1> QED
  BY <1>2, <1>4, <1>5, <1>6, <1>7

\* The empty sequence is one.
LEMMA EmptyExists ==
    ASSUME NEW S
    PROVE  \E e \in Seq(S) : e = <<>> /\ Len(e) = 0
<1>1. <<>> \in Seq(S) /\ Len(<<>>) = 0
  OBVIOUS
<1> QED
  BY <1>1, Zenon

-----------------------------------------------------------------------------
(* The loop.                                                               *)

Loops(f, s, V) ==
    f = [i \in 0 .. Len(s) |->
            IF i = 0 THEN <<>>
            ELSE IF s[i] \in V THEN Append(f[i - 1], s[i]) ELSE f[i - 1]]

\* Two loops over sequences that begin alike begin alike.
LEMMA LoopsAgree ==
    ASSUME NEW S, NEW s \in Seq(S), NEW t \in Seq(S), NEW V, NEW f, NEW g,
           Loops(f, s, V), Loops(g, t, V),
           Len(s) <= Len(t), \A i \in 1 .. Len(s) : s[i] = t[i]
    PROVE  \A i \in 0 .. Len(s) : f[i] = g[i]
<1> DEFINE bad == {i \in 0 .. Len(s) : f[i] # g[i]}
<1> SUFFICES ASSUME bad # {} PROVE FALSE
  OBVIOUS
<1>0. Len(s) \in Nat /\ Len(t) \in Nat
  OBVIOUS
<1>1. PICK m \in bad : \A n \in bad : m <= n
  <2>1. bad \in SUBSET Nat
    BY <1>0
  <2> QED
    BY <2>1, LeastElement
<1>2. /\ f[m] = IF m = 0 THEN <<>>
                ELSE IF s[m] \in V THEN Append(f[m - 1], s[m]) ELSE f[m - 1]
      /\ g[m] = IF m = 0 THEN <<>>
                ELSE IF t[m] \in V THEN Append(g[m - 1], t[m]) ELSE g[m - 1]
  <2>1. m \in 0 .. Len(s) /\ m \in 0 .. Len(t)
    BY <1>0
  <2> HIDE DEF bad
  <2> QED
    BY <2>1 DEF Loops
<1>3. CASE m = 0
  BY <1>2, <1>3
<1>4. CASE m # 0
  <2>1. m - 1 \in 0 .. Len(s) /\ s[m] = t[m]
    BY <1>0, <1>4
  <2>2. f[m - 1] = g[m - 1]
    BY <1>0, <1>1, <2>1
  <2> QED
    BY <1>2, <1>4, <2>1, <2>2
<1> QED
  BY <1>3, <1>4

\* There is a loop for every sequence.
LEMMA LoopExists ==
    ASSUME NEW S, NEW s \in Seq(S), NEW V
    PROVE  \E f : Loops(f, s, V)
<1> DEFINE G == {t \in Seq(S) : \E f : Loops(f, t, V)}
<1>1. <<>> \in G
  <2>1. Loops([i \in 0 .. 0 |-> <<>>], <<>>, V)
    BY DEF Loops
  <2> QED
    BY <2>1
<1>2. ASSUME NEW t \in Seq(S), NEW c \in S, t \in G
      PROVE  Append(t, c) \in G
  <2>1. PICK f : Loops(f, t, V)
    BY <1>2
  <2> DEFINE n == Len(t)
             u == Append(t, c)
             g == [i \in 0 .. n + 1 |->
                     IF i <= n THEN f[i] ELSE IF c \in V THEN Append(f[n], c) ELSE f[n]]
  <2>2. n \in Nat /\ u \in Seq(S) /\ Len(u) = n + 1 /\ u[n + 1] = c
        /\ \A i \in 1 .. n : u[i] = t[i]
    OBVIOUS
  <2>3. ASSUME NEW i \in 0 .. n + 1
        PROVE  g[i] = IF i = 0 THEN <<>>
                      ELSE IF u[i] \in V THEN Append(g[i - 1], u[i]) ELSE g[i - 1]
    <3>1. CASE i = n + 1
      <4>1. i # 0 /\ i - 1 = n /\ n \in 0 .. n + 1 /\ i \in 0 .. n + 1 /\ ~(i <= n)
        BY <2>2, <3>1
      <4>2. g[i] = (IF c \in V THEN Append(f[n], c) ELSE f[n]) /\ g[i - 1] = f[n]
        BY <2>2, <4>1
      <4> QED
        BY <2>2, <3>1, <4>1, <4>2
    <3>2. CASE i = 0
      <4>1. g[i] = f[0]
        BY <2>2, <3>2
      <4>2. f[0] = <<>>
        BY <2>1, <2>2 DEF Loops
      <4> QED
        BY <3>2, <4>1, <4>2
    <3>3. CASE i \in 1 .. n
      <4>1. i # 0 /\ i \in 0 .. n /\ i - 1 \in 0 .. n /\ i - 1 \in 0 .. n + 1
        BY <2>2, <3>3
      <4>2. g[i] = f[i] /\ g[i - 1] = f[i - 1] /\ u[i] = t[i]
        BY <2>2, <3>3, <4>1
      <4>3. f[i] = IF t[i] \in V THEN Append(f[i - 1], t[i]) ELSE f[i - 1]
        BY <2>1, <4>1 DEF Loops
      <4> QED
        BY <4>1, <4>2, <4>3
    <3> QED
      BY <2>2, <3>1, <3>2, <3>3
  <2>4. DOMAIN g = 0 .. n + 1 /\ g = [i \in 0 .. n + 1 |-> g[i]]
    OBVIOUS
  <2> HIDE DEF g, u
  <2>5. Loops(g, u, V)
    BY <2>2, <2>3, <2>4 DEF Loops
  <2> QED
    BY <2>2, <2>5 DEF u
<1> HIDE DEF G
<1>3. Seq(S) \subseteq G
  BY <1>1, <1>2, AllSequences
<1> QED
  BY <1>3 DEF G

LEMMA KeepLoops ==
    ASSUME NEW S, NEW s \in Seq(S), NEW V
    PROVE  \E f : Loops(f, s, V) /\ Keep(s, V) = f[Len(s)]
<1> DEFINE loop == CHOOSE f : Loops(f, s, V)
<1>1. Loops(loop, s, V)
  BY LoopExists
<1>2. Keep(s, V) = loop[Len(s)]
  BY DEF Keep, Loops
<1> QED
  BY <1>1, <1>2

LEMMA KeepEmpty ==
    ASSUME NEW V
    PROVE  Keep(<<>>, V) = <<>>
<1>1. <<>> \in Seq({}) /\ Len(<<>>) = 0
  OBVIOUS
<1>2. PICK f : Loops(f, <<>>, V) /\ Keep(<<>>, V) = f[0]
  BY <1>1, KeepLoops
<1> QED
  BY <1>2 DEF Loops

LEMMA KeepAppend ==
    ASSUME NEW S, NEW s \in Seq(S), NEW c \in S, NEW V
    PROVE  Keep(Append(s, c), V) = IF c \in V THEN Append(Keep(s, V), c) ELSE Keep(s, V)
<1> DEFINE u == Append(s, c)
           n == Len(s)
<1>1. n \in Nat /\ u \in Seq(S) /\ Len(u) = n + 1 /\ u[n + 1] = c
      /\ \A i \in 1 .. n : s[i] = u[i]
  OBVIOUS
<1>2. PICK f : Loops(f, s, V) /\ Keep(s, V) = f[n]
  BY KeepLoops
<1>3. PICK g : Loops(g, u, V) /\ Keep(u, V) = g[n + 1]
  BY <1>1, KeepLoops
<1> HIDE DEF u
<1>4. g[n + 1] = IF c \in V THEN Append(g[n], c) ELSE g[n]
  <2>1. n + 1 \in 0 .. Len(u) /\ n + 1 # 0 /\ (n + 1) - 1 = n
    BY <1>1
  <2> QED
    BY <1>1, <1>3, <2>1 DEF Loops
<1>5. f[n] = g[n]
  <2>1. \A i \in 0 .. n : f[i] = g[i]
    BY <1>1, <1>2, <1>3, LoopsAgree
  <2> QED
    BY <1>1, <2>1
<1> QED
  BY <1>2, <1>3, <1>4, <1>5 DEF u

-----------------------------------------------------------------------------
(* What is kept.                                                           *)

\* The elements that are kept are elements of the sequence that are in V.
LEMMA KeepType ==
    ASSUME NEW S, NEW s \in Seq(S), NEW V
    PROVE  /\ Keep(s, V) \in Seq(S)
           /\ Len(Keep(s, V)) <= Len(s)
           /\ \A i \in DOMAIN Keep(s, V) : Keep(s, V)[i] \in V
<1> DEFINE G == {t \in Seq(S) : /\ Keep(t, V) \in Seq(S)
                                /\ Len(Keep(t, V)) <= Len(t)
                                /\ \A i \in 1 .. Len(Keep(t, V)) : Keep(t, V)[i] \in V}
<1>1. <<>> \in G
  <2>1. PICK e \in Seq(S) : e = <<>> /\ Len(e) = 0
    BY EmptyExists
  <2>2. Keep(e, V) = e
    BY <2>1, KeepEmpty, Zenon
  <2>3. Len(e) <= Len(e) /\ \A i \in 1 .. Len(e) : e[i] \in V
    BY <2>1
  <2>4. e \in G
    BY <2>2, <2>3, Zenon
  <2> QED
    BY <2>1, <2>4, Zenon
<1>2. ASSUME NEW t \in Seq(S), NEW c \in S, t \in G
      PROVE  Append(t, c) \in G
  <2> DEFINE k == Keep(t, V)
             u == Append(t, c)
  <2>1. k \in Seq(S) /\ Len(k) \in Nat /\ Len(k) <= Len(t)
        /\ \A i \in 1 .. Len(k) : k[i] \in V
    BY <1>2
  <2>2. u \in Seq(S) /\ Len(u) = Len(t) + 1 /\ Len(t) \in Nat
    BY AppendProperties
  <2>3. Keep(u, V) = IF c \in V THEN Append(k, c) ELSE k
    BY KeepAppend
  <2> HIDE DEF k, u
  <2>4. CASE c \in V
    <3>1. Keep(u, V) = Append(k, c)
      BY <2>3, <2>4
    <3>2. /\ Append(k, c) \in Seq(S) /\ Len(Append(k, c)) = Len(k) + 1
          /\ \A i \in 1 .. Len(k) : Append(k, c)[i] = k[i]
          /\ Append(k, c)[Len(k) + 1] = c
      BY <2>1, AppendProperties
    <3>3. \A i \in 1 .. Len(k) + 1 : Append(k, c)[i] \in V
      BY <2>1, <2>4, <3>2
    <3>4. Len(k) + 1 <= Len(u)
      BY <2>1, <2>2
    <3>5. /\ Keep(u, V) \in Seq(S) /\ Len(Keep(u, V)) <= Len(u)
          /\ \A i \in 1 .. Len(Keep(u, V)) : Keep(u, V)[i] \in V
      BY <3>1, <3>2, <3>3, <3>4
    <3> QED
      BY <2>2, <3>5 DEF u
  <2>5. CASE c \notin V
    BY <2>1, <2>2, <2>3, <2>5 DEF u
  <2> QED
    BY <2>4, <2>5
<1> HIDE DEF G
<1>3. Seq(S) \subseteq G
  BY <1>1, <1>2, AllSequences
<1> QED
  BY <1>3 DEF G

\* Two elements that are kept stand in the same order as before.
LEMMA KeepOrder ==
    ASSUME NEW S, NEW s \in Seq(S), NEW V
    PROVE  /\ \A j \in DOMAIN Keep(s, V) : \E b \in DOMAIN s : Keep(s, V)[j] = s[b]
           /\ \A i, j \in DOMAIN Keep(s, V) :
                 i < j => \E a, b \in DOMAIN s :
                             a < b /\ Keep(s, V)[i] = s[a] /\ Keep(s, V)[j] = s[b]
<1> DEFINE Once(t, k)  == \A j \in 1 .. Len(k) : \E b \in 1 .. Len(t) : k[j] = t[b]
           Twice(t, k) == \A i, j \in 1 .. Len(k) :
                             i < j => \E a, b \in 1 .. Len(t) : a < b /\ k[i] = t[a] /\ k[j] = t[b]
           G == {t \in Seq(S) : Once(t, Keep(t, V)) /\ Twice(t, Keep(t, V))}
<1>1. <<>> \in G
  <2>1. Keep(<<>>, V) = <<>>
    BY KeepEmpty
  <2> QED
    BY <2>1
<1>2. ASSUME NEW t \in Seq(S), NEW c \in S, t \in G
      PROVE  Append(t, c) \in G
  <2> DEFINE k == Keep(t, V)
             u == Append(t, c)
             n == Len(t)
             m == Len(k)
  <2>1. k \in Seq(S) /\ m \in Nat /\ n \in Nat
    BY KeepType
  <2>2. u \in Seq(S) /\ Len(u) = n + 1 /\ u[n + 1] = c /\ \A i \in 1 .. n : u[i] = t[i]
    BY AppendProperties
  <2>3. Keep(u, V) = IF c \in V THEN Append(k, c) ELSE k
    BY KeepAppend
  <2>4. Once(t, k) /\ Twice(t, k)
    BY <1>2
  <2> HIDE DEF k, u
  <2>5. Once(u, k) /\ Twice(u, k)
    <3>1. \A a \in 1 .. n : a \in 1 .. Len(u) /\ u[a] = t[a]
      BY <2>1, <2>2
    <3>2. Once(u, k)
      BY <2>4, <3>1
    <3>3. Twice(u, k)
      BY <2>4, <3>1
    <3> QED
      BY <3>2, <3>3
  <2>6. ASSUME c \in V
        PROVE  Once(u, Append(k, c)) /\ Twice(u, Append(k, c))
    <3> DEFINE l == Append(k, c)
    <3>1. /\ Len(l) = m + 1 /\ l[m + 1] = c
          /\ \A i \in 1 .. m : l[i] = k[i]
      BY <2>1, AppendProperties
    <3> HIDE DEF l
    <3>2. \A j \in 1 .. m : \E b \in 1 .. n : l[j] = u[b]
      BY <2>1, <2>2, <2>4, <3>1
    <3>3. n + 1 \in 1 .. Len(u) /\ \A a \in 1 .. n : a \in 1 .. Len(u) /\ a < n + 1
      BY <2>1, <2>2
    <3>4. Once(u, l)
      <4> SUFFICES ASSUME NEW j \in 1 .. Len(l) PROVE \E b \in 1 .. Len(u) : l[j] = u[b]
        OBVIOUS
      <4>1. CASE j = m + 1
        BY <2>2, <3>1, <3>3, <4>1
      <4>2. CASE j \in 1 .. m
        BY <3>2, <3>3, <4>2
      <4> QED
        BY <2>1, <3>1, <4>1, <4>2
    <3>5. Twice(u, l)
      <4> SUFFICES ASSUME NEW i \in 1 .. Len(l), NEW j \in 1 .. Len(l), i < j
                   PROVE  \E a, b \in 1 .. Len(u) : a < b /\ l[i] = u[a] /\ l[j] = u[b]
        OBVIOUS
      <4>0. i \in 1 .. m
        BY <2>1, <3>1
      <4>1. CASE j = m + 1
        <5>1. PICK a \in 1 .. n : l[i] = u[a]
          BY <3>2, <4>0
        <5> QED
          BY <2>2, <3>1, <3>3, <4>1, <5>1
      <4>2. CASE j \in 1 .. m
        <5>1. PICK a \in 1 .. Len(u), b \in 1 .. Len(u) : a < b /\ k[i] = u[a] /\ k[j] = u[b]
          BY <2>5, <4>0, <4>2
        <5> QED
          BY <3>1, <4>0, <4>2, <5>1
      <4> QED
        BY <2>1, <3>1, <4>1, <4>2
    <3> QED
      BY <3>4, <3>5 DEF l
  <2> HIDE DEF Once, Twice
  <2> QED
    BY <2>2, <2>3, <2>5, <2>6 DEF u
<1>3. Seq(S) \subseteq G
  <2> HIDE DEF G
  <2> QED
    BY <1>1, <1>2, AllSequences
<1>4. DOMAIN s = 1 .. Len(s) /\ DOMAIN Keep(s, V) = 1 .. Len(Keep(s, V))
  BY KeepType
<1>5. Once(s, Keep(s, V)) /\ Twice(s, Keep(s, V))
  BY <1>3
<1>6. \A j \in DOMAIN Keep(s, V) : \E b \in DOMAIN s : Keep(s, V)[j] = s[b]
  BY <1>4, <1>5
<1>7. \A i, j \in DOMAIN Keep(s, V) :
         i < j => \E a, b \in DOMAIN s : a < b /\ Keep(s, V)[i] = s[a] /\ Keep(s, V)[j] = s[b]
  <2> SUFFICES ASSUME NEW i \in DOMAIN Keep(s, V), NEW j \in DOMAIN Keep(s, V), i < j
               PROVE  \E a, b \in DOMAIN s :
                         a < b /\ Keep(s, V)[i] = s[a] /\ Keep(s, V)[j] = s[b]
    OBVIOUS
  <2>1. i \in 1 .. Len(Keep(s, V)) /\ j \in 1 .. Len(Keep(s, V))
    BY <1>4
  <2>2. PICK a \in 1 .. Len(s), b \in 1 .. Len(s) :
           a < b /\ Keep(s, V)[i] = s[a] /\ Keep(s, V)[j] = s[b]
    BY <1>5, <2>1
  <2> QED
    BY <1>4, <2>2
<1> QED
  BY <1>6, <1>7, Zenon

\* Nothing of V is left out.
LEMMA KeepAll ==
    ASSUME NEW S, NEW s \in Seq(S), NEW V
    PROVE  \A b \in DOMAIN s : s[b] \in V => \E j \in DOMAIN Keep(s, V) : Keep(s, V)[j] = s[b]
<1> DEFINE Found(t, k) == \A b \in 1 .. Len(t) : t[b] \in V => \E j \in 1 .. Len(k) : k[j] = t[b]
           G == {t \in Seq(S) : Found(t, Keep(t, V))}
<1>1. <<>> \in G
  OBVIOUS
<1>2. ASSUME NEW t \in Seq(S), NEW c \in S, t \in G
      PROVE  Append(t, c) \in G
  <2> DEFINE k == Keep(t, V)
             u == Append(t, c)
             n == Len(t)
             m == Len(k)
  <2>1. k \in Seq(S) /\ m \in Nat /\ n \in Nat
    BY KeepType
  <2>2. u \in Seq(S) /\ Len(u) = n + 1 /\ u[n + 1] = c /\ \A i \in 1 .. n : u[i] = t[i]
    BY AppendProperties
  <2>3. Keep(u, V) = IF c \in V THEN Append(k, c) ELSE k
    BY KeepAppend
  <2>4. Found(t, k)
    BY <1>2
  <2> HIDE DEF k, u
  <2>5. CASE c \notin V
    <3>1. Found(u, k)
      <4> SUFFICES ASSUME NEW b \in 1 .. Len(u), u[b] \in V
                   PROVE  \E j \in 1 .. Len(k) : k[j] = u[b]
        OBVIOUS
      <4>1. b \in 1 .. n
        BY <2>1, <2>2, <2>5
      <4> QED
        BY <2>2, <2>4, <4>1
    <3> QED
      BY <2>2, <2>3, <2>5, <3>1 DEF u
  <2>6. CASE c \in V
    <3> DEFINE l == Append(k, c)
    <3>1. /\ Len(l) = m + 1 /\ l[m + 1] = c
          /\ \A i \in 1 .. m : l[i] = k[i]
      BY <2>1, AppendProperties
    <3> HIDE DEF l
    <3>2. m + 1 \in 1 .. Len(l) /\ \A i \in 1 .. m : i \in 1 .. Len(l)
      BY <2>1, <3>1
    <3>3. Found(u, l)
      <4> SUFFICES ASSUME NEW b \in 1 .. Len(u), u[b] \in V
                   PROVE  \E j \in 1 .. Len(l) : l[j] = u[b]
        OBVIOUS
      <4>1. CASE b = n + 1
        BY <2>2, <3>1, <3>2, <4>1
      <4>2. CASE b \in 1 .. n
        <5>1. PICK j \in 1 .. m : k[j] = u[b]
          BY <2>2, <2>4, <4>2
        <5> QED
          BY <3>1, <3>2, <5>1
      <4> QED
        BY <2>1, <2>2, <4>1, <4>2
    <3> QED
      BY <2>2, <2>3, <2>6, <3>3 DEF u, l
  <2> QED
    BY <2>5, <2>6
<1>3. Seq(S) \subseteq G
  <2> HIDE DEF G
  <2> QED
    BY <1>1, <1>2, AllSequences
<1>4. DOMAIN s = 1 .. Len(s) /\ DOMAIN Keep(s, V) = 1 .. Len(Keep(s, V))
  BY KeepType
<1> QED
  BY <1>3, <1>4

\* Only what V says of the elements matters.
LEMMA KeepSame ==
    ASSUME NEW S, NEW s \in Seq(S), NEW V, NEW W,
           \A i \in DOMAIN s : (s[i] \in V) <=> (s[i] \in W)
    PROVE  Keep(s, V) = Keep(s, W)
<1> DEFINE T == {c \in S : (c \in V) <=> (c \in W)}
           G == {t \in Seq(T) : Keep(t, V) = Keep(t, W)}
<1>1. <<>> \in G
  BY KeepEmpty
<1>2. ASSUME NEW t \in Seq(T), NEW c \in T, t \in G
      PROVE  Append(t, c) \in G
  <2>0. \E U : t \in Seq(U) /\ c \in U
    OBVIOUS
  <2>1. /\ Keep(Append(t, c), V) = IF c \in V THEN Append(Keep(t, V), c) ELSE Keep(t, V)
        /\ Keep(Append(t, c), W) = IF c \in W THEN Append(Keep(t, W), c) ELSE Keep(t, W)
    <3> HIDE DEF G, T
    <3> QED
      BY <2>0, KeepAppend
  <2>2. Append(t, c) \in Seq(T)
    BY AppendProperties
  <2>3. ((c \in V) <=> (c \in W)) /\ Keep(t, V) = Keep(t, W)
    BY <1>2
  <2> HIDE DEF T
  <2> QED
    BY <2>1, <2>2, <2>3
<1>3. Seq(T) \subseteq G
  <2> HIDE DEF G, T
  <2> QED
    BY <1>1, <1>2, AllSequences
<1>4. s \in Seq(T)
  <2>1. s = [i \in 1 .. Len(s) |-> s[i]] /\ Len(s) \in Nat /\ \A i \in 1 .. Len(s) : s[i] \in T
    OBVIOUS
  <2> HIDE DEF T
  <2> QED
    BY <2>1
<1> QED
  BY <1>3, <1>4

\* A sequence is kept when all its elements are.
LEMMA KeepWhole ==
    ASSUME NEW S, NEW s \in Seq(S)
    PROVE  Keep(s, S) = s
<1> DEFINE G == {t \in Seq(S) : Keep(t, S) = t}
<1>1. <<>> \in G
  BY KeepEmpty
<1>2. ASSUME NEW t \in Seq(S), NEW c \in S, t \in G
      PROVE  Append(t, c) \in G
  BY <1>2, KeepAppend, AppendProperties
<1>3. Seq(S) \subseteq G
  <2> HIDE DEF G
  <2> QED
    BY <1>1, <1>2, AllSequences
<1> QED
  BY <1>3

\* To keep some of what was kept is to keep what is in both.
LEMMA KeepKeep ==
    ASSUME NEW S, NEW s \in Seq(S), NEW V, NEW W
    PROVE  Keep(Keep(s, V), W) = Keep(s, V \intersect W)
<1> DEFINE G == {t \in Seq(S) : Keep(Keep(t, V), W) = Keep(t, V \intersect W)}
<1>1. <<>> \in G
  BY KeepEmpty
<1>2. ASSUME NEW t \in Seq(S), NEW c \in S, t \in G
      PROVE  Append(t, c) \in G
  <2> DEFINE k == Keep(t, V)
             u == Append(t, c)
             X == V \intersect W
  <2>1. k \in Seq(S) /\ u \in Seq(S)
    BY KeepType, AppendProperties
  <2>2. Keep(k, W) = Keep(t, X)
    BY <1>2
  <2>3. Keep(u, V) = IF c \in V THEN Append(k, c) ELSE k
    BY KeepAppend
  <2>4. Keep(u, X) = IF c \in X THEN Append(Keep(t, X), c) ELSE Keep(t, X)
    BY KeepAppend
  <2>5. Keep(Append(k, c), W) = IF c \in W THEN Append(Keep(k, W), c) ELSE Keep(k, W)
    BY <2>1, KeepAppend
  <2> SUFFICES Keep(Keep(u, V), W) = Keep(u, X)
    BY <2>1
  <2>6. c \in X <=> c \in V /\ c \in W
    OBVIOUS
  <2> HIDE DEF k, u, X
  <2> QED
    BY <2>2, <2>3, <2>4, <2>5, <2>6
<1>3. Seq(S) \subseteq G
  <2> HIDE DEF G
  <2> QED
    BY <1>1, <1>2, AllSequences
<1> QED
  BY <1>3

\* What is kept of two sequences one after the other.
LEMMA KeepConcat ==
    ASSUME NEW S, NEW s \in Seq(S), NEW t \in Seq(S), NEW V
    PROVE  Keep(s \o t, V) = Keep(s, V) \o Keep(t, V)
<1> DEFINE G == {u \in Seq(S) : Keep(s \o u, V) = Keep(s, V) \o Keep(u, V)}
<1>0. Keep(s, V) \in Seq(S)
  BY KeepType
<1>1. <<>> \in G
  <2>1. PICK e \in Seq(S) : e = <<>> /\ Len(e) = 0
    BY EmptyExists
  <2>2. s \o <<>> = s /\ Keep(s, V) \o <<>> = Keep(s, V)
    BY <1>0, ConcatEmptySeq
  <2>3. s \o e = s /\ Keep(s, V) \o e = Keep(s, V) /\ Keep(e, V) = e
    BY <2>1, <2>2, KeepEmpty, Zenon
  <2>4. e \in G
    BY <2>3, Zenon
  <2> QED
    BY <2>1, <2>4, Zenon
<1>2. ASSUME NEW u \in Seq(S), NEW c \in S, u \in G
      PROVE  Append(u, c) \in G
  <2> DEFINE k == Keep(s, V)
             l == Keep(u, V)
  <2>1. k \in Seq(S) /\ l \in Seq(S) /\ s \o u \in Seq(S) /\ Append(u, c) \in Seq(S)
    BY KeepType, ConcatProperties, AppendProperties
  <2>2. s \o Append(u, c) = Append(s \o u, c)
    <3>1. Append(u, c) = u \o <<c>> /\ Append(s \o u, c) = (s \o u) \o <<c>>
      BY <2>1, AppendIsConcat
    <3> QED
      BY <3>1, ConcatAssociative
  <2>3. k \o Append(l, c) = Append(k \o l, c)
    <3>1. k \o l \in Seq(S)
      BY <2>1, ConcatProperties
    <3>2. Append(l, c) = l \o <<c>> /\ Append(k \o l, c) = (k \o l) \o <<c>>
      BY <2>1, <3>1, AppendIsConcat
    <3> QED
      BY <2>1, <3>2, ConcatAssociative
  <2>4. Keep(s \o u, V) = k \o l
    BY <1>2
  <2>5. Keep(Append(s \o u, c), V) = IF c \in V THEN Append(Keep(s \o u, V), c) ELSE Keep(s \o u, V)
    BY <2>1, KeepAppend
  <2>6. Keep(Append(u, c), V) = IF c \in V THEN Append(l, c) ELSE l
    BY KeepAppend
  <2> SUFFICES Keep(s \o Append(u, c), V) = k \o Keep(Append(u, c), V)
    BY <2>1
  <2> HIDE DEF k, l
  <2>7. CASE c \in V
    BY <2>2, <2>3, <2>4, <2>5, <2>6, <2>7
  <2>8. CASE c \notin V
    BY <2>2, <2>4, <2>5, <2>6, <2>8
  <2> QED
    BY <2>7, <2>8
<1>3. Seq(S) \subseteq G
  <2> HIDE DEF G
  <2> QED
    BY <1>1, <1>2, AllSequences
<1> QED
  BY <1>3

LEMMA KeepOne ==
    ASSUME NEW S, NEW c \in S, NEW V
    PROVE  Keep(<<c>>, V) = IF c \in V THEN <<c>> ELSE <<>>
<1>1. PICK e \in Seq(S) : e = <<>>
  BY EmptyExists
<1>2. Append(e, c) = <<c>> /\ Append(<<>>, c) = <<c>>
  BY <1>1
<1>3. Keep(Append(e, c), V) = IF c \in V THEN Append(Keep(e, V), c) ELSE Keep(e, V)
  BY KeepAppend
<1>4. Keep(e, V) = <<>>
  BY <1>1, KeepEmpty
<1> QED
  BY <1>2, <1>3, <1>4, Zenon

LEMMA KeepPrepend ==
    ASSUME NEW S, NEW s \in Seq(S), NEW c \in S, NEW V
    PROVE  Keep(<<c>> \o s, V) = IF c \in V THEN <<c>> \o Keep(s, V) ELSE Keep(s, V)
<1> DEFINE one == <<c>>
<1>1. one \in Seq(S) /\ Keep(s, V) \in Seq(S)
  BY KeepType
<1>2. Keep(<<c>> \o s, V) = Keep(<<c>>, V) \o Keep(s, V)
  <2> HIDE DEF one
  <2>1. Keep(one \o s, V) = Keep(one, V) \o Keep(s, V)
    BY <1>1, KeepConcat
  <2> QED
    BY <2>1 DEF one
<1>3. <<>> \o Keep(s, V) = Keep(s, V)
  BY <1>1, ConcatEmptySeq
<1> QED
  BY <1>2, <1>3, KeepOne

LEMMA KeepNone ==
    ASSUME NEW S, NEW s \in Seq(S), NEW V, \A i \in DOMAIN s : s[i] \notin V
    PROVE  Keep(s, V) = <<>>
<1>1. Keep(s, V) \in Seq(S) /\ DOMAIN Keep(s, V) = 1 .. Len(Keep(s, V))
  BY KeepType
<1> SUFFICES ASSUME Keep(s, V) # <<>> PROVE FALSE
  OBVIOUS
<1>2. 1 \in DOMAIN Keep(s, V)
  BY <1>1
<1>3. Keep(s, V)[1] \in V
  BY <1>2, KeepType
<1>4. \E b \in DOMAIN s : Keep(s, V)[1] = s[b]
  BY <1>2, KeepOrder
<1> QED
  BY <1>3, <1>4

\* The first element of V from position i on is the first that is kept.
LEMMA KeepFirst ==
    ASSUME NEW S, NEW s \in Seq(S), NEW V,
           NEW i \in Nat \ {0}, NEW j \in i .. Len(s),
           s[j] \in V, \A k \in i .. j - 1 : s[k] \notin V
    PROVE  /\ Keep(SubSeq(s, i, Len(s)), V) # <<>>
           /\ Head(Keep(SubSeq(s, i, Len(s)), V)) = s[j]
           /\ Tail(Keep(SubSeq(s, i, Len(s)), V)) = Keep(SubSeq(s, j + 1, Len(s)), V)
<1> DEFINE n == Len(s)
           before == SubSeq(s, i, j - 1)
           rest   == SubSeq(s, j, n)
           after  == SubSeq(s, j + 1, n)
<1>0. /\ n \in Nat /\ i \in 1 .. n /\ j \in 1 .. n /\ j - 1 \in i - 1 .. n /\ n \in j - 1 .. n
      /\ n \in j .. n /\ i \in 1 .. n + 1 /\ (j - 1) + 1 = j
      /\ \A k \in 1 .. n : s[k] \in S
  OBVIOUS
<1>1. before \o rest = SubSeq(s, i, n)
  <2>1. SubSeq(s, i, j - 1) \o SubSeq(s, (j - 1) + 1, n) = SubSeq(s, i, n)
    BY <1>0, ConcatAdjacentSubSeq
  <2> QED
    BY <1>0, <2>1
<1>2. rest = <<s[j]>> \o after
  BY <1>0, SubSeqRecursiveFirst
<1>3. /\ before \in Seq(S)
      /\ \A k \in DOMAIN before : before[k] \notin V
  <2>1. \A k \in i .. j - 1 : s[k] \in S
    BY <1>0
  <2>2. /\ before \in Seq(S)
        /\ Len(before) = IF i <= j - 1 THEN (j - 1) - i + 1 ELSE 0
        /\ \A k \in 1 .. (j - 1) - i + 1 : before[k] = s[i + k - 1]
    BY <1>0, <2>1, SubSeqProperties
  <2> HIDE DEF before
  <2>3. ASSUME NEW k \in 1 .. Len(before)
        PROVE  k \in 1 .. (j - 1) - i + 1 /\ i + k - 1 \in i .. j - 1
    BY <1>0, <2>2
  <2> QED
    BY <2>2, <2>3
<1>4. after \in Seq(S)
  BY <1>0, SubSeqProperties
<1>5. s[j] \in S /\ <<s[j]>> \o after \in Seq(S)
  BY <1>0, <1>4, ConcatProperties
<1> HIDE DEF before, rest, after, n
<1>13. rest \in Seq(S)
  BY <1>2, <1>5
<1>6. Keep(SubSeq(s, i, n), V) = Keep(before, V) \o Keep(rest, V)
  <2>1. Keep(before \o rest, V) = Keep(before, V) \o Keep(rest, V)
    BY <1>3, <1>13, KeepConcat
  <2> QED
    BY <1>1, <2>1, Zenon
<1>7. Keep(before, V) = <<>>
  BY <1>3, KeepNone
<1>8. Keep(rest, V) = <<s[j]>> \o Keep(after, V)
  <2>1. \A c \in S : Keep(<<c>> \o after, V)
                         = IF c \in V THEN <<c>> \o Keep(after, V) ELSE Keep(after, V)
    BY <1>4, KeepPrepend
  <2> QED
    BY <1>2, <1>5, <2>1, Zenon
<1>9. Keep(after, V) \in Seq(S) /\ Keep(rest, V) \in Seq(S)
  BY <1>2, <1>4, <1>5, KeepType
<1>10. Keep(SubSeq(s, i, n), V) = <<s[j]>> \o Keep(after, V)
  BY <1>6, <1>7, <1>8, <1>9, ConcatEmptySeq
<1>11. ASSUME NEW c \in S, NEW t \in Seq(S)
       PROVE  <<c>> \o t # <<>> /\ Head(<<c>> \o t) = c /\ Tail(<<c>> \o t) = t
  <2> DEFINE u == <<c>> \o t
  <2>1. u \in Seq(S) /\ Len(u) = 1 + Len(t) /\ u[1] = c
        /\ \A k \in 1 .. Len(t) : u[k + 1] = t[k]
    OBVIOUS
  <2> HIDE DEF u
  <2>2. u # <<>> /\ Head(u) = c
    BY <2>1
  <2>3. Tail(u) \in Seq(S) /\ Len(Tail(u)) = Len(t) /\ \A k \in 1 .. Len(t) : Tail(u)[k] = t[k]
    BY <2>1, <2>2, HeadTailProperties
  <2>4. Tail(u) = t
    BY <2>3, SeqEqual
  <2> QED
    BY <2>2, <2>4 DEF u
<1>12. /\ <<s[j]>> \o Keep(after, V) # <<>>
       /\ Head(<<s[j]>> \o Keep(after, V)) = s[j]
       /\ Tail(<<s[j]>> \o Keep(after, V)) = Keep(after, V)
  BY <1>5, <1>9, <1>11
<1> QED
  BY <1>10, <1>12 DEF n, after
=============================================================================
