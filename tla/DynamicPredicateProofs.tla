----------------------- MODULE DynamicPredicateProofs -----------------------
(***************************************************************************)
(* Proofs about DynamicPredicate, for any set of clauses and index         *)
(* arguments and any finite number of uses.                                *)
(***************************************************************************)
EXTENDS DynamicPredicate, SelectionProofs, FiniteSetTheorems

(***************************************************************************)
(* Positions in a chain.                                                   *)
(***************************************************************************)

\* FirstAlive gives no clause or one of the chain that is alive.
LEMMA FirstAliveProperty ==
    ASSUME NEW n \in Names, chains[n] \in Seq(Clauses), NEW i \in Nat \ {0}, NEW ts,
           FirstAlive(n, i, ts) # NULL
    PROVE  FirstAlive(n, i, ts) \in Linked(n)
<1> DEFINE alive == {j \in i .. Len(chains[n]) : isAlive(chains[n][j], ts)}
           first == CHOOSE j \in alive : \A k \in alive : j <= k
<1>1. Len(chains[n]) \in Nat /\ DOMAIN chains[n] = 1 .. Len(chains[n])
  OBVIOUS
<1>2. alive # {} /\ FirstAlive(n, i, ts) = chains[n][first]
  BY DEF FirstAlive
<1>3. alive \in SUBSET Nat /\ alive \subseteq DOMAIN chains[n]
  BY <1>1
<1>4. \E j \in alive : \A k \in alive : j <= k
  BY <1>2, <1>3, LeastElement
<1>5. first \in alive
  BY <1>4
<1> QED
  BY <1>2, <1>3, <1>5 DEF Linked

\* The position of a clause of a chain is one of its positions.
LEMMA PositionProperty ==
    ASSUME NEW n \in Names, chains[n] \in Seq(Clauses), NEW c \in Linked(n)
    PROVE  Position(n, c) \in Nat \ {0}
<1>1. \E i \in DOMAIN chains[n] : chains[n][i] = c
  BY DEF Linked
<1>2. Position(n, c) \in DOMAIN chains[n]
  BY <1>1 DEF Position
<1> QED
  BY <1>2

\* What a choice point or the next step of a clause/2 gets is in the chain.
LEMMA NextNextProperty ==
    ASSUME NEW n \in Names, chains[n] \in Seq(Clauses), NEW c \in Linked(n), NEW ts,
           nextNextAlive(n, c, ts) # NULL
    PROVE  nextNextAlive(n, c, ts) \in Linked(n)
<1>1. Position(n, c) + 1 \in Nat \ {0}
  BY PositionProperty
<1> QED
  BY <1>1, FirstAliveProperty DEF nextNextAlive

(***************************************************************************)
(* What is left of a chain after a collection.                             *)
(***************************************************************************)

\* A collection leaves, of each chain, the clauses that are not to be deleted.
LEMMA CollectProperty ==
    ASSUME chains \in [Names -> Seq(Clauses)], NEW ts, NEW n \in Names
    PROVE  /\ gcPredicate(ts)[n] \in Seq(Clauses)
           /\ {gcPredicate(ts)[n][i] : i \in DOMAIN gcPredicate(ts)[n]}
                  = {c \in Linked(n) : ~toDelete(c, ts)}
<1> DEFINE s == chains[n]
           V == {c \in Clauses : ~toDelete(c, ts)}
           k == Keep(s, V)
<1>1. gcPredicate(ts)[n] = k
  BY DEF gcPredicate, gcChain
<1>2. s \in Seq(Clauses) /\ \A i \in DOMAIN s : s[i] \in Clauses
  OBVIOUS
<1> HIDE DEF V, s
<1>3. k \in Seq(Clauses) /\ \A j \in DOMAIN k : k[j] \in V
  BY <1>2, KeepType
<1>4. \A j \in DOMAIN k : \E b \in DOMAIN s : k[j] = s[b]
  BY <1>2, KeepOrder
<1>5. \A b \in DOMAIN s : s[b] \in V => \E j \in DOMAIN k : k[j] = s[b]
  BY <1>2, KeepAll
<1> HIDE DEF k
<1>6. Linked(n) = {s[b] : b \in DOMAIN s}
  BY DEF Linked, s
<1>7. {k[j] : j \in DOMAIN k} = {c \in Linked(n) : ~toDelete(c, ts)}
  BY <1>2, <1>3, <1>4, <1>5, <1>6 DEF V
<1> QED
  BY <1>1, <1>3, <1>7

\* The elements of t are those of s and c.
LEMMA OneMore ==
    ASSUME NEW s, NEW t, NEW c,
           \A j \in DOMAIN t : t[j] = c \/ \E i \in DOMAIN s : t[j] = s[i],
           \A i \in DOMAIN s : \E j \in DOMAIN t : t[j] = s[i],
           \E j \in DOMAIN t : t[j] = c
    PROVE  {t[i] : i \in DOMAIN t} = {s[i] : i \in DOMAIN s} \union {c}
<1>1. ASSUME NEW x \in {t[i] : i \in DOMAIN t} PROVE x \in {s[i] : i \in DOMAIN s} \union {c}
  OBVIOUS
<1>2. ASSUME NEW x \in {s[i] : i \in DOMAIN s} PROVE x \in {t[i] : i \in DOMAIN t}
  OBVIOUS
<1>3. c \in {t[i] : i \in DOMAIN t}
  OBVIOUS
<1> QED
  BY <1>1, <1>2, <1>3

\* Adding to a chain adds one element.
LEMMA AddToChainProperty ==
    ASSUME NEW s \in Seq(Clauses), NEW c \in Clauses, NEW asserta \in BOOLEAN
    PROVE  /\ AddToChain(s, c, asserta) \in Seq(Clauses)
           /\ {AddToChain(s, c, asserta)[i] : i \in DOMAIN AddToChain(s, c, asserta)}
                  = {s[i] : i \in DOMAIN s} \union {c}
<1> DEFINE l == Len(s)
           t == AddToChain(s, c, asserta)
<1>1. l \in Nat /\ DOMAIN s = 1 .. l
  OBVIOUS
<1>2. CASE asserta
  <2>1. t = <<c>> \o s
    BY <1>2 DEF AddToChain
  <2>2. <<c>> \in Seq(Clauses) /\ Len(<<c>>) = 1 /\ <<c>>[1] = c
    OBVIOUS
  <2>3. /\ t \in Seq(Clauses) /\ Len(t) = 1 + l
        /\ \A i \in 1 .. 1 + l : t[i] = IF i <= 1 THEN <<c>>[i] ELSE s[i - 1]
    BY <2>1, <2>2, ConcatProperties
  <2>4. t[1] = c /\ \A i \in 1 .. l : t[i + 1] = s[i]
    BY <1>1, <2>2, <2>3
  <2>5. \A j \in 1 .. 1 + l : j = 1 \/ \E i \in 1 .. l : j = i + 1
    BY <1>1
  <2> HIDE DEF t
  <2>6. \A j \in DOMAIN t : t[j] = c \/ \E i \in DOMAIN s : t[j] = s[i]
    BY <1>1, <2>3, <2>4, <2>5
  <2>7. \A i \in DOMAIN s : \E j \in DOMAIN t : t[j] = s[i]
    <3>1. \A i \in 1 .. l : i + 1 \in DOMAIN t
      BY <1>1, <2>3
    <3> QED
      BY <1>1, <2>4, <3>1
  <2>8. 1 \in DOMAIN t
    BY <1>1, <2>3
  <2>9. {t[i] : i \in DOMAIN t} = {s[i] : i \in DOMAIN s} \union {c}
    BY <2>4, <2>6, <2>7, <2>8, OneMore
  <2> QED
    BY <2>3, <2>9 DEF t
<1>3. CASE ~asserta
  <2>1. t = Append(s, c)
    BY <1>3 DEF AddToChain
  <2>2. /\ t \in Seq(Clauses) /\ Len(t) = l + 1
        /\ \A i \in 1 .. l : t[i] = s[i]
        /\ t[l + 1] = c
    BY <2>1, AppendProperties
  <2> HIDE DEF t
  <2>3. \A j \in DOMAIN t : t[j] = c \/ \E i \in DOMAIN s : t[j] = s[i]
    BY <1>1, <2>2
  <2>4. \A i \in DOMAIN s : \E j \in DOMAIN t : t[j] = s[i]
    BY <1>1, <2>2
  <2>5. \E j \in DOMAIN t : t[j] = c
    BY <1>1, <2>2
  <2>6. {t[i] : i \in DOMAIN t} = {s[i] : i \in DOMAIN s} \union {c}
    BY <2>3, <2>4, <2>5, OneMore
  <2> QED
    BY <2>2, <2>6 DEF t
<1> QED
  BY <1>2, <1>3

(***************************************************************************)
(* The inductive invariant.                                                *)
(***************************************************************************)

Holders == {u \in Uses : held[u]}

\* The count of references is that of the uses that hold one.
Counted == refcount = Cardinality(Holders)

\* The clauses of the index are clauses of the predicate.
Contained == \A n \in Names : Linked(n) \subseteq Linked("all")

\* What a use that holds a reference has in its registers and choice point is
\* in its chain; a use that does not is over.
UseOK(u) ==
    /\ held[u] <=> role[u] \in Roles
    /\ held[u] => /\ chain[u] \in Names
                  /\ cur[u] \in Linked(chain[u])
                  /\ next[u] # NULL => next[u] \in Linked(chain[u])
    /\ ~held[u] => next[u] = NULL /\ (cur[u] # NULL => OwnCuts)

UsesOK == \A u \in Uses : UseOK(u)

IInv == TypeOK /\ Contained /\ Counted /\ UsesOK

LEMMA InitInv == Init => IInv
<1> SUFFICES ASSUME Init PROVE IInv
  OBVIOUS
<1> USE DynamicAssumption
<1>1. TypeOK
  <2>1. 1 \in 1 .. MaxStamp + 1 /\ 0 \in 0 .. MaxStamp + 1 /\ Never \in 1 .. Never
    BY DEF Never
  <2>2. chains \in [Names -> Seq(Clauses)]
    BY DEF Init
  <2>3. entries \subseteq Keys /\ key \in [Clauses -> Args]
    BY DEF Init, Args
  <2>4. created \in [Clauses -> 0 .. MaxStamp + 1] /\ deleted \in [Clauses -> 1 .. Never]
    BY <2>1 DEF Init
  <2>5. time \in [Uses -> 0 .. MaxStamp + 1]
    BY <2>1 DEF Init
  <2> QED
    BY <2>1, <2>2, <2>3, <2>4, <2>5 DEF Init, TypeOK
<1>2. Contained
  BY DEF Init, Contained, Linked
<1>3. Holders = {}
  BY DEF Init, Holders
<1>4. Counted
  BY <1>3, FS_EmptySet DEF Init, Counted
<1>5. UsesOK
  BY DynamicAssumption DEF Init, UsesOK, UseOK
<1> QED
  BY <1>1, <1>2, <1>4, <1>5 DEF IInv

\* The use of u is counted.
LEMMA CountUp ==
    ASSUME IInv, NEW u \in Uses, ~held[u],
           refcount' = refcount + 1, held' = [held EXCEPT ![u] = TRUE]
    PROVE  Counted' /\ refcount' \in Nat
<1>1. IsFiniteSet(Holders)
  BY DynamicAssumption, FS_Subset DEF Holders
<1>2. Holders' = Holders \union {u} /\ u \notin Holders
  BY DEF IInv, TypeOK, Holders
<1>3. Cardinality(Holders \union {u}) = Cardinality(Holders) + 1
  BY <1>1, <1>2, FS_AddElement
<1> QED
  BY <1>2, <1>3 DEF IInv, TypeOK, Counted

\* The use of u is not counted any more; if the count was one nobody else has
\* a reference.
LEMMA CountDown ==
    ASSUME IInv, NEW u \in Uses, held[u],
           refcount' = refcount - 1, held' = [held EXCEPT ![u] = FALSE]
    PROVE  /\ Counted' /\ refcount' \in Nat
           /\ refcount = 1 => \A v \in Uses : ~held'[v]
<1>1. IsFiniteSet(Holders)
  BY DynamicAssumption, FS_Subset DEF Holders
<1>2. Holders' = Holders \ {u} /\ u \in Holders
  BY DEF IInv, TypeOK, Holders
<1>3. IsFiniteSet(Holders') /\ Cardinality(Holders') = Cardinality(Holders) - 1
  BY <1>1, <1>2, FS_RemoveElement
<1>4. Cardinality(Holders') \in Nat
  BY <1>3, FS_CardinalityType
<1>5. refcount = 1 => Holders' = {}
  BY <1>3, FS_EmptySet DEF IInv, Counted
<1> QED
  BY <1>3, <1>4, <1>5 DEF IInv, TypeOK, Counted, Holders

\* What release does to the chains.
LEMMA ReleaseChains ==
    ASSUME IInv, release
    PROVE  /\ chains' \in [Names -> Seq(Clauses)]
           /\ Contained'
           /\ ~MayCollect => chains' = chains
           /\ MayCollect => \A n \in Names : Linked(n)' = {c \in Linked(n) : ~toDelete(c, stamp)}
<1>1. CASE ~MayCollect
  <2>1. chains' = chains
    BY <1>1 DEF release
  <2>2. \A n \in Names : Linked(n)' = Linked(n)
    BY <2>1 DEF Linked
  <2> QED
    BY <1>1, <2>1, <2>2 DEF IInv, TypeOK, Contained, Names
<1>2. CASE MayCollect
  <2>1. chains' = gcPredicate(stamp)
    BY <1>2 DEF release
  <2>2. chains \in [Names -> Seq(Clauses)]
    BY DEF IInv, TypeOK
  <2>3. \A n \in Names : /\ chains'[n] \in Seq(Clauses)
                         /\ Linked(n)' = {c \in Linked(n) : ~toDelete(c, stamp)}
    <3>1. ASSUME NEW n \in Names
          PROVE  /\ gcPredicate(stamp)[n] \in Seq(Clauses)
                 /\ {gcPredicate(stamp)[n][i] : i \in DOMAIN gcPredicate(stamp)[n]}
                        = {c \in Linked(n) : ~toDelete(c, stamp)}
      BY <2>2, CollectProperty
    <3>2. \A n \in Names : Linked(n)' = {chains'[n][i] : i \in DOMAIN chains'[n]}
      BY DEF Linked
    <3> QED
      BY <2>1, <3>1, <3>2
  <2>4. chains' \in [Names -> Seq(Clauses)]
    BY <2>1, <2>3 DEF gcPredicate
  <2>5. Contained'
    BY <2>3 DEF IInv, Contained, Names
  <2> QED
    BY <1>2, <2>3, <2>4, <2>5
<1> QED
  BY <1>1, <1>2

\* What AssertClause does to the chains.
LEMMA AssertChains ==
    ASSUME IInv, NEW c \in Clauses, NEW k \in Args, NEW asserta \in BOOLEAN,
           AssertClause(c, k, asserta)
    PROVE  /\ chains' \in [Names -> Seq(Clauses)]
           /\ Contained'
           /\ \A n \in Names : Linked(n) \subseteq Linked(n)'
           /\ Linked("all")' = Linked("all") \union {c}
<1> DEFINE old(n) == IF n \in Keys THEN copyVarClauses(n) ELSE chains[n]
<1>1. chains \in [Names -> Seq(Clauses)] /\ "var" \in Names /\ "all" \in Names
  BY DEF IInv, TypeOK, Names, Args
<1>2. ASSUME NEW n \in Names
      PROVE  /\ old(n) \in Seq(Clauses)
             /\ {old(n)[i] : i \in DOMAIN old(n)} \in {Linked(n), Linked("var")}
             /\ Linked(n) \subseteq {old(n)[i] : i \in DOMAIN old(n)}
  <2>1. old(n) \in {chains[n], chains["var"]}
    BY DEF copyVarClauses
  <2>2. chains[n] # <<>> => old(n) = chains[n]
    BY DEF copyVarClauses
  <2>3. chains[n] = <<>> => Linked(n) = {}
    BY DEF Linked
  <2> QED
    BY <1>1, <2>1, <2>2, <2>3 DEF Linked
<1>3. chains' = [n \in Names |-> IF n \notin Receivers(k) THEN chains[n]
                                 ELSE AddToChain(old(n), c, asserta)]
  BY DEF AssertClause
<1> HIDE DEF old
<1>4. ASSUME NEW n \in Names
      PROVE  /\ chains'[n] \in Seq(Clauses)
             /\ n \notin Receivers(k) => Linked(n)' = Linked(n)
             /\ n \in Receivers(k) => Linked(n)' = {old(n)[i] : i \in DOMAIN old(n)} \union {c}
  <2>1. CASE n \notin Receivers(k)
    BY <1>1, <1>3, <2>1 DEF Linked
  <2>2. CASE n \in Receivers(k)
    <3>1. chains'[n] = AddToChain(old(n), c, asserta)
      BY <1>3, <2>2
    <3>2. old(n) \in Seq(Clauses)
      BY <1>2
    <3>3. /\ AddToChain(old(n), c, asserta) \in Seq(Clauses)
          /\ {AddToChain(old(n), c, asserta)[i] : i \in DOMAIN AddToChain(old(n), c, asserta)}
                 = {old(n)[i] : i \in DOMAIN old(n)} \union {c}
      BY <3>2, AddToChainProperty
    <3> QED
      BY <2>2, <3>1, <3>3 DEF Linked
  <2> QED
    BY <2>1, <2>2
<1>5. chains' \in [Names -> Seq(Clauses)]
  BY <1>3, <1>4
<1>6. \A n \in Names : Linked(n) \subseteq Linked(n)'
  BY <1>2, <1>4
<1>7. "all" \in Receivers(k)
  BY DEF Receivers
<1>8. "all" \notin Keys
  BY DynamicAssumption
<1>9. Linked("all")' = Linked("all") \union {c}
  <2>1. old("all") = chains["all"]
    BY <1>8 DEF old
  <2>2. {old("all")[i] : i \in DOMAIN old("all")} = Linked("all")
    BY <2>1 DEF Linked
  <2> QED
    BY <1>1, <1>4, <1>7, <2>2
<1>10. \A n \in Names : Linked(n)' \subseteq Linked(n) \union Linked("var") \union {c}
  BY <1>2, <1>4
<1>11. Contained'
  BY <1>1, <1>9, <1>10 DEF IInv, Contained
<1> QED
  BY <1>5, <1>6, <1>9, <1>11

\* A use that is left alone, with its chain if it holds a reference, is still
\* in order.
LEMMA UseKept ==
    ASSUME NEW v \in Uses, UseOK(v), held[v] => chains' = chains,
           held'[v] = held[v], role'[v] = role[v], chain'[v] = chain[v],
           cur'[v] = cur[v], next'[v] = next[v]
    PROVE  UseOK(v)'
<1>1. held[v] => Linked(chain[v])' = Linked(chain[v])
  BY DEF Linked
<1> QED
  BY <1>1 DEF UseOK

\* A use that begins with a clause of a chain, and with another or none of the
\* same chain in its choice point, keeps the invariant.
LEMMA EnterInv ==
    ASSUME IInv, NEW u \in Uses, NEW r \in Roles, NEW n \in Names, NEW c \in Linked(n),
           Enter(u, r, n, c), NEW d,
           next' = [next EXCEPT ![u] = d],
           d = NULL \/ d \in Linked(n)
    PROVE  IInv'
<1>1. c \in Clauses /\ (d # NULL => d \in Clauses)
  BY ElementOfSeq DEF IInv, TypeOK, Linked
<1>2. stamp \in 0 .. MaxStamp + 1 /\ ~held[u]
  BY DynamicAssumption DEF IInv, TypeOK, UsesOK, UseOK, Enter
<1>3. Counted' /\ refcount' \in Nat
  BY <1>2, CountUp DEF Enter, aquire
<1>4. TypeOK'
  BY <1>1, <1>2, <1>3 DEF IInv, TypeOK, Enter, aquire, blockVars
<1>5. \A m \in Names : Linked(m)' = Linked(m)
  BY DEF Linked, Enter, aquire
<1>6. Contained'
  BY <1>5 DEF IInv, Contained, Names
<1>7. UsesOK'
  <2> SUFFICES ASSUME NEW v \in Uses PROVE UseOK(v)'
    BY DEF UsesOK
  <2>1. CASE v = u
    <3>1. /\ held'[v] /\ role'[v] = r /\ chain'[v] = n
          /\ cur'[v] = c /\ next'[v] = d /\ chains' = chains
      BY <2>1 DEF IInv, TypeOK, Enter, aquire
    <3>2. Linked(chain[v])' = Linked(n)
      BY <3>1 DEF Linked
    <3> QED
      BY <3>1, <3>2 DEF UseOK
  <2>2. CASE v # u
    <3>1. /\ held'[v] = held[v] /\ role'[v] = role[v] /\ chain'[v] = chain[v]
          /\ cur'[v] = cur[v] /\ next'[v] = next[v] /\ chains' = chains
      BY <2>2 DEF IInv, TypeOK, Enter, aquire
    <3> QED
      BY <3>1, UseKept DEF IInv, UsesOK
  <2> QED
    BY <2>1, <2>2
<1> QED
  BY <1>3, <1>4, <1>6, <1>7 DEF IInv

\* A use that gives its reference back keeps the invariant, whether it stops
\* executing its clause or not.
LEMMA ReleaseInv ==
    ASSUME IInv, NEW u \in Uses, held[u], Forget(u), release,
           \/ cur' = [cur EXCEPT ![u] = NULL]
           \/ cur' = cur /\ OwnCuts
    PROVE  IInv'
<1>1. Counted' /\ refcount' \in Nat /\ (refcount = 1 => \A v \in Uses : ~held'[v])
  BY CountDown DEF Forget, release
<1>2. /\ chains' \in [Names -> Seq(Clauses)]
      /\ Contained'
      /\ ~MayCollect => chains' = chains
  BY ReleaseChains
<1>3. TypeOK'
  BY <1>1, <1>2, DynamicAssumption DEF IInv, TypeOK, Forget, release, blockVars, MayCollect
<1>4. UsesOK'
  <2> SUFFICES ASSUME NEW v \in Uses PROVE UseOK(v)'
    BY DEF UsesOK
  <2>1. CASE v = u
    BY <2>1, DynamicAssumption DEF IInv, TypeOK, Forget, UseOK
  <2>2. CASE v # u
    <3>1. /\ held'[v] = held[v] /\ role'[v] = role[v] /\ chain'[v] = chain[v]
          /\ next'[v] = next[v] /\ cur'[v] = cur[v]
      BY <2>2 DEF IInv, TypeOK, Forget
    <3>2. held[v] => chains' = chains
      BY <1>1, <1>2, <3>1 DEF MayCollect
    <3> QED
      BY <3>1, <3>2, UseKept DEF IInv, UsesOK
  <2> QED
    BY <2>1, <2>2
<1> QED
  BY <1>1, <1>2, <1>3, <1>4 DEF IInv

\* The chains that are looked up exist.
LEMMA LookUpType ==
    ASSUME entries \subseteq Keys, NEW k \in Args
    PROVE  lookUpClauseChain(k) \in Names
BY DEF lookUpClauseChain, Names, Args

LEMMA StepInv == IInv /\ [Next]_vars => IInv'
<1> SUFFICES ASSUME IInv, [Next]_vars PROVE IInv'
  OBVIOUS
<1>1. chains \in [Names -> Seq(Clauses)]
  BY DEF IInv, TypeOK
<1>2. ASSUME NEW c \in Clauses, NEW k \in Args, NEW asserta \in BOOLEAN, AssertClause(c, k, asserta)
      PROVE  IInv'
  <2>1. /\ chains' \in [Names -> Seq(Clauses)] /\ Contained'
        /\ \A n \in Names : Linked(n) \subseteq Linked(n)'
    BY <1>2, AssertChains
  <2>2. stamp + 1 \in 1 .. MaxStamp + 1 /\ Never \in 1 .. Never
    BY <1>2, DynamicAssumption DEF IInv, TypeOK, AssertClause, Never
  <2>3. TypeOK'
    BY <1>2, <2>1, <2>2 DEF IInv, TypeOK, AssertClause, useVars, Args
  <2>4. Counted'
    BY <1>2 DEF IInv, Counted, Holders, AssertClause, useVars
  <2>5. UsesOK'
    <3> SUFFICES ASSUME NEW v \in Uses PROVE UseOK(v)'
      BY DEF UsesOK
    <3>1. /\ held'[v] = held[v] /\ role'[v] = role[v] /\ chain'[v] = chain[v]
          /\ cur'[v] = cur[v] /\ next'[v] = next[v]
      BY <1>2 DEF AssertClause, useVars
    <3>2. held[v] => Linked(chain[v]) \subseteq Linked(chain[v])'
      <4>1. chain' = chain
        BY <1>2 DEF AssertClause, useVars
      <4>2. ASSUME held[v] PROVE chain[v] \in Names
        BY <4>2 DEF IInv, UsesOK, UseOK
      <4>3. ASSUME NEW n \in Names, chain[v] = n PROVE Linked(chain[v])' = Linked(n)'
        BY <4>1, <4>3 DEF Linked
      <4> QED
        BY <2>1, <4>2, <4>3
    <3> QED
      BY <3>1, <3>2 DEF IInv, UsesOK, UseOK
  <2> QED
    BY <2>1, <2>3, <2>4, <2>5 DEF IInv
<1>3. ASSUME NEW u \in Uses, NEW k \in Args, BeginGoal(u, k) PROVE IInv'
  <2> DEFINE n == lookUpClauseChain(k)
             c == nextAlive(n, stamp)
             d == nextNextAlive(n, c, stamp)
  <2>1. n \in Names
    BY LookUpType DEF IInv, TypeOK
  <2>2. Enter(u, "goal", n, c) /\ next' = [next EXCEPT ![u] = d]
    BY <1>3 DEF BeginGoal
  <2> HIDE DEF n
  <2>3. c \in Linked(n)
    BY <1>1, <2>1, <2>2, FirstAliveProperty DEF nextAlive, Enter
  <2> HIDE DEF c
  <2>4. d = NULL \/ d \in Linked(n)
    BY <1>1, <2>1, <2>3, NextNextProperty
  <2> HIDE DEF d
  <2>5. "goal" \in Roles
    BY DEF Roles
  <2> QED
    BY <2>1, <2>2, <2>3, <2>4, <2>5, EnterInv
<1>4. ASSUME NEW u \in Uses, NEW k \in Args, BeginClause(u, k) PROVE IInv'
  <2> DEFINE n == lookUpClauseChain(k)
             c == nextAlive(n, stamp)
  <2>1. n \in Names
    BY LookUpType DEF IInv, TypeOK
  <2>2. PICK r \in Roles : Enter(u, r, n, c)
    BY <1>4 DEF BeginClause, Roles
  <2>3. next[u] = NULL
    BY <2>2, DynamicAssumption DEF IInv, UsesOK, UseOK, Enter
  <2>4. next' = [next EXCEPT ![u] = NULL]
    BY <1>4, <2>3 DEF BeginClause, IInv, TypeOK
  <2> HIDE DEF n
  <2>5. c \in Linked(n)
    BY <1>1, <2>1, <2>2, FirstAliveProperty DEF nextAlive, Enter
  <2> HIDE DEF c
  <2> QED
    BY <2>1, <2>2, <2>4, <2>5, EnterInv
<1>5. ASSUME NEW u \in Uses, DBBacktrack(u) PROVE IInv'
  <2> DEFINE d == nextNextAlive(chain[u], next[u], time[u])
  <2>1. chain[u] \in Names /\ next[u] \in Linked(chain[u]) /\ held[u]
    BY <1>5 DEF IInv, UsesOK, UseOK, DBBacktrack
  <2>2. d = NULL \/ d \in Linked(chain[u])
    BY <1>1, <2>1, NextNextProperty
  <2>3. cur' = [cur EXCEPT ![u] = next[u]] /\ next' = [next EXCEPT ![u] = d]
    BY <1>5 DEF DBBacktrack
  <2> HIDE DEF d
  <2>4. d \in Clauses \union {NULL}
    BY <1>1, <2>1, <2>2, ElementOfSeq DEF Linked
  <2>5. TypeOK'
    BY <1>5, <2>3, <2>4 DEF IInv, TypeOK, DBBacktrack, predVars, blockVars
  <2>6. Contained' /\ Counted'
    BY <1>5 DEF IInv, Contained, Counted, Holders, Linked, DBBacktrack, predVars
  <2>7. UsesOK'
    <3> SUFFICES ASSUME NEW v \in Uses PROVE UseOK(v)'
      BY DEF UsesOK
    <3>1. /\ held'[v] = held[v] /\ role'[v] = role[v] /\ chain'[v] = chain[v] /\ chains' = chains
      BY <1>5 DEF DBBacktrack, predVars
    <3>2. CASE v = u
      BY <2>1, <2>2, <2>3, <3>1, <3>2 DEF IInv, TypeOK, UsesOK, UseOK, Linked
    <3>3. CASE v # u
      <4>1. cur'[v] = cur[v] /\ next'[v] = next[v]
        BY <2>3, <3>3 DEF IInv, TypeOK
      <4> QED
        BY <3>1, <4>1, UseKept DEF IInv, UsesOK
    <3> QED
      BY <3>2, <3>3
  <2> QED
    BY <2>5, <2>6, <2>7 DEF IInv
<1>6. ASSUME NEW u \in Uses, NextClause(u) PROVE IInv'
  <2> DEFINE c == nextNextAlive(chain[u], cur[u], time[u])
             r == IF role[u] = "retracted" THEN "retract" ELSE role[u]
  <2>1. chain[u] \in Names /\ cur[u] \in Linked(chain[u]) /\ held[u]
    BY <1>6 DEF IInv, UsesOK, UseOK, NextClause, Roles
  <2>2. c # NULL /\ cur' = [cur EXCEPT ![u] = c]
    BY <1>6 DEF NextClause
  <2>3. c \in Linked(chain[u])
    BY <1>1, <2>1, <2>2, NextNextProperty
  <2>4. r \in Roles /\ role' = [role EXCEPT ![u] = r]
    BY <1>6 DEF NextClause, Roles
  <2> HIDE DEF c, r
  <2>5. c \in Clauses
    BY <1>1, <2>1, <2>3, ElementOfSeq DEF Linked
  <2>6. TypeOK'
    BY <1>6, <2>2, <2>4, <2>5 DEF IInv, TypeOK, NextClause, predVars, blockVars
  <2>7. Contained' /\ Counted'
    BY <1>6 DEF IInv, Contained, Counted, Holders, Linked, NextClause, predVars
  <2>8. UsesOK'
    <3> SUFFICES ASSUME NEW v \in Uses PROVE UseOK(v)'
      BY DEF UsesOK
    <3>1. /\ held'[v] = held[v] /\ next'[v] = next[v] /\ chain'[v] = chain[v] /\ chains' = chains
      BY <1>6 DEF NextClause, predVars
    <3>2. CASE v = u
      <4>1. cur'[v] = c /\ role'[v] = r
        BY <2>2, <2>4, <3>2 DEF IInv, TypeOK
      <4> QED
        BY <2>1, <2>3, <2>4, <3>1, <3>2, <4>1 DEF IInv, UsesOK, UseOK, Linked
    <3>3. CASE v # u
      <4>1. cur'[v] = cur[v] /\ role'[v] = role[v]
        BY <2>2, <2>4, <3>3 DEF IInv, TypeOK
      <4> QED
        BY <3>1, <4>1, UseKept DEF IInv, UsesOK
    <3> QED
      BY <3>2, <3>3
  <2> QED
    BY <2>6, <2>7, <2>8 DEF IInv
<1>7. ASSUME NEW u \in Uses, Retract(u) PROVE IInv'
  <2>1. stamp + 1 \in 1 .. MaxStamp + 1 /\ stamp + 1 \in 1 .. Never
    BY <1>7, DynamicAssumption DEF IInv, TypeOK, Retract, Never
  <2>2. held[u] /\ "retracted" \in Roles
    BY <1>7 DEF IInv, UsesOK, UseOK, Retract, Roles
  <2>3. TypeOK'
    BY <1>7, <2>1, <2>2 DEF IInv, TypeOK, Retract
  <2>4. Contained' /\ Counted'
    BY <1>7 DEF IInv, Contained, Counted, Holders, Linked, Retract
  <2>5. UsesOK'
    <3> SUFFICES ASSUME NEW v \in Uses PROVE UseOK(v)'
      BY DEF UsesOK
    <3>1. /\ held'[v] = held[v] /\ chain'[v] = chain[v] /\ cur'[v] = cur[v]
          /\ next'[v] = next[v] /\ chains' = chains
      BY <1>7 DEF Retract
    <3>2. role'[v] \in Roles <=> role[v] \in Roles
      BY <1>7, <2>2 DEF IInv, TypeOK, UsesOK, UseOK, Retract
    <3> QED
      BY <3>1, <3>2 DEF IInv, UsesOK, UseOK, Linked
  <2> QED
    BY <2>3, <2>4, <2>5 DEF IInv
<1>8. ASSUME NEW u \in Uses, End(u) PROVE IInv'
  BY <1>8, ReleaseInv DEF End
<1>9. ASSUME NEW u \in Uses, OwnCut(u) PROVE IInv'
  <2>1. held[u] /\ OwnCuts /\ cur' = cur /\ Forget(u) /\ release
    BY <1>9 DEF IInv, UsesOK, UseOK, OwnCut, Roles
  <2> QED
    BY <2>1, ReleaseInv
<1>10. ASSUME NEW u \in Uses, Proceed(u) PROVE IInv'
  <2>1. ~held[u] /\ cur' = [cur EXCEPT ![u] = NULL]
    BY <1>10, DynamicAssumption DEF IInv, UsesOK, UseOK, Proceed
  <2>2. TypeOK'
    BY <1>10 DEF IInv, TypeOK, Proceed, predVars, blockVars
  <2>3. Contained' /\ Counted'
    BY <1>10 DEF IInv, Contained, Counted, Holders, Linked, Proceed, predVars
  <2>4. UsesOK'
    <3> SUFFICES ASSUME NEW v \in Uses PROVE UseOK(v)'
      BY DEF UsesOK
    <3>1. /\ held'[v] = held[v] /\ role'[v] = role[v] /\ chain'[v] = chain[v]
          /\ next'[v] = next[v] /\ chains' = chains
      BY <1>10 DEF Proceed, predVars
    <3>2. CASE v = u
      <4>1. cur'[v] = NULL
        BY <2>1, <3>2 DEF IInv, TypeOK
      <4> QED
        BY <2>1, <3>1, <3>2, <4>1 DEF IInv, UsesOK, UseOK
    <3>3. CASE v # u
      <4>1. cur'[v] = cur[v]
        BY <2>1, <3>3 DEF IInv, TypeOK
      <4> QED
        BY <3>1, <4>1, UseKept DEF IInv, UsesOK
    <3> QED
      BY <3>2, <3>3
  <2> QED
    BY <2>2, <2>3, <2>4 DEF IInv
<1>11. CASE UNCHANGED vars
  <2>0. /\ UNCHANGED <<stamp, dirty, refcount, chains, entries, key, created, deleted>>
        /\ UNCHANGED <<role, chain, time, cur, next, held>>
    BY <1>11 DEF vars, predVars, blockVars, useVars
  <2>1. TypeOK'
    BY <2>0 DEF IInv, TypeOK
  <2>3. Contained'
    BY <2>0 DEF IInv, Contained, Linked
  <2>4. Counted'
    BY <2>0 DEF IInv, Counted, Holders
  <2>2. UsesOK'
    BY <1>11 DEF IInv, UsesOK, UseOK, Linked, vars, predVars, useVars
  <2> QED
    BY <2>1, <2>2, <2>3, <2>4 DEF IInv
<1> QED
  BY <1>2, <1>3, <1>4, <1>5, <1>6, <1>7, <1>8, <1>9, <1>10, <1>11 DEF Next

LEMMA Inductive == Spec => []IInv
<1> QED
  BY InitInv, StepInv, PTL DEF Spec

(***************************************************************************)
(* What follows.                                                           *)
(***************************************************************************)

\* The state of a predicate has its type in every behaviour.
THEOREM TypeCorrect == Spec => []TypeOK
<1>1. IInv => TypeOK
  BY DEF IInv
<1> QED
  BY <1>1, Inductive, PTL

\* A collection frees nothing that a use which is counted executes or looks at,
\* or that is in its choice point.
THEOREM ReferencesSafe == Spec => []ReferencesValid
<1>1. IInv => ReferencesValid
  BY DEF IInv, UsesOK, UseOK, ReferencesValid
<1> QED
  BY <1>1, Inductive, PTL

\* If no clause cuts while it is executed, none is freed while it is executed.
THEOREM RunningCodeSafe == ASSUME ~OwnCuts PROVE Spec => []RunningCodeValid
<1>1. IInv => RunningCodeValid
  <2> SUFFICES ASSUME IInv, NEW u \in Uses, cur[u] # NULL PROVE cur[u] \in Linked("all")
    BY DEF RunningCodeValid
  <2>1. UseOK(u) /\ (held[u] => Linked(chain[u]) \subseteq Linked("all"))
    BY DEF IInv, UsesOK, UseOK, Contained
  <2> QED
    BY <2>1 DEF UseOK
<1> QED
  BY <1>1, Inductive, PTL

\* What keeps retracted clauses from being forgotten: somebody who will release
\* the predicate, and no time of deletion after the present.
Remembered ==
    /\ dirty => refcount > 0
    /\ ~dirty => \A c \in Linked("all") : deleted[c] = Never
    /\ \A c \in Clauses : deleted[c] = Never \/ deleted[c] <= stamp

LEMMA RememberedStep == IInv /\ Remembered /\ [Next]_vars => Remembered'
<1> SUFFICES ASSUME IInv, Remembered, [Next]_vars PROVE Remembered'
  OBVIOUS
<1>1. Linked("all") \subseteq Clauses
  BY ElementOfSeq DEF IInv, TypeOK, Linked, Names
<1>2. stamp \in Nat /\ refcount \in Nat /\ deleted \in [Clauses -> Nat] /\ stamp < Never
  BY DynamicAssumption DEF IInv, TypeOK, Never
<1>3. ASSUME NEW u \in Uses, release PROVE Remembered'
  <2>1. ASSUME MayCollect, NEW c \in Linked("all")' PROVE deleted[c] = Never
    <3>1. c \in Linked("all") /\ ~toDelete(c, stamp)
      BY <1>3, <2>1, ReleaseChains DEF Names
    <3> QED
      BY <1>1, <1>2, <3>1 DEF Remembered, toDelete
  <2>2. ~MayCollect => Linked("all")' = Linked("all")
    BY <1>3, ReleaseChains DEF Linked
  <2>3. dirty' => refcount' > 0
    <3>1. dirty' => dirty /\ ~MayCollect
      BY <1>3, Zenon DEF release
    <3>2. dirty => refcount > 0 /\ (~MayCollect => refcount # 1)
      BY DEF Remembered, MayCollect
    <3>3. refcount' = refcount - 1
      BY <1>3 DEF release
    <3> QED
      BY <1>2, <3>1, <3>2, <3>3
  <2>4. /\ dirty' = (dirty /\ ~MayCollect)
        /\ deleted' = deleted /\ stamp' = stamp
    BY <1>3 DEF release, blockVars
  <2>5. CASE MayCollect
    <3>1. \A c \in Linked("all")' : deleted'[c] = Never
      BY <2>1, <2>4, <2>5
    <3> QED
      BY <2>3, <2>4, <3>1 DEF Remembered, Never
  <2>6. CASE ~MayCollect
    <3>1. ~dirty' => \A c \in Linked("all")' : deleted'[c] = Never
      BY <2>2, <2>4, <2>6 DEF Remembered
    <3> QED
      BY <2>3, <2>4, <3>1 DEF Remembered, Never
  <2> QED
    BY <2>5, <2>6
<1>4. ASSUME NEW c \in Clauses, NEW k \in Args, NEW asserta \in BOOLEAN, AssertClause(c, k, asserta)
      PROVE  Remembered'
  <2>1. Linked("all")' = Linked("all") \union {c}
    BY <1>4, AssertChains
  <2>2. /\ deleted' = [deleted EXCEPT ![c] = Never] /\ stamp' = stamp + 1
        /\ dirty' = dirty /\ refcount' = refcount
    BY <1>4 DEF AssertClause
  <2>3. \A d \in Clauses : deleted'[d] = IF d = c THEN Never ELSE deleted[d]
    BY <1>2, <2>2
  <2>4. \A d \in Clauses : deleted'[d] = Never \/ deleted'[d] <= stamp'
    BY <1>2, <2>2, <2>3 DEF Remembered
  <2>5. ~dirty' => \A d \in Linked("all")' : deleted'[d] = Never
    BY <1>1, <2>1, <2>2, <2>3 DEF Remembered
  <2> QED
    BY <2>2, <2>4, <2>5 DEF Remembered, Never
<1>5. ASSUME NEW u \in Uses, Retract(u) PROVE Remembered'
  <2>1. held[u]
    BY <1>5 DEF IInv, UsesOK, UseOK, Retract, Roles
  <2>2. IsFiniteSet(Holders) /\ Holders # {}
    BY <2>1, DynamicAssumption, FS_Subset DEF Holders
  <2>3. refcount > 0
    BY <1>2, <2>2, FS_EmptySet DEF IInv, Counted
  <2>4. dirty' /\ stamp' = stamp + 1 /\ refcount' = refcount
    BY <1>5 DEF Retract
  <2>5. \A c \in Clauses : deleted'[c] = stamp + 1 \/ deleted'[c] = deleted[c]
    BY <1>2, <1>5 DEF Retract
  <2>6. \A c \in Clauses : deleted'[c] = Never \/ deleted'[c] <= stamp'
    BY <1>2, <2>4, <2>5 DEF Remembered
  <2> QED
    BY <2>3, <2>4, <2>6 DEF Remembered, Never
<1>6. ASSUME refcount' \in {refcount, refcount + 1}, dirty' = dirty, stamp' = stamp,
             chains' = chains, deleted' = deleted
      PROVE  Remembered'
  BY <1>2, <1>6 DEF Remembered, Linked, Never
<1>7. ASSUME NEW u \in Uses, NEW k \in Args, BeginGoal(u, k) \/ BeginClause(u, k)
      PROVE  Remembered'
  BY <1>6, <1>7 DEF BeginGoal, BeginClause, Enter, aquire, blockVars
<1>8. ASSUME NEW u \in Uses, DBBacktrack(u) \/ NextClause(u) \/ Proceed(u) PROVE Remembered'
  BY <1>6, <1>8 DEF DBBacktrack, NextClause, Proceed, predVars, blockVars
<1>9. CASE UNCHANGED vars
  BY <1>6, <1>9 DEF vars, predVars, blockVars
<1> QED
  BY <1>3, <1>4, <1>5, <1>7, <1>8, <1>9 DEF Next, End, OwnCut

\* Retracted clauses do not stay in memory when nobody uses the predicate,
\* whether clauses cut or not.
THEOREM GarbageFree == Spec => []NoGarbage
<1>1. Init => Remembered
  BY DEF Init, Remembered, Linked, Names
<1>2. IInv /\ Remembered => NoGarbage
  BY DEF IInv, TypeOK, Remembered, NoGarbage
<1> QED
  BY <1>1, <1>2, Inductive, RememberedStep, PTL DEF Spec

(***************************************************************************)
(* The index: the chains for calls whose index argument is known.          *)
(***************************************************************************)

\* The clauses that match a call with index argument k, and those that match all.
Matches(k) == {c \in Clauses : key[c] \in {k, "var"}}
MatchesAll == {c \in Clauses : key[c] = "var"}

\* IndexConsistent is not inductive: it does not say that an index argument
\* without an entry is that of no clause and has no chain, on which both
\* copyVarClauses and lookUpClauseChain rely.
IndexInv ==
    /\ chains["var"] = Keep(chains["all"], MatchesAll)
    /\ \A k \in entries : chains[k] = Keep(chains["all"], Matches(k))
    /\ \A k \in Keys \ entries : chains[k] = <<>>
    /\ \A c \in Linked("all") : key[c] \in entries \union {"var"}

LEMMA NamesApart == "all" \in Names /\ "var" \in Names /\ "all" \notin Keys /\ "var" \notin Keys
                    /\ "all" # "var" /\ \A k \in Keys : k \in Names
BY DynamicAssumption DEF Names, Args

\* The chain of k from which an assert goes on is that of the clauses that match.
LEMMA CopyRight ==
    ASSUME IInv, IndexInv, NEW k \in Keys
    PROVE  copyVarClauses(k) = Keep(chains["all"], Matches(k))
<1> DEFINE all == chains["all"]
<1>1. all \in Seq(Clauses) /\ chains["var"] = Keep(all, MatchesAll)
  BY NamesApart DEF IInv, TypeOK, IndexInv
<1>2. CASE k \in entries
  <2>1. chains[k] = Keep(all, Matches(k))
    BY <1>2 DEF IndexInv
  <2>2. ASSUME chains[k] = <<>> PROVE chains["var"] = <<>>
    <3>1. MatchesAll = Matches(k) \intersect MatchesAll
      BY DEF MatchesAll, Matches
    <3>2. Keep(Keep(all, Matches(k)), MatchesAll) = Keep(all, Matches(k) \intersect MatchesAll)
      BY <1>1, KeepKeep
    <3>3. Keep(<<>>, MatchesAll) = <<>>
      BY KeepEmpty
    <3> QED
      BY <1>1, <2>1, <2>2, <3>1, <3>2, <3>3, Zenon
  <2> QED
    BY <2>1, <2>2 DEF copyVarClauses
<1>3. CASE k \notin entries
  <2>1. copyVarClauses(k) = chains["var"]
    BY <1>3 DEF IndexInv, copyVarClauses
  <2>2. ASSUME NEW i \in DOMAIN all PROVE (all[i] \in MatchesAll) <=> (all[i] \in Matches(k))
    <3>1. all[i] \in Linked("all") /\ all[i] \in Clauses
      BY <1>1 DEF Linked
    <3>2. key[all[i]] # k
      BY <1>3, <3>1, NamesApart DEF IndexInv
    <3> QED
      BY <3>1, <3>2 DEF Matches, MatchesAll
  <2>3. Keep(all, MatchesAll) = Keep(all, Matches(k))
    <3> HIDE DEF all
    <3> QED
      BY <1>1, <2>2, KeepSame
  <2> QED
    BY <1>1, <2>1, <2>3
<1> QED
  BY <1>2, <1>3

\* What is kept of a chain with a new clause.
LEMMA KeepAdded ==
    ASSUME NEW s \in Seq(Clauses), NEW c \in Clauses, NEW asserta \in BOOLEAN, NEW V
    PROVE  Keep(AddToChain(s, c, asserta), V) =
               IF c \in V THEN AddToChain(Keep(s, V), c, asserta) ELSE Keep(s, V)
<1>1. CASE asserta
  <2>1. AddToChain(s, c, asserta) = <<c>> \o s
        /\ AddToChain(Keep(s, V), c, asserta) = <<c>> \o Keep(s, V)
    BY <1>1, Zenon DEF AddToChain
  <2>2. Keep(<<c>> \o s, V) = IF c \in V THEN <<c>> \o Keep(s, V) ELSE Keep(s, V)
    BY KeepPrepend, Zenon
  <2> QED
    BY <2>1, <2>2, Zenon
<1>2. CASE ~asserta
  <2>1. AddToChain(s, c, asserta) = Append(s, c)
        /\ AddToChain(Keep(s, V), c, asserta) = Append(Keep(s, V), c)
    BY <1>2, Zenon DEF AddToChain
  <2>2. Keep(Append(s, c), V) = IF c \in V THEN Append(Keep(s, V), c) ELSE Keep(s, V)
    BY KeepAppend, Zenon
  <2> QED
    BY <2>1, <2>2, Zenon
<1> QED
  BY <1>1, <1>2

\* The clauses there are do not change their index argument when one is asserted.
LEMMA AssertIndex ==
    ASSUME IInv, IndexInv, NEW c \in Clauses, NEW k \in Args, NEW asserta \in BOOLEAN,
           AssertClause(c, k, asserta)
    PROVE  IndexInv'
<1> DEFINE all == chains["all"]
<1>0. /\ chains \in [Names -> Seq(Clauses)] /\ all \in Seq(Clauses) /\ key \in [Clauses -> Args]
      /\ entries \subseteq Keys
      /\ c \notin Linked("all") /\ key' = [key EXCEPT ![c] = k]
      /\ entries' = entries \union ({k} \intersect Keys)
      /\ chains' = [n \in Names |->
                      IF n \notin Receivers(k) THEN chains[n]
                      ELSE AddToChain(IF n \in Keys THEN copyVarClauses(n) ELSE chains[n], c, asserta)]
  BY NamesApart DEF IInv, TypeOK, AssertClause
<1>1. key'[c] = k /\ \A d \in Clauses : d # c => key'[d] = key[d]
  BY <1>0
<1>2. chains'["all"] = AddToChain(all, c, asserta)
  BY <1>0, NamesApart DEF Receivers
<1>3. \A i \in DOMAIN all : all[i] \in Clauses /\ all[i] # c
  BY <1>0 DEF Linked
<1>4. Keep(all, MatchesAll') = Keep(all, MatchesAll)
  <2>1. \A i \in DOMAIN all : (all[i] \in MatchesAll') <=> (all[i] \in MatchesAll)
    BY <1>1, <1>3 DEF MatchesAll
  <2> HIDE DEF all
  <2> QED
    BY <1>0, <2>1, KeepSame
<1>5. ASSUME NEW j PROVE Keep(all, Matches(j)') = Keep(all, Matches(j))
  <2>1. \A i \in DOMAIN all : (all[i] \in Matches(j)') <=> (all[i] \in Matches(j))
    BY <1>1, <1>3 DEF Matches
  <2> HIDE DEF all
  <2> QED
    BY <1>0, <2>1, KeepSame
<1>6. chains'["var"] = Keep(chains'["all"], MatchesAll')
  <2>1. Keep(chains'["all"], MatchesAll') =
           IF c \in MatchesAll' THEN AddToChain(Keep(all, MatchesAll), c, asserta)
           ELSE Keep(all, MatchesAll)
    <3> HIDE DEF all
    <3> QED
      BY <1>0, <1>2, <1>4, KeepAdded
  <2>2. c \in MatchesAll' <=> k = "var"
    BY <1>1 DEF MatchesAll
  <2>3. chains["var"] = Keep(all, MatchesAll)
    BY DEF IndexInv
  <2>4. "var" \in Receivers(k) <=> k = "var"
    BY NamesApart DEF Receivers
  <2>5. chains'["var"] = IF k = "var" THEN AddToChain(chains["var"], c, asserta) ELSE chains["var"]
    BY <1>0, <2>4, NamesApart
  <2> QED
    BY <2>1, <2>2, <2>3, <2>5
<1>7. ASSUME NEW j \in entries'
      PROVE  chains'[j] = Keep(chains'["all"], Matches(j)')
  <2>0. j \in Keys /\ j \in Names /\ j # "all" /\ j # "var"
    BY <1>0, NamesApart
  <2>1. Keep(chains'["all"], Matches(j)') =
           IF c \in Matches(j)' THEN AddToChain(Keep(all, Matches(j)), c, asserta)
           ELSE Keep(all, Matches(j))
    <3> HIDE DEF all
    <3> QED
      BY <1>0, <1>2, <1>5, KeepAdded
  <2>2. c \in Matches(j)' <=> k \in {j, "var"}
    BY <1>1 DEF Matches
  <2>3. CASE k \in {j, "var"}
    <3>1. j \in Receivers(k)
      BY <1>0, <2>0, <2>3 DEF Receivers
    <3>2. chains'[j] = AddToChain(copyVarClauses(j), c, asserta)
      BY <1>0, <2>0, <3>1
    <3>3. copyVarClauses(j) = Keep(all, Matches(j))
      BY <2>0, CopyRight
    <3> QED
      BY <2>1, <2>2, <2>3, <3>2, <3>3
  <2>4. CASE k \notin {j, "var"}
    <3>1. j \notin Receivers(k) /\ j \in entries
      BY <1>0, <2>0, <2>4 DEF Receivers
    <3>2. chains'[j] = chains[j] /\ chains[j] = Keep(all, Matches(j))
      BY <1>0, <2>0, <3>1 DEF IndexInv
    <3> QED
      BY <2>1, <2>2, <2>4, <3>2
  <2> QED
    BY <2>3, <2>4
<1>8. ASSUME NEW j \in Keys \ entries' PROVE chains'[j] = <<>>
  <2>1. j \notin Receivers(k) /\ j \notin entries
    BY <1>0, NamesApart DEF Receivers
  <2> QED
    BY <1>0, <2>1, NamesApart DEF IndexInv
<1>9. ASSUME NEW d \in Linked("all")' PROVE key'[d] \in entries' \union {"var"}
  <2>1. d \in Linked("all") \union {c}
    BY AssertChains
  <2>2. CASE d = c
    BY <1>0, <1>1, <2>2 DEF Args
  <2>3. CASE d \in Linked("all")
    <3>1. d \in Clauses /\ d # c
      BY <1>0, <1>3, <2>3 DEF Linked
    <3>2. key[d] \in entries \union {"var"}
      BY <2>3 DEF IndexInv
    <3> QED
      BY <1>0, <1>1, <3>1, <3>2
  <2> QED
    BY <2>1, <2>2, <2>3
<1> QED
  BY <1>6, <1>7, <1>8, <1>9 DEF IndexInv

\* A collection takes the same clauses out of all the chains.
LEMMA CollectIndex ==
    ASSUME IInv, IndexInv, release
    PROVE  IndexInv'
<1> DEFINE all  == chains["all"]
           Left == {c \in Clauses : ~toDelete(c, stamp)}
<1>0. /\ chains \in [Names -> Seq(Clauses)] /\ all \in Seq(Clauses)
      /\ entries' = entries /\ key' = key /\ entries \subseteq Keys
      /\ MatchesAll' = MatchesAll /\ \A k : Matches(k)' = Matches(k)
  BY NamesApart DEF IInv, TypeOK, release, blockVars, MatchesAll, Matches
<1>1. CASE ~MayCollect
  <2>1. chains' = chains
    BY <1>1 DEF release
  <2> QED
    BY <1>0, <2>1 DEF IndexInv, Linked
<1>2. CASE MayCollect
  <2>1. \A n \in Names : chains'[n] = Keep(chains[n], Left)
    BY <1>2 DEF release, gcPredicate, gcChain
  <2>2. ASSUME NEW V PROVE Keep(Keep(all, V), Left) = Keep(Keep(all, Left), V)
    <3>1. V \intersect Left = Left \intersect V
      OBVIOUS
    <3> HIDE DEF all, Left
    <3>2. /\ Keep(Keep(all, V), Left) = Keep(all, V \intersect Left)
          /\ Keep(Keep(all, Left), V) = Keep(all, Left \intersect V)
      BY <1>0, KeepKeep
    <3> QED
      BY <3>1, <3>2
  <2>3. chains'["all"] = Keep(all, Left) /\ chains'["var"] = Keep(chains["var"], Left)
    BY <2>1, NamesApart
  <2> HIDE DEF Left
  <2>4. chains'["var"] = Keep(chains'["all"], MatchesAll')
    BY <1>0, <2>2, <2>3 DEF IndexInv
  <2>5. ASSUME NEW k \in entries' PROVE chains'[k] = Keep(chains'["all"], Matches(k)')
    <3>1. k \in Names /\ chains[k] = Keep(all, Matches(k))
      BY <1>0, NamesApart DEF IndexInv
    <3> QED
      BY <1>0, <2>1, <2>2, <2>3, <3>1
  <2>6. ASSUME NEW k \in Keys \ entries' PROVE chains'[k] = <<>>
    BY <1>0, <2>1, KeepEmpty, NamesApart DEF IndexInv
  <2>7. ASSUME NEW c \in Linked("all")' PROVE key'[c] \in entries' \union {"var"}
    <3>1. c \in Linked("all")
      BY <1>2, ReleaseChains, NamesApart
    <3> QED
      BY <1>0, <3>1 DEF IndexInv
  <2> QED
    BY <2>4, <2>5, <2>6, <2>7 DEF IndexInv
<1> QED
  BY <1>1, <1>2

LEMMA IndexStep == IInv /\ IndexInv /\ [Next]_vars => IndexInv'
<1> SUFFICES ASSUME IInv, IndexInv, [Next]_vars PROVE IndexInv'
  OBVIOUS
<1>1. ASSUME UNCHANGED <<chains, entries, key>> PROVE IndexInv'
  BY <1>1 DEF IndexInv, Linked, Matches, MatchesAll
<1>2. ASSUME NEW c \in Clauses, NEW k \in Args, NEW asserta \in BOOLEAN, AssertClause(c, k, asserta)
      PROVE  IndexInv'
  BY <1>2, AssertIndex
<1>3. ASSUME NEW u \in Uses, End(u) \/ OwnCut(u) PROVE IndexInv'
  BY <1>3, CollectIndex DEF End, OwnCut
<1>4. ASSUME NEW u \in Uses, NEW k \in Args, BeginGoal(u, k) \/ BeginClause(u, k) PROVE IndexInv'
  BY <1>1, <1>4 DEF BeginGoal, BeginClause, Enter, aquire, blockVars
<1>5. ASSUME NEW u \in Uses, DBBacktrack(u) \/ NextClause(u) \/ Retract(u) \/ Proceed(u)
      PROVE  IndexInv'
  BY <1>1, <1>5 DEF DBBacktrack, NextClause, Retract, Proceed, predVars, blockVars
<1>6. CASE UNCHANGED vars
  BY <1>1, <1>6 DEF vars, predVars, blockVars
<1> QED
  BY <1>2, <1>3, <1>4, <1>5, <1>6 DEF Next

LEMMA AlwaysIndexed == Spec => []IndexInv
<1>1. Init => IndexInv
  <2> SUFFICES ASSUME Init PROVE IndexInv
    OBVIOUS
  <2>1. chains["all"] = <<>> /\ chains["var"] = <<>> /\ entries = {} /\ \A k \in Keys : chains[k] = <<>>
    BY NamesApart DEF Init
  <2>2. Linked("all") = {}
    BY <2>1 DEF Linked
  <2> QED
    BY <2>1, <2>2, KeepEmpty DEF IndexInv
<1> QED
  BY <1>1, Inductive, IndexStep, PTL DEF Spec

\* The chains by which calls are indexed hold exactly the clauses that match, in
\* the order of the predicate: assertClause adds a clause to the right chains,
\* the chain of a new entry starts with the right clauses (copyVarClauses), and
\* gcPredicate takes the same clauses out of all of them.
THEOREM IndexRight == Spec => []IndexConsistent
<1>1. IndexInv => IndexConsistent
  BY DEF IndexInv, IndexConsistent, Matches, MatchesAll
<1> QED
  BY <1>1, AlwaysIndexed, PTL

(***************************************************************************)
(* The logical update view.                                                *)
(***************************************************************************)

\* With two uses of retract/1 that overlap, the second to retract a clause moves
\* its time of deletion, and uses that began in between see it again.
OneRetractor == \A u, v \in Retractors : u = v

\* No clause is twice in the chain.
Distinct(s) == \A i, j \in DOMAIN s : s[i] = s[j] => i = j

\* A retract looks at a clause nobody has retracted, and those it still comes to
\* have not been retracted either.
RetractorOK(u) ==
    /\ u \in Retractors
    /\ role[u] = "retract" => deleted[cur[u]] = Never
    /\ \A i, j \in DOMAIN chains[chain[u]] :
          (chains[chain[u]][i] = cur[u] /\ i < j /\ isAlive(chains[chain[u]][j], time[u]))
             => deleted[chains[chain[u]][j]] = Never

\* What the mapping rests on: nothing is created after the present, no use began
\* after it, and the clause in the choice point of a goal is one it is to be given.
ViewInv ==
    /\ Distinct(chains["all"])
    /\ \A c \in Linked("all") : created[c] <= stamp
    /\ \A u \in Uses : time[u] <= stamp
    /\ \A u \in Uses : (role[u] = "goal" /\ next[u] # NULL) => isAlive(next[u], time[u])
    /\ \A u \in Uses : role[u] \in {"retract", "retracted"} => RetractorOK(u)

LEMMA ViewKeep == \A s, V : View!Keep(s, V) = Keep(s, V)
BY DEF View!Keep, Keep

\* What is kept of a chain in which no clause is twice is such a chain.
LEMMA KeepDistinct ==
    ASSUME NEW s \in Seq(Clauses), Distinct(s), NEW V
    PROVE  Distinct(Keep(s, V))
<1> DEFINE k == Keep(s, V)
<1>1. \A i, j \in DOMAIN k : i < j => \E a, b \in DOMAIN s : a < b /\ k[i] = s[a] /\ k[j] = s[b]
  BY KeepOrder
<1>2. k \in Seq(Clauses) /\ DOMAIN k = 1 .. Len(k) /\ Len(k) \in Nat /\ DOMAIN s \subseteq Nat
  BY KeepType
<1> HIDE DEF k
<1>3. ASSUME NEW i \in DOMAIN k, NEW j \in DOMAIN k, i < j PROVE k[i] # k[j]
  BY <1>1, <1>2, <1>3 DEF Distinct
<1>4. \A i, j \in DOMAIN k : i < j \/ j < i \/ i = j
  BY <1>2
<1> QED
  BY <1>3, <1>4 DEF Distinct, k

\* So is a chain with a clause that was not in it.
LEMMA AddDistinct ==
    ASSUME NEW s \in Seq(Clauses), Distinct(s), NEW c \in Clauses, NEW asserta \in BOOLEAN,
           \A i \in DOMAIN s : s[i] # c
    PROVE  Distinct(AddToChain(s, c, asserta))
<1> DEFINE t == AddToChain(s, c, asserta)
           l == Len(s)
<1>1. l \in Nat /\ DOMAIN s = 1 .. l
  OBVIOUS
<1>2. CASE asserta
  <2>1. t = <<c>> \o s
    BY <1>2 DEF AddToChain
  <2>2. Len(t) = l + 1 /\ t \in Seq(Clauses) /\ t[1] = c /\ \A i \in 2 .. l + 1 : t[i] = s[i - 1]
    BY <2>1
  <2> HIDE DEF t
  <2>3. \A i \in 2 .. l + 1 : i - 1 \in DOMAIN s
    BY <1>1
  <2>4. DOMAIN t = 1 .. l + 1 /\ \A i \in 1 .. l + 1 : i = 1 \/ i \in 2 .. l + 1
    BY <1>1, <2>2
  <2>5. ASSUME NEW i \in DOMAIN t, NEW j \in DOMAIN t, t[i] = t[j] PROVE i = j
    <3>1. CASE i = 1 /\ j = 1
      BY <3>1
    <3>2. CASE i = 1 /\ j \in 2 .. l + 1
      BY <3>2, <2>5, <2>2, <2>3
    <3>3. CASE j = 1 /\ i \in 2 .. l + 1
      BY <3>3, <2>5, <2>2, <2>3
    <3>4. CASE i \in 2 .. l + 1 /\ j \in 2 .. l + 1
      <4>1. i - 1 = j - 1
        BY <3>4, <2>5, <2>2, <2>3 DEF Distinct
      <4> QED
        BY <3>4, <4>1, <1>1
    <3> QED
      BY <2>4, <3>1, <3>2, <3>3, <3>4
  <2> QED
    BY <2>5 DEF Distinct, t
<1>3. CASE ~asserta
  <2>1. t = Append(s, c)
    BY <1>3 DEF AddToChain
  <2>2. Len(t) = l + 1 /\ t \in Seq(Clauses) /\ t[l + 1] = c /\ \A i \in 1 .. l : t[i] = s[i]
    BY <2>1
  <2> HIDE DEF t
  <2>3. DOMAIN t = 1 .. l + 1 /\ \A i \in 1 .. l + 1 : i = l + 1 \/ i \in 1 .. l
    BY <1>1, <2>2
  <2>4. ASSUME NEW i \in DOMAIN t, NEW j \in DOMAIN t, t[i] = t[j] PROVE i = j
    BY <1>1, <2>2, <2>3, <2>4 DEF Distinct
  <2> QED
    BY <2>4 DEF Distinct, t
<1> QED
  BY <1>2, <1>3

\* In a chain in which no clause is twice the position of a clause is the only one.
LEMMA PositionIs ==
    ASSUME NEW n \in Names, chains[n] \in Seq(Clauses), Distinct(chains[n]),
           NEW i \in DOMAIN chains[n]
    PROVE  Position(n, chains[n][i]) = i
<1>1. Position(n, chains[n][i]) \in DOMAIN chains[n]
      /\ chains[n][Position(n, chains[n][i])] = chains[n][i]
  BY DEF Position
<1> QED
  BY <1>1 DEF Distinct

\* Two sequences with the same head and the same tail.
LEMMA SameSequence ==
    ASSUME NEW S, NEW f \in Seq(S), NEW g \in Seq(S), f # <<>>, g # <<>>,
           Head(f) = Head(g), Tail(f) = Tail(g)
    PROVE  f = g
<1>1. f[1] = g[1]
  OBVIOUS
<1>2. Len(f) \in Nat \ {0} /\ Len(g) \in Nat \ {0}
  OBVIOUS
<1>3. Len(Tail(f)) = Len(f) - 1 /\ \A i \in 1 .. Len(f) - 1 : Tail(f)[i] = f[i + 1]
  BY HeadTailProperties
<1>4. Len(Tail(g)) = Len(g) - 1 /\ \A i \in 1 .. Len(g) - 1 : Tail(g)[i] = g[i + 1]
  BY HeadTailProperties
<1>5. Len(f) = Len(g)
  <2>1. Len(f) - 1 = Len(g) - 1
    BY <1>3, <1>4, Zenon
  <2> QED
    BY <1>2, <2>1
<1>6. ASSUME NEW j \in 1 .. Len(f) PROVE f[j] = g[j]
  <2>1. CASE j = 1
    BY <1>1, <2>1
  <2>2. CASE j # 1
    <3> DEFINE i == j - 1
    <3>1. i \in 1 .. Len(f) - 1 /\ i + 1 = j
      BY <1>2, <2>2
    <3> HIDE DEF i
    <3>2. f[i + 1] = g[i + 1]
      BY <1>3, <1>4, <1>5, <3>1
    <3> QED
      BY <3>1, <3>2
  <2> QED
    BY <2>1, <2>2
<1> QED
  BY <1>5, <1>6, SeqEqual

\* FirstAlive is the first of the clauses alive behind a position, and behind it
\* come the rest of them.
LEMMA FirstAliveFrom ==
    ASSUME NEW n \in Names, chains[n] \in Seq(Clauses), Distinct(chains[n]),
           NEW i \in Nat \ {0}, NEW ts
    PROVE  /\ FirstAlive(n, i, ts) = NULL => AliveFrom(n, i, ts) = <<>>
           /\ FirstAlive(n, i, ts) # NULL =>
                 /\ FirstAlive(n, i, ts) \in Linked(n)
                 /\ isAlive(FirstAlive(n, i, ts), ts)
                 /\ i <= Position(n, FirstAlive(n, i, ts))
                 /\ AliveFrom(n, i, ts) # <<>>
                 /\ Head(AliveFrom(n, i, ts)) = FirstAlive(n, i, ts)
                 /\ Tail(AliveFrom(n, i, ts)) =
                       AliveFrom(n, Position(n, FirstAlive(n, i, ts)) + 1, ts)
                 /\ AliveFrom(n, Position(n, FirstAlive(n, i, ts)), ts) = AliveFrom(n, i, ts)
<1> DEFINE s == chains[n]
           V == {c \in Clauses : isAlive(c, ts)}
           alive == {j \in i .. Len(s) : isAlive(s[j], ts)}
           first == CHOOSE j \in alive : \A k \in alive : j <= k
           From(j) == Keep(SubSeq(s, j, Len(s)), V)
<1>0. s \in Seq(Clauses) /\ Len(s) \in Nat /\ DOMAIN s = 1 .. Len(s) /\ \A j \in 1 .. Len(s) : s[j] \in Clauses
  OBVIOUS
<1>1. CASE alive = {}
  <2>1. FirstAlive(n, i, ts) = NULL
    BY <1>1 DEF FirstAlive
  <2>2. SubSeq(s, i, Len(s)) \in Seq(Clauses)
        /\ Len(SubSeq(s, i, Len(s))) = (IF i <= Len(s) THEN Len(s) - i + 1 ELSE 0)
        /\ \A j \in 1 .. Len(s) - i + 1 : SubSeq(s, i, Len(s))[j] = s[i + j - 1]
    BY <1>0, SubSeqProperties
  <2>3. ASSUME NEW j \in DOMAIN SubSeq(s, i, Len(s)) PROVE SubSeq(s, i, Len(s))[j] \notin V
    <3>1. j \in 1 .. Len(s) - i + 1 /\ i + j - 1 \in i .. Len(s)
      BY <1>0, <2>2
    <3>2. SubSeq(s, i, Len(s))[j] = s[i + j - 1]
      BY <2>2, <3>1
    <3> QED
      BY <1>1, <3>1, <3>2
  <2>4. From(i) = <<>>
    <3> HIDE DEF s, V
    <3> QED
      BY <2>2, <2>3, KeepNone
  <2> QED
    BY <2>1, <2>4 DEF AliveFrom
<1>2. CASE alive # {}
  <2>1. FirstAlive(n, i, ts) = s[first]
    BY <1>2 DEF FirstAlive
  <2>2. alive \in SUBSET Nat
    BY <1>0
  <2>3. first \in alive /\ \A k \in alive : first <= k
    BY <1>2, <2>2, LeastElement
  <2> HIDE DEF first
  <2>4. first \in i .. Len(s) /\ first \in 1 .. Len(s) /\ isAlive(s[first], ts)
    BY <1>0, <2>3
  <2>5. s[first] \in V /\ s[first] \in Clauses /\ s[first] # NULL /\ s[first] \in Linked(n)
    BY <1>0, <2>4, DynamicAssumption DEF Linked
  <2>6. \A k \in i .. first - 1 : s[k] \notin V
    <3> SUFFICES ASSUME NEW k \in i .. first - 1, s[k] \in V PROVE FALSE
      OBVIOUS
    <3>1. k \in alive
      BY <1>0, <2>4
    <3> QED
      BY <1>0, <2>3, <2>4, <3>1
  <2>7. Position(n, s[first]) = first
    BY <1>0, <2>4, PositionIs
  <2>8. From(i) # <<>> /\ Head(From(i)) = s[first] /\ Tail(From(i)) = From(first + 1)
    <3> HIDE DEF s, V
    <3> QED
      BY <1>0, <2>4, <2>5, <2>6, KeepFirst
  <2>9. From(first) # <<>> /\ Head(From(first)) = s[first] /\ Tail(From(first)) = From(first + 1)
    <3>1. \A k \in first .. first - 1 : s[k] \notin V
      BY <2>4
    <3>2. first \in Nat \ {0} /\ first \in first .. Len(s)
      BY <2>4
    <3> HIDE DEF s, V
    <3> QED
      BY <1>0, <2>5, <3>1, <3>2, KeepFirst
  <2>10. From(first) = From(i)
    <3>1. ASSUME NEW j \in Nat \ {0} PROVE From(j) \in Seq(Clauses)
      <4>1. SubSeq(s, j, Len(s)) \in Seq(Clauses)
        BY <1>0, SubSeqProperties
      <4> HIDE DEF s, V
      <4> QED
        BY <4>1, KeepType
    <3>2. From(first) \in Seq(Clauses) /\ From(i) \in Seq(Clauses)
      BY <2>4, <3>1
    <3> DEFINE f == From(first)
               g == From(i)
    <3>3. /\ f \in Seq(Clauses) /\ g \in Seq(Clauses) /\ f # <<>> /\ g # <<>>
          /\ Head(f) = Head(g) /\ Tail(f) = Tail(g)
      BY <2>8, <2>9, <3>2
    <3> HIDE DEF f, g
    <3>4. f = g
      BY <3>3, SameSequence
    <3> QED
      BY <3>4 DEF f, g
  <2> QED
    BY <2>1, <2>4, <2>5, <2>7, <2>8, <2>9, <2>10 DEF AliveFrom
<1> QED
  BY <1>1, <1>2

\* No chain has a clause twice.
LEMMA ChainsDistinct ==
    ASSUME IInv, IndexInv, Distinct(chains["all"]), NEW n \in Names
    PROVE  Distinct(chains[n])
<1>1. chains["all"] \in Seq(Clauses) /\ "all" \in Names
  BY NamesApart DEF IInv, TypeOK
<1>2. \A V : Distinct(Keep(chains["all"], V))
  BY <1>1, KeepDistinct
<1>3. CASE n = "all"
  BY <1>3
<1>4. CASE n = "var"
  BY <1>2, <1>4 DEF IndexInv
<1>5. CASE n \in Keys
  <2>1. n \notin entries => chains[n] = <<>>
    BY <1>5 DEF IndexInv
  <2>2. n \in entries => chains[n] = Keep(chains["all"], Matches(n))
    BY DEF IndexInv
  <2>3. Distinct(<<>>)
    BY DEF Distinct
  <2> QED
    BY <1>2, <2>1, <2>2, <2>3
<1> QED
  BY <1>3, <1>4, <1>5 DEF Names, Args

\* What is alive of the end of a chain depends on the clauses of the chain only.
LEMMA SameAlive ==
    ASSUME NEW s \in Seq(Clauses), NEW i \in Nat \ {0}, NEW V, NEW W,
           \A j \in DOMAIN s : (s[j] \in V) <=> (s[j] \in W)
    PROVE  Keep(SubSeq(s, i, Len(s)), V) = Keep(SubSeq(s, i, Len(s)), W)
<1> DEFINE t == SubSeq(s, i, Len(s))
<1>1. Len(s) \in Nat /\ DOMAIN s = 1 .. Len(s) /\ \A j \in i .. Len(s) : s[j] \in Clauses
  OBVIOUS
<1>2. t \in Seq(Clauses) /\ Len(t) = (IF i <= Len(s) THEN Len(s) - i + 1 ELSE 0)
      /\ \A j \in 1 .. Len(s) - i + 1 : t[j] = s[i + j - 1]
  BY <1>1, SubSeqProperties
<1> HIDE DEF t
<1>3. ASSUME NEW j \in DOMAIN t PROVE (t[j] \in V) <=> (t[j] \in W)
  <2>1. j \in 1 .. Len(s) - i + 1 /\ i + j - 1 \in 1 .. Len(s)
    BY <1>1, <1>2
  <2> QED
    BY <1>1, <1>2, <2>1
<1>4. Keep(t, V) = Keep(t, W)
  BY <1>2, <1>3, KeepSame
<1> QED
  BY <1>4 DEF t

\* A clause that is not alive, at either end of a chain, moves the others by at
\* most one, and what is alive behind them stays the same.
LEMMA AddBehind ==
    ASSUME NEW s \in Seq(Clauses), NEW c \in Clauses, NEW asserta \in BOOLEAN, NEW V, c \notin V
    PROVE  \E d \in {0, 1} : \A j \in 1 .. Len(s) + 1 :
              LET t == AddToChain(s, c, asserta)
              IN /\ j \in DOMAIN s => j + d \in DOMAIN t /\ t[j + d] = s[j]
                 /\ Keep(SubSeq(t, j + d, Len(t)), V) = Keep(SubSeq(s, j, Len(s)), V)
<1> DEFINE t == AddToChain(s, c, asserta)
           l == Len(s)
<1>1. l \in Nat /\ DOMAIN s = 1 .. l /\ \A j \in 1 .. l : s[j] \in Clauses
  OBVIOUS
<1>2. CASE asserta
  <2>1. t = <<c>> \o s
    BY <1>2 DEF AddToChain
  <2>2. Len(t) = l + 1 /\ t \in Seq(Clauses) /\ DOMAIN t = 1 .. l + 1
        /\ \A i \in 2 .. l + 1 : t[i] = s[i - 1]
    BY <2>1
  <2> HIDE DEF t
  <2>3. ASSUME NEW j \in 1 .. l + 1
        PROVE  /\ j \in DOMAIN s => j + 1 \in DOMAIN t /\ t[j + 1] = s[j]
               /\ SubSeq(t, j + 1, Len(t)) = SubSeq(s, j, l)
    <3>1. j \in DOMAIN s => j + 1 \in 2 .. l + 1 /\ j + 1 \in DOMAIN t /\ (j + 1) - 1 = j
      BY <1>1, <2>2
    <3>2. j \in DOMAIN s => t[j + 1] = s[j]
      BY <2>2, <3>1
    <3>3. \A i \in j + 1 .. l + 1 : t[i] \in Clauses
      BY <1>1, <2>2
    <3>4. j \in Int /\ j + 1 \in Int /\ l \in Int /\ l + 1 \in Int
          /\ \A i \in j .. l : s[i] \in Clauses
      BY <1>1
    <3> DEFINE p == SubSeq(t, j + 1, l + 1)
               q == SubSeq(s, j, l)
    <3>5. p \in Seq(Clauses) /\ Len(p) = (IF j + 1 <= l + 1 THEN (l + 1) - (j + 1) + 1 ELSE 0)
          /\ \A i \in 1 .. (l + 1) - (j + 1) + 1 : p[i] = t[(j + 1) + i - 1]
      BY <3>3, <3>4, SubSeqProperties
    <3>6. q \in Seq(Clauses) /\ Len(q) = (IF j <= l THEN l - j + 1 ELSE 0)
          /\ \A i \in 1 .. l - j + 1 : q[i] = s[j + i - 1]
      BY <3>4, SubSeqProperties
    <3> HIDE DEF p, q
    <3>7. Len(p) = Len(q)
      BY <1>1, <3>5, <3>6
    <3>8. ASSUME NEW i \in 1 .. Len(p) PROVE p[i] = q[i]
      <4>1. i \in 1 .. (l + 1) - (j + 1) + 1 /\ i \in 1 .. l - j + 1
            /\ (j + 1) + i - 1 \in 2 .. l + 1 /\ ((j + 1) + i - 1) - 1 = j + i - 1
        BY <1>1, <3>5
      <4> QED
        BY <2>2, <3>5, <3>6, <4>1
    <3>9. p = q
      BY <3>5, <3>6, <3>7, <3>8, SeqEqual
    <3> QED
      BY <2>2, <3>1, <3>2, <3>9 DEF p, q
  <2>4. \A j \in 1 .. l + 1 :
           /\ j \in DOMAIN s => j + 1 \in DOMAIN t /\ t[j + 1] = s[j]
           /\ Keep(SubSeq(t, j + 1, Len(t)), V) = Keep(SubSeq(s, j, l), V)
    BY <2>3
  <2> QED
    BY <2>4 DEF t
<1>3. CASE ~asserta
  <2>1. t = Append(s, c)
    BY <1>3 DEF AddToChain
  <2>2. Len(t) = l + 1 /\ t \in Seq(Clauses) /\ DOMAIN t = 1 .. l + 1 /\ t[l + 1] = c
        /\ \A i \in 1 .. l : t[i] = s[i]
    BY <2>1
  <2> HIDE DEF t
  <2>3. ASSUME NEW j \in 1 .. l + 1
        PROVE  /\ j \in DOMAIN s => j + 0 \in DOMAIN t /\ t[j + 0] = s[j]
               /\ Keep(SubSeq(t, j + 0, Len(t)), V) = Keep(SubSeq(s, j, l), V)
    <3>1. j + 0 = j /\ (j \in DOMAIN s => j \in DOMAIN t /\ t[j] = s[j])
      BY <1>1, <2>2
    <3>3. \A i \in j .. l + 1 : t[i] \in Clauses
      BY <1>1, <2>2
    <3>4. j \in Int /\ l \in Int /\ l + 1 \in Int /\ \A i \in j .. l : s[i] \in Clauses
      BY <1>1
    <3> DEFINE p == SubSeq(t, j, l + 1)
               q == SubSeq(s, j, l)
               r == Append(q, c)
    <3>5. p \in Seq(Clauses) /\ Len(p) = (IF j <= l + 1 THEN (l + 1) - j + 1 ELSE 0)
          /\ \A i \in 1 .. (l + 1) - j + 1 : p[i] = t[j + i - 1]
      BY <3>3, <3>4, SubSeqProperties
    <3>6. q \in Seq(Clauses) /\ Len(q) = (IF j <= l THEN l - j + 1 ELSE 0)
          /\ \A i \in 1 .. l - j + 1 : q[i] = s[j + i - 1]
      BY <3>4, SubSeqProperties
    <3>10. Keep(r, V) = Keep(q, V)
      <4> HIDE DEF q
      <4>1. Keep(Append(q, c), V) = IF c \in V THEN Append(Keep(q, V), c) ELSE Keep(q, V)
        BY <3>6, KeepAppend, Zenon
      <4> QED
        BY <4>1
    <3>11. r \in Seq(Clauses) /\ Len(r) = Len(q) + 1 /\ r[Len(q) + 1] = c
           /\ \A i \in 1 .. Len(q) : r[i] = q[i]
      BY <3>6, AppendProperties
    <3> HIDE DEF p, q, r
    <3>7. Len(p) = Len(r)
      BY <1>1, <3>5, <3>6, <3>11
    <3>8. ASSUME NEW i \in 1 .. Len(p) PROVE p[i] = r[i]
      <4>1. i \in 1 .. (l + 1) - j + 1 /\ j + i - 1 \in 1 .. l + 1 /\ Len(q) = l - j + 1
        BY <1>1, <3>5, <3>6
      <4>2. CASE i = Len(q) + 1
        <5>1. j + i - 1 = l + 1
          BY <1>1, <4>1, <4>2
        <5> QED
          BY <2>2, <3>5, <3>11, <4>1, <4>2, <5>1
      <4>3. CASE i # Len(q) + 1
        <5>1. i \in 1 .. l - j + 1 /\ j + i - 1 \in 1 .. l
          BY <1>1, <4>1, <4>3
        <5> QED
          BY <2>2, <3>5, <3>6, <3>11, <4>1, <5>1
      <4> QED
        BY <4>2, <4>3
    <3>9. p = r
      BY <3>5, <3>7, <3>8, <3>11, SeqEqual
    <3> QED
      BY <2>2, <3>1, <3>9, <3>10 DEF p, q
  <2>4. \A j \in 1 .. l + 1 :
           /\ j \in DOMAIN s => j + 0 \in DOMAIN t /\ t[j + 0] = s[j]
           /\ Keep(SubSeq(t, j + 0, Len(t)), V) = Keep(SubSeq(s, j, l), V)
    BY <2>3
  <2> QED
    BY <2>4 DEF t
<1> QED
  BY <1>2, <1>3

\* The chain that is looked up has the clauses that match.
LEMMA LookUpRight ==
    ASSUME IInv, IndexInv, NEW k \in Args
    PROVE  chains[lookUpClauseChain(k)] =
               Keep(chains["all"], {c \in Clauses : k = "var" \/ key[c] \in {k, "var"}})
<1> DEFINE all == chains["all"]
           M == {c \in Clauses : k = "var" \/ key[c] \in {k, "var"}}
<1>1. all \in Seq(Clauses) /\ chains["var"] = Keep(all, MatchesAll) /\ entries \subseteq Keys
  BY NamesApart DEF IInv, TypeOK, IndexInv
<1>2. CASE k = "var"
  <2>1. M = Clauses
    BY <1>2
  <2>2. Keep(all, Clauses) = all
    <3> HIDE DEF all
    <3> QED
      BY <1>1, KeepWhole
  <2>3. lookUpClauseChain(k) = "all"
    BY <1>1, <1>2, NamesApart DEF lookUpClauseChain
  <2> QED
    BY <2>1, <2>2, <2>3
<1>3. CASE k \in entries
  <2>1. k # "var"
    BY <1>1, <1>3, NamesApart
  <2>2. M = Matches(k) /\ lookUpClauseChain(k) = k
    BY <1>3, <2>1 DEF Matches, lookUpClauseChain
  <2> QED
    BY <1>3, <2>2 DEF IndexInv
<1>4. CASE k \notin entries /\ k # "var"
  <2>1. lookUpClauseChain(k) = "var"
    BY <1>4 DEF lookUpClauseChain
  <2>2. ASSUME NEW i \in DOMAIN all PROVE (all[i] \in MatchesAll) <=> (all[i] \in M)
    <3>1. all[i] \in Linked("all") /\ all[i] \in Clauses
      BY <1>1 DEF Linked
    <3>2. key[all[i]] # k
      BY <1>4, <3>1 DEF IndexInv
    <3> QED
      BY <1>4, <3>1, <3>2 DEF MatchesAll
  <2>3. Keep(all, MatchesAll) = Keep(all, M)
    <3> HIDE DEF all, M
    <3> QED
      BY <1>1, <2>2, KeepSame
  <2> QED
    BY <1>1, <2>1, <2>3
<1> QED
  BY <1>2, <1>3, <1>4

LEMMA AllFrom ==
    ASSUME NEW n \in Names, chains[n] \in Seq(Clauses), NEW ts
    PROVE  AliveFrom(n, 1, ts) = Keep(chains[n], {c \in Clauses : isAlive(c, ts)})
<1>1. SubSeq(chains[n], 1, Len(chains[n])) = chains[n]
  BY SubSeqFull
<1> QED
  BY <1>1 DEF AliveFrom

\* The clauses alive of the chain looked up are those that match of the clauses
\* alive.
LEMMA MatchingRight ==
    ASSUME IInv, IndexInv, NEW k \in Args
    PROVE  View!Matching(k) = AliveFrom(lookUpClauseChain(k), 1, stamp)
<1> DEFINE all == chains["all"]
           M == {c \in Clauses : k = "var" \/ key[c] \in {k, "var"}}
           A == {c \in Clauses : isAlive(c, stamp)}
           n == lookUpClauseChain(k)
<1>1. all \in Seq(Clauses) /\ entries \subseteq Keys /\ chains \in [Names -> Seq(Clauses)]
  BY NamesApart DEF IInv, TypeOK
<1>2. n \in Names /\ chains[n] = Keep(all, M)
  BY <1>1, LookUpType, LookUpRight
<1>3. AliveFrom(n, 1, stamp) = Keep(chains[n], A)
  BY <1>1, <1>2, AllFrom
<1>4. AliveFrom("all", 1, stamp) = Keep(all, A)
  BY <1>1, NamesApart, AllFrom
<1>5. View!Matching(k) = Keep(AliveFrom("all", 1, stamp), M)
  BY ViewKeep DEF View!Matching
<1> HIDE DEF all, M, A, n
<1>6. Keep(Keep(all, A), M) = Keep(all, A \intersect M) /\ Keep(Keep(all, M), A) = Keep(all, M \intersect A)
  BY <1>1, KeepKeep
<1>7. A \intersect M = M \intersect A
  OBVIOUS
<1>8. View!Matching(k) = AliveFrom(n, 1, stamp)
  BY <1>2, <1>3, <1>4, <1>5, <1>6, <1>7, Zenon
<1> QED
  BY <1>8 DEF n

\* The clauses that are alive for a use after a step.
StillAlive(u) == {x \in Clauses : created'[x] <= time[u] /\ time[u] < deleted'[x]}

\* The chain of a use has moved by d, and what is alive behind each of its clauses
\* is the same as before.
Shifted(u, d) ==
    LET t == chains'[chain[u]]
    IN \A j \in 1 .. Len(chains[chain[u]]) + 1 :
          /\ j \in DOMAIN chains[chain[u]] => j + d \in DOMAIN t /\ t[j + d] = chains[chain[u]][j]
          /\ Keep(SubSeq(t, j + d, Len(t)), StillAlive(u)) = AliveFrom(chain[u], j, time[u])

Behind(u, c) ==
    LET t == chains'[chain[u]]
    IN /\ t \in Seq(Clauses) /\ Distinct(t)
       /\ \A j \in DOMAIN t :
             t[j] # c => \E i \in DOMAIN chains[chain[u]] : t[j] = chains[chain[u]][i]
       /\ \A x \in Linked(chain[u]) : x # c /\ created'[x] = created[x] /\ deleted'[x] = deleted[x]
       /\ created'[c] > time[u]

\* What an assert leaves of the chain of a use that holds a reference.
LEMMA AssertBehind ==
    ASSUME IInv, IndexInv, ViewInv, NEW c \in Clauses, NEW k \in Args, NEW asserta \in BOOLEAN,
           AssertClause(c, k, asserta), NEW u \in Uses, held[u]
    PROVE  Behind(u, c) /\ \E d \in {0, 1} : Shifted(u, d)
<1> DEFINE n == chain[u]
           ts == time[u]
           s == chains[n]
           t == chains'[n]
           W == StillAlive(u)
           V == {x \in Clauses : isAlive(x, ts)}
<1>1. /\ n \in Names /\ s \in Seq(Clauses) /\ Linked(n) \subseteq Linked("all") /\ Linked(n) \subseteq Clauses
      /\ cur[u] \in Linked(n)
  <2>1. n \in Names /\ cur[u] \in Linked(n)
    BY DEF IInv, UsesOK, UseOK
  <2>2. s \in Seq(Clauses) /\ Linked(n) \subseteq Linked("all")
    BY <2>1 DEF IInv, TypeOK, Contained
  <2>3. \A i \in DOMAIN s : s[i] \in Clauses
    BY <2>2
  <2> QED
    BY <2>1, <2>2, <2>3 DEF Linked
<1>2. /\ c \notin Linked("all") /\ stamp \in Nat /\ ts \in Nat /\ ts <= stamp
      /\ created \in [Clauses -> Nat] /\ deleted \in [Clauses -> Nat]
      /\ created' = [created EXCEPT ![c] = stamp + 1] /\ deleted' = [deleted EXCEPT ![c] = Never]
  BY DynamicAssumption DEF IInv, TypeOK, ViewInv, AssertClause, Never
<1>3. \A x \in Linked(n) : x # c /\ created'[x] = created[x] /\ deleted'[x] = deleted[x]
  BY <1>1, <1>2
<1>4. created'[c] > ts /\ c \notin W
  BY <1>2 DEF StillAlive
<1>5. \A j \in DOMAIN s : (s[j] \in V) <=> (s[j] \in W)
  <2> SUFFICES ASSUME NEW j \in DOMAIN s PROVE (s[j] \in V) <=> (s[j] \in W)
    OBVIOUS
  <2>1. s[j] \in Linked(n) /\ s[j] \in Clauses
    BY <1>1 DEF Linked
  <2> QED
    BY <1>3, <2>1 DEF isAlive, StillAlive
<1>6. \A j \in Nat \ {0} : Keep(SubSeq(s, j, Len(s)), W) = AliveFrom(n, j, ts)
  <2>1. \A j \in Nat \ {0} : AliveFrom(n, j, ts) = Keep(SubSeq(s, j, Len(s)), V)
    BY DEF AliveFrom
  <2> HIDE DEF s, V, W
  <2>2. \A j \in Nat \ {0} : Keep(SubSeq(s, j, Len(s)), V) = Keep(SubSeq(s, j, Len(s)), W)
    BY <1>1, <1>5, SameAlive
  <2> QED
    BY <2>1, <2>2
<1>7. t = s \/ t = AddToChain(s, c, asserta)
  <2>1. s # <<>>
    BY <1>1 DEF Linked
  <2>2. n \in Keys => copyVarClauses(n) = s
    BY <2>1 DEF copyVarClauses
  <2>3. chains' = [m \in Names |->
                    IF m \notin Receivers(k) THEN chains[m]
                    ELSE AddToChain(IF m \in Keys THEN copyVarClauses(m) ELSE chains[m], c, asserta)]
    BY DEF AssertClause
  <2> QED
    BY <1>1, <2>2, <2>3
<1>8. \E d \in {0, 1} : \A j \in 1 .. Len(s) + 1 :
         /\ j \in DOMAIN s => j + d \in DOMAIN t /\ t[j + d] = s[j]
         /\ Keep(SubSeq(t, j + d, Len(t)), W) = Keep(SubSeq(s, j, Len(s)), W)
  <2> HIDE DEF s, t, W
  <2>1. CASE t = s
    <3>1. Len(s) \in Nat /\ \A j \in 1 .. Len(s) + 1 : j + 0 = j
      BY <1>1
    <3> QED
      BY <2>1, <3>1
  <2>2. CASE t = AddToChain(s, c, asserta)
    BY <1>1, <1>4, <2>2, AddBehind
  <2> QED
    BY <1>7, <2>1, <2>2
<1>9. \A j \in 1 .. Len(s) + 1 : j \in Nat \ {0}
  BY <1>1
<1>10. \E d \in {0, 1} : Shifted(u, d)
  <2>1. PICK d \in {0, 1} : \A j \in 1 .. Len(s) + 1 :
         /\ j \in DOMAIN s => j + d \in DOMAIN t /\ t[j + d] = s[j]
         /\ Keep(SubSeq(t, j + d, Len(t)), W) = Keep(SubSeq(s, j, Len(s)), W)
    BY <1>8
  <2> HIDE DEF s, t, W, n, ts
  <2>2. ASSUME NEW j \in 1 .. Len(s) + 1
        PROVE  /\ j \in DOMAIN s => j + d \in DOMAIN t /\ t[j + d] = s[j]
               /\ Keep(SubSeq(t, j + d, Len(t)), W) = AliveFrom(n, j, ts)
    BY <1>6, <1>9, <2>1, Zenon
  <2>3. Shifted(u, d)
    BY <2>2 DEF Shifted, s, t, W, n, ts
  <2> QED
    BY <2>3
<1>11. t \in Seq(Clauses) /\ Distinct(t)
       /\ \A j \in DOMAIN t : t[j] # c => \E i \in DOMAIN s : t[j] = s[i]
  <2>1. Distinct(s) /\ \A i \in DOMAIN s : s[i] # c
    BY <1>1, <1>2, ChainsDistinct DEF ViewInv, Linked
  <2> HIDE DEF s, t
  <2>2. CASE t = s
    BY <1>1, <2>1, <2>2
  <2>3. CASE t = AddToChain(s, c, asserta)
    <3> DEFINE a == AddToChain(s, c, asserta)
    <3>0. a \in Seq(Clauses) /\ {a[i] : i \in DOMAIN a} = {s[i] : i \in DOMAIN s} \union {c}
      BY <1>1, AddToChainProperty
    <3> HIDE DEF a
    <3>1. t = a
      BY <2>3 DEF a
    <3>2. Distinct(t)
      BY <1>1, <2>1, <2>3, AddDistinct
    <3> QED
      BY <3>0, <3>1, <3>2
  <2> QED
    BY <1>7, <2>2, <2>3
<1> QED
  BY <1>3, <1>4, <1>10, <1>11 DEF Behind

\* A retract that is left alone, with its chain and the clauses, is still in order.
LEMMA RetractorKept ==
    ASSUME NEW v \in Uses, RetractorOK(v), chains' = chains, created' = created, deleted' = deleted,
           role'[v] = role[v], chain'[v] = chain[v], cur'[v] = cur[v], time'[v] = time[v]
    PROVE  RetractorOK(v)'
BY DEF RetractorOK, isAlive

\* A change of the registers of u.
LEMMA ViewInvUse ==
    ASSUME IInv, ViewInv, NEW u \in Uses,
           chains' = chains, stamp' = stamp, created' = created, deleted' = deleted,
           \A v \in Uses \ {u} : /\ role'[v] = role[v] /\ chain'[v] = chain[v] /\ time'[v] = time[v]
                                 /\ cur'[v] = cur[v] /\ next'[v] = next[v],
           time'[u] <= stamp,
           role'[u] = "goal" /\ next'[u] # NULL => isAlive(next'[u], time'[u]),
           role'[u] \in {"retract", "retracted"} => RetractorOK(u)'
    PROVE  ViewInv'
<1>1. Distinct(chains["all"])' /\ \A c \in Linked("all")' : created'[c] <= stamp'
  BY DEF ViewInv, Linked
<1>2. \A v \in Uses : time'[v] <= stamp'
  BY DEF ViewInv
<1>3. ASSUME NEW v \in Uses, role'[v] = "goal" /\ next'[v] # NULL PROVE isAlive(next[v], time[v])'
  BY <1>3 DEF ViewInv, isAlive
<1>4. ASSUME NEW v \in Uses, role'[v] \in {"retract", "retracted"} PROVE RetractorOK(v)'
  BY <1>4, RetractorKept DEF ViewInv
<1> QED
  BY <1>1, <1>2, <1>3, <1>4 DEF ViewInv

LEMMA ViewInvAssert ==
    ASSUME IInv, IndexInv, ViewInv, NEW c \in Clauses, NEW k \in Args, NEW asserta \in BOOLEAN,
           AssertClause(c, k, asserta)
    PROVE  ViewInv'
<1>0. /\ c \notin Linked("all") /\ stamp \in Nat /\ time \in [Uses -> Nat]
      /\ created \in [Clauses -> Nat] /\ deleted \in [Clauses -> Nat]
      /\ created' = [created EXCEPT ![c] = stamp + 1] /\ deleted' = [deleted EXCEPT ![c] = Never]
      /\ stamp' = stamp + 1 /\ UNCHANGED useVars
      /\ "all" \in Names /\ chains["all"] \in Seq(Clauses) /\ Linked("all") \subseteq Clauses
  BY DynamicAssumption, NamesApart, ElementOfSeq DEF IInv, TypeOK, AssertClause, Never, Linked
<1>1. Distinct(chains["all"])'
  <2>1. chains'["all"] = AddToChain(chains["all"], c, asserta)
    BY NamesApart DEF AssertClause, Receivers
  <2>2. \A i \in DOMAIN chains["all"] : chains["all"][i] # c
    BY <1>0 DEF Linked
  <2> QED
    BY <1>0, <2>1, <2>2, AddDistinct DEF ViewInv
<1>2. \A x \in Linked("all")' : created'[x] <= stamp'
  <2>1. Linked("all")' = Linked("all") \union {c}
    BY AssertChains
  <2>2. \A x \in Linked("all") : created[x] <= stamp /\ created[x] \in Nat /\ created'[x] = created[x]
    BY <1>0 DEF ViewInv
  <2> QED
    BY <1>0, <2>1, <2>2
<1>3. \A v \in Uses : time'[v] <= stamp'
  BY <1>0 DEF ViewInv, useVars
<1>4. ASSUME NEW v \in Uses, role'[v] = "goal" /\ next'[v] # NULL PROVE isAlive(next[v], time[v])'
  <2>1. held[v] /\ role[v] = "goal" /\ next[v] # NULL /\ next[v] \in Linked(chain[v])
    BY <1>0, <1>4 DEF IInv, UsesOK, UseOK, useVars, Roles
  <2>2. created'[next[v]] = created[next[v]] /\ deleted'[next[v]] = deleted[next[v]]
    BY <2>1, AssertBehind DEF Behind
  <2> QED
    BY <1>0, <2>1, <2>2 DEF ViewInv, isAlive, useVars
<1>5. ASSUME NEW v \in Uses, role'[v] \in {"retract", "retracted"} PROVE RetractorOK(v)'
  <2>1. /\ held[v] /\ role[v] \in {"retract", "retracted"} /\ RetractorOK(v)
        /\ chain[v] \in Names /\ cur[v] \in Linked(chain[v])
    BY <1>0, <1>5 DEF IInv, UsesOK, UseOK, useVars, Roles, ViewInv
  <2> DEFINE s == chains[chain[v]]
             t == chains'[chain[v]]
             stillAlive(x) == created'[x] <= time[v] /\ time[v] < deleted'[x]
  <2>0. Behind(v, c) /\ \E d \in {0, 1} : Shifted(v, d)
    BY <2>1, AssertBehind, Zenon
  <2>2. /\ t \in Seq(Clauses) /\ Distinct(t)
        /\ \A j \in DOMAIN t : t[j] # c => \E i \in DOMAIN s : t[j] = s[i]
        /\ \A x \in Linked(chain[v]) : x # c /\ created'[x] = created[x] /\ deleted'[x] = deleted[x]
        /\ created'[c] > time[v]
    BY <2>0 DEF Behind
  <2>3. PICK d \in {0, 1} : Shifted(v, d)
    BY <2>0
  <2>4. s \in Seq(Clauses) /\ DOMAIN s = 1 .. Len(s) /\ Len(s) \in Nat
    BY <2>1 DEF IInv, TypeOK
  <2>5. \A j \in DOMAIN s : j + d \in DOMAIN t /\ t[j + d] = s[j] /\ s[j] \in Linked(chain[v])
    <3>1. \A j \in DOMAIN s : j \in 1 .. Len(s) + 1
      BY <2>4
    <3>2. \A j \in 1 .. Len(s) + 1 : j \in DOMAIN s => j + d \in DOMAIN t /\ t[j + d] = s[j]
      BY <2>3, Zenon DEF Shifted
    <3>3. \A j \in DOMAIN s : s[j] \in Linked(chain[v])
      BY DEF Linked
    <3> QED
      BY <3>1, <3>2, <3>3, Zenon
  <2>6. ASSUME NEW i \in DOMAIN t, NEW j \in DOMAIN t, t[i] = cur[v], i < j, stillAlive(t[j])
        PROVE  deleted'[t[j]] = Never
    <3>1. created'[t[j]] <= time[v]
      BY <2>6
    <3>2. t[j] # c
      BY <1>0, <2>2, <3>1
    <3>3. t[i] # c
      BY <2>1, <2>2, <2>6
    <3>4. PICK a \in DOMAIN s : t[i] = s[a]
      BY <2>2, <3>3
    <3>5. PICK b \in DOMAIN s : t[j] = s[b]
      BY <2>2, <3>2
    <3>6. i = a + d /\ j = b + d
      BY <2>2, <2>5, <3>4, <3>5 DEF Distinct
    <3>7. a < b
      BY <2>4, <2>6, <3>6
    <3>8. isAlive(s[b], time[v])
      BY <2>2, <2>5, <2>6, <3>5 DEF isAlive
    <3>9. deleted[s[b]] = Never
      BY <2>1, <2>6, <3>4, <3>7, <3>8 DEF RetractorOK
    <3> QED
      BY <2>2, <2>5, <3>5, <3>9
  <2>7. role'[v] = "retract" => deleted'[cur'[v]] = Never
    BY <1>0, <2>1, <2>2 DEF RetractorOK, useVars
  <2>8. chain'[v] = chain[v] /\ cur'[v] = cur[v] /\ time'[v] = time[v]
    BY <1>0 DEF useVars
  <2>9. \A i, j \in DOMAIN t : (t[i] = cur[v] /\ i < j /\ stillAlive(t[j])) => deleted'[t[j]] = Never
    BY <2>6
  <2> QED
    BY <2>1, <2>7, <2>8, <2>9 DEF RetractorOK, isAlive, Never
<1> QED
  BY <1>1, <1>2, <1>3, <1>4, <1>5 DEF ViewInv

\* What a use knows of its chain.
LEMMA UseChain ==
    ASSUME IInv, IndexInv, ViewInv, NEW u \in Uses, held[u]
    PROVE  /\ chain[u] \in Names /\ chains[chain[u]] \in Seq(Clauses) /\ Distinct(chains[chain[u]])
           /\ cur[u] \in Linked(chain[u]) /\ (next[u] # NULL => next[u] \in Linked(chain[u]))
           /\ Linked(chain[u]) \subseteq Linked("all") /\ Linked(chain[u]) \subseteq Clauses
<1>1. /\ chain[u] \in Names /\ cur[u] \in Linked(chain[u])
      /\ (next[u] # NULL => next[u] \in Linked(chain[u]))
  BY DEF IInv, UsesOK, UseOK
<1>2. chains[chain[u]] \in Seq(Clauses) /\ Linked(chain[u]) \subseteq Linked("all")
  BY <1>1 DEF IInv, TypeOK, Contained
<1>3. \A i \in DOMAIN chains[chain[u]] : chains[chain[u]][i] \in Clauses
  BY <1>2
<1>4. Distinct(chains[chain[u]])
  BY <1>1, ChainsDistinct DEF ViewInv
<1> QED
  BY <1>1, <1>2, <1>3, <1>4 DEF Linked

\* A use that begins.
LEMMA ViewInvEnter ==
    ASSUME IInv, IndexInv, ViewInv, Remembered, NEW u \in Uses, NEW k \in Args,
           BeginGoal(u, k) \/ BeginClause(u, k)
    PROVE  ViewInv'
<1> DEFINE n == lookUpClauseChain(k)
           c == nextAlive(n, stamp)
           d == nextNextAlive(n, c, stamp)
<1>1. /\ n \in Names /\ chains[n] \in Seq(Clauses) /\ Distinct(chains[n])
      /\ stamp \in Nat /\ deleted \in [Clauses -> Nat] /\ Linked(n) \subseteq Clauses
      /\ role \in [Uses -> Roles \union {NULL}] /\ NULL \notin Roles
  <2>1. n \in Names
    BY LookUpType DEF IInv, TypeOK
  <2>2. chains[n] \in Seq(Clauses) /\ Distinct(chains[n])
    BY <2>1, ChainsDistinct DEF IInv, TypeOK, ViewInv
  <2>3. \A i \in DOMAIN chains[n] : chains[n][i] \in Clauses
    BY <2>2
  <2> QED
    BY <2>1, <2>2, <2>3, DynamicAssumption DEF IInv, TypeOK, Linked, Never
<1>2. PICK r \in {"goal", "clause", "retract"} :
         /\ Enter(u, r, n, c) /\ (r = "retract" => u \in Retractors)
         /\ (r = "goal" => next' = [next EXCEPT ![u] = d])
         /\ (r # "goal" => next' = next)
  BY DEF BeginGoal, BeginClause
<1>3. /\ c # NULL
      /\ chains' = chains /\ stamp' = stamp /\ created' = created /\ deleted' = deleted
      /\ role' = [role EXCEPT ![u] = r] /\ chain' = [chain EXCEPT ![u] = n]
      /\ time' = [time EXCEPT ![u] = stamp] /\ cur' = [cur EXCEPT ![u] = c]
  BY <1>2 DEF Enter, aquire, blockVars
<1>4. role'[u] = r /\ chain'[u] = n /\ time'[u] = stamp /\ cur'[u] = c
  BY <1>3 DEF IInv, TypeOK
<1>5. \A v \in Uses \ {u} : /\ role'[v] = role[v] /\ chain'[v] = chain[v] /\ time'[v] = time[v]
                            /\ cur'[v] = cur[v] /\ next'[v] = next[v]
  BY <1>2, <1>3 DEF IInv, TypeOK
<1>6. c \in Linked(n) /\ isAlive(c, stamp)
  <2> DEFINE f == FirstAlive(n, 1, stamp)
  <2>1. f # NULL => f \in Linked(n) /\ isAlive(f, stamp)
    BY <1>1, FirstAliveFrom
  <2> QED
    BY <1>3, <2>1 DEF nextAlive
<1>7. r = "goal" /\ next'[u] # NULL => isAlive(next'[u], stamp)
  <2> HIDE DEF c, n
  <2>1. Position(n, c) + 1 \in Nat \ {0}
    BY <1>1, <1>6, PositionProperty
  <2>2. d # NULL => isAlive(d, stamp)
    BY <1>1, <2>1, FirstAliveFrom DEF nextNextAlive
  <2>3. r = "goal" => next'[u] = d
    BY <1>2 DEF IInv, TypeOK
  <2> QED
    BY <2>2, <2>3
<1>8. \A x \in Linked(n) : isAlive(x, stamp) => deleted[x] = Never
  BY <1>1 DEF Remembered, isAlive
<1>9. r = "retract" => RetractorOK(u)'
  <2> HIDE DEF c, n
  <2>1. r = "retract" => u \in Retractors
    BY <1>2
  <2>2. deleted'[cur'[u]] = Never
    BY <1>3, <1>4, <1>6, <1>8
  <2>3. \A j \in DOMAIN chains[n] : chains[n][j] \in Linked(n)
    BY DEF Linked
  <2>4. \A j \in DOMAIN chains'[chain'[u]] :
           isAlive(chains[n][j], time'[u]) => deleted'[chains'[chain'[u]][j]] = Never
    BY <1>3, <1>4, <1>8, <2>3
  <2>5. \A j \in DOMAIN chains'[chain'[u]] :
           (created'[chains'[chain'[u]][j]] <= time'[u] /\ time'[u] < deleted'[chains'[chain'[u]][j]])
              => deleted'[chains'[chain'[u]][j]] = Never
    BY <1>3, <1>4, <2>4 DEF isAlive
  <2> QED
    BY <2>1, <2>2, <2>5 DEF RetractorOK, isAlive, Never
<1> HIDE DEF c, n, d
<1>10. role'[u] \in {"retract", "retracted"} => RetractorOK(u)'
  BY <1>4, <1>9
<1>11. time'[u] <= stamp
  BY <1>1, <1>4
<1>12. role'[u] = "goal" /\ next'[u] # NULL => isAlive(next'[u], time'[u])
  BY <1>4, <1>7
<1> QED
  BY <1>3, <1>5, <1>10, <1>11, <1>12, ViewInvUse

\* The chains after a collection, and a use that is over.
LEMMA ViewInvRelease ==
    ASSUME IInv, ViewInv, NEW u \in Uses, held[u], Forget(u), release,
           \A v \in Uses \ {u} : cur'[v] = cur[v]
    PROVE  ViewInv'
<1>0. "all" \in Names /\ chains["all"] \in Seq(Clauses) /\ stamp \in Nat
  BY NamesApart DEF IInv, TypeOK
<1>1. refcount = 1 => \A v \in Uses : ~held'[v]
  BY CountDown DEF Forget, release
<1>2. UNCHANGED <<stamp, key, created, deleted>>
      /\ chains' = (IF MayCollect THEN gcPredicate(stamp) ELSE chains)
  BY DEF release, blockVars
<1>3. Distinct(chains["all"])'
  <2>1. gcPredicate(stamp)["all"] = Keep(chains["all"], {c \in Clauses : ~toDelete(c, stamp)})
    BY <1>0 DEF gcPredicate, gcChain
  <2>2. Distinct(gcPredicate(stamp)["all"])
    BY <1>0, <2>1, KeepDistinct DEF ViewInv
  <2> QED
    BY <1>2, <2>2 DEF ViewInv
<1>4. \A c \in Linked("all")' : created'[c] <= stamp'
  <2>1. Linked("all")' \subseteq Linked("all")
    BY <1>0, <1>2, ReleaseChains DEF Linked
  <2> QED
    BY <1>2, <2>1 DEF ViewInv
<1>5. \A v \in Uses : v # u => /\ role'[v] = role[v] /\ chain'[v] = chain[v] /\ time'[v] = time[v]
                               /\ next'[v] = next[v] /\ held'[v] = held[v]
  BY DEF Forget, IInv, TypeOK
<1>6. role'[u] = NULL /\ time'[u] = 0 /\ NULL \notin Roles
  BY DynamicAssumption DEF Forget, IInv, TypeOK
<1>7. \A v \in Uses : time'[v] <= stamp'
  BY <1>0, <1>2, <1>5, <1>6 DEF ViewInv
<1>8. ASSUME NEW v \in Uses, role'[v] = "goal" /\ next'[v] # NULL PROVE isAlive(next[v], time[v])'
  BY <1>2, <1>5, <1>6, <1>8 DEF ViewInv, isAlive, Roles
<1>9. ASSUME NEW v \in Uses, role'[v] \in {"retract", "retracted"} PROVE RetractorOK(v)'
  <2>1. v # u
    BY <1>6, <1>9 DEF Roles
  <2>2. held[v] /\ held'[v] /\ RetractorOK(v)
    BY <1>5, <1>9, <2>1 DEF IInv, UsesOK, UseOK, ViewInv, Roles
  <2>3. chains' = chains
    BY <1>1, <1>2, <2>2 DEF MayCollect
  <2> QED
    BY <1>2, <1>5, <2>1, <2>2, <2>3, RetractorKept
<1> QED
  BY <1>3, <1>4, <1>7, <1>8, <1>9 DEF ViewInv

\* Where a use goes on from a clause c of its chain.
LEMMA NextRight ==
    ASSUME NEW n \in Names, chains[n] \in Seq(Clauses), Distinct(chains[n]), NEW c \in Linked(n), NEW ts,
           nextNextAlive(n, c, ts) # NULL
    PROVE  /\ nextNextAlive(n, c, ts) \in Linked(n) /\ isAlive(nextNextAlive(n, c, ts), ts)
           /\ Position(n, c) \in DOMAIN chains[n] /\ chains[n][Position(n, c)] = c
           /\ Position(n, c) < Position(n, nextNextAlive(n, c, ts))
<1>1. \E i \in DOMAIN chains[n] : chains[n][i] = c
  BY DEF Linked
<1>2. Position(n, c) \in DOMAIN chains[n] /\ chains[n][Position(n, c)] = c
  BY <1>1 DEF Position
<1>3. Position(n, c) + 1 \in Nat \ {0}
  BY <1>2
<1> DEFINE f == FirstAlive(n, Position(n, c) + 1, ts)
<1>4. f # NULL => f \in Linked(n) /\ isAlive(f, ts) /\ Position(n, c) + 1 <= Position(n, f)
  BY <1>3, FirstAliveFrom
<1>5. nextNextAlive(n, c, ts) = f
  BY DEF nextNextAlive
<1> HIDE DEF f
<1>6. f \in Linked(n) /\ isAlive(f, ts) /\ Position(n, c) + 1 <= Position(n, f)
  BY <1>4, <1>5
<1>7. Position(n, f) \in Nat
  BY <1>6, PositionProperty
<1> QED
  BY <1>2, <1>5, <1>6, <1>7

LEMMA ViewInvBacktrack ==
    ASSUME IInv, IndexInv, ViewInv, NEW u \in Uses, DBBacktrack(u)
    PROVE  ViewInv'
<1>1. /\ held[u] /\ role[u] = "goal" /\ next[u] # NULL
      /\ UNCHANGED <<predVars, blockVars, role, chain, time, held>>
      /\ next'[u] = nextNextAlive(chain[u], next[u], time[u])
      /\ \A v \in Uses \ {u} : cur'[v] = cur[v] /\ next'[v] = next[v]
  BY DEF DBBacktrack, IInv, TypeOK
<1>2. next'[u] # NULL => isAlive(next'[u], time[u])
  BY <1>1, UseChain, NextRight
<1>3. chains' = chains /\ stamp' = stamp /\ created' = created /\ deleted' = deleted
      /\ role' = role /\ chain' = chain /\ time' = time
  BY <1>1 DEF predVars, blockVars
<1>4. time'[u] <= stamp
  BY <1>3 DEF ViewInv
<1>5. ~(role'[u] \in {"retract", "retracted"})
  BY <1>1, <1>3
<1> QED
  BY <1>1, <1>2, <1>3, <1>4, <1>5, ViewInvUse

LEMMA ViewInvNext ==
    ASSUME IInv, IndexInv, ViewInv, NEW u \in Uses, NextClause(u)
    PROVE  ViewInv'
<1> DEFINE n == chain[u]
           s == chains[n]
           c == nextNextAlive(n, cur[u], time[u])
<1>1. /\ role[u] \in {"clause", "retract", "retracted"} /\ c # NULL
      /\ cur' = [cur EXCEPT ![u] = c] /\ role' = [role EXCEPT ![u] = IF @ = "retracted" THEN "retract" ELSE @]
      /\ UNCHANGED <<predVars, blockVars, chain, time, next, held>>
  BY DEF NextClause
<1>2. held[u]
  BY <1>1 DEF IInv, UsesOK, UseOK, Roles
<1>3. chains' = chains /\ stamp' = stamp /\ created' = created /\ deleted' = deleted
      /\ chain' = chain /\ time' = time /\ next' = next
  BY <1>1 DEF predVars, blockVars
<1>4. /\ cur'[u] = c /\ role'[u] = (IF role[u] = "retracted" THEN "retract" ELSE role[u])
      /\ \A v \in Uses \ {u} : cur'[v] = cur[v] /\ role'[v] = role[v]
  BY <1>1 DEF IInv, TypeOK
<1>5. n \in Names /\ s \in Seq(Clauses) /\ Distinct(s) /\ cur[u] \in Linked(n)
  BY <1>2, UseChain
<1>6. /\ c \in Linked(n) /\ isAlive(c, time[u])
      /\ Position(n, cur[u]) \in DOMAIN s /\ s[Position(n, cur[u])] = cur[u]
      /\ Position(n, cur[u]) < Position(n, c)
  BY <1>1, <1>5, NextRight
<1>7. ASSUME role'[u] \in {"retract", "retracted"} PROVE RetractorOK(u)'
  <2>1. role[u] \in {"retract", "retracted"} /\ RetractorOK(u)
    BY <1>1, <1>4, <1>7 DEF ViewInv
  <2> DEFINE p == Position(n, cur[u])
  <2>2. \A j \in DOMAIN s : p < j /\ isAlive(s[j], time[u]) => deleted[s[j]] = Never
    BY <1>6, <2>1 DEF RetractorOK
  <2>3. \A i \in DOMAIN s : s[i] = c => i = Position(n, c)
    BY <1>5, PositionIs
  <2>4. DOMAIN s \subseteq Nat
    BY <1>5
  <2> HIDE DEF c, s
  <2>5. \E i \in DOMAIN s : s[i] = c
    BY <1>6 DEF Linked, s
  <2>6. deleted[c] = Never
    BY <1>6, <2>2, <2>3, <2>5
  <2>7. \A i, j \in DOMAIN s : (s[i] = c /\ i < j /\ isAlive(s[j], time[u])) => deleted[s[j]] = Never
    <3> SUFFICES ASSUME NEW i \in DOMAIN s, NEW j \in DOMAIN s, s[i] = c, i < j, isAlive(s[j], time[u])
                 PROVE  deleted[s[j]] = Never
      OBVIOUS
    <3>1. p < i
      BY <1>6, <2>3
    <3>2. p < j
      BY <1>6, <2>4, <3>1
    <3> QED
      BY <2>2, <3>2
  <2> QED
    BY <1>3, <1>4, <2>1, <2>6, <2>7 DEF RetractorOK, isAlive, Never, s
<1>8. time'[u] <= stamp
  BY <1>3 DEF ViewInv
<1>9. role'[u] # "goal"
  BY <1>1, <1>4
<1> HIDE DEF c, s
<1> QED
  BY <1>3, <1>4, <1>7, <1>8, <1>9, ViewInvUse

LEMMA ViewInvRetract ==
    ASSUME OneRetractor, IInv, IndexInv, ViewInv, NEW u \in Uses, Retract(u)
    PROVE  ViewInv'
<1>1. /\ stamp' = stamp + 1 /\ role[u] = "retract"
      /\ deleted' = [deleted EXCEPT ![cur[u]] = stamp + 1]
      /\ role' = [role EXCEPT ![u] = "retracted"]
      /\ UNCHANGED <<chains, created, chain, time, cur, next, held>>
  BY DEF Retract
<1>2. held[u] /\ RetractorOK(u)
  BY <1>1 DEF IInv, UsesOK, UseOK, ViewInv, Roles
<1>3. /\ chain[u] \in Names /\ chains[chain[u]] \in Seq(Clauses) /\ Distinct(chains[chain[u]])
      /\ cur[u] \in Clauses
  BY <1>2, UseChain
<1>4. /\ stamp \in Nat /\ created \in [Clauses -> Nat] /\ deleted \in [Clauses -> Nat]
      /\ time \in [Uses -> Nat] /\ Linked("all") \subseteq Clauses /\ role \in [Uses -> Roles \union {NULL}]
  BY DynamicAssumption, NamesApart, ElementOfSeq DEF IInv, TypeOK, Never, Linked
<1>5. deleted'[cur[u]] = stamp + 1 /\ \A x \in Clauses : x # cur[u] => deleted'[x] = deleted[x]
  BY <1>1, <1>3, <1>4
<1>6. Distinct(chains["all"])' /\ \A c \in Linked("all")' : created'[c] <= stamp'
  BY <1>1, <1>4 DEF ViewInv, Linked
<1>7. \A v \in Uses : time'[v] <= stamp'
  BY <1>1, <1>4 DEF ViewInv
<1>8. ASSUME NEW v \in Uses, role'[v] = "goal" /\ next'[v] # NULL PROVE isAlive(next[v], time[v])'
  <2>1. role[v] = "goal" /\ next[v] # NULL /\ isAlive(next[v], time[v]) /\ next[v] \in Clauses
    BY <1>1, <1>4, <1>8 DEF ViewInv, IInv, TypeOK
  <2>2. time[v] < deleted'[next[v]]
    BY <1>4, <1>5, <2>1 DEF isAlive, ViewInv
  <2> QED
    BY <1>1, <2>1, <2>2 DEF isAlive
<1>9. ASSUME NEW v \in Uses, role'[v] \in {"retract", "retracted"} PROVE RetractorOK(v)'
  <2>1. v = u
    BY <1>1, <1>2, <1>4, <1>9 DEF ViewInv, RetractorOK, OneRetractor
  <2>2. role'[u] = "retracted"
    BY <1>1, <1>4
  <2> DEFINE s == chains[chain[u]]
  <2>3. \A i, j \in DOMAIN s : (s[i] = cur[u] /\ i < j) => s[j] # cur[u] /\ s[j] \in Clauses
    BY <1>3 DEF Distinct
  <2>4. \A i, j \in DOMAIN s : (s[i] = cur[u] /\ i < j /\ created[s[j]] <= time[u] /\ time[u] < deleted'[s[j]])
                                  => deleted'[s[j]] = Never
    BY <1>2, <1>5, <2>3 DEF RetractorOK, isAlive
  <2> QED
    BY <1>1, <1>2, <2>1, <2>2, <2>4 DEF RetractorOK, isAlive, Never
<1> QED
  BY <1>6, <1>7, <1>8, <1>9 DEF ViewInv

LEMMA ViewInvStep ==
    ASSUME OneRetractor, IInv, IndexInv, Remembered, ViewInv, [Next]_vars
    PROVE  ViewInv'
<1>1. ASSUME NEW c \in Clauses, NEW k \in Args, NEW asserta \in BOOLEAN, AssertClause(c, k, asserta)
      PROVE  ViewInv'
  BY <1>1, ViewInvAssert
<1>2. ASSUME NEW u \in Uses, NEW k \in Args, BeginGoal(u, k) \/ BeginClause(u, k) PROVE ViewInv'
  BY <1>2, ViewInvEnter
<1>3. ASSUME NEW u \in Uses, DBBacktrack(u) \/ NextClause(u) \/ Retract(u) PROVE ViewInv'
  BY <1>3, ViewInvBacktrack, ViewInvNext, ViewInvRetract
<1>4. ASSUME NEW u \in Uses, End(u) \/ OwnCut(u) PROVE ViewInv'
  <2>1. held[u] /\ Forget(u) /\ release /\ \A v \in Uses \ {u} : cur'[v] = cur[v]
    BY <1>4 DEF End, OwnCut, IInv, TypeOK, UsesOK, UseOK, Roles
  <2> QED
    BY <2>1, ViewInvRelease
<1>5. ASSUME NEW u \in Uses, Proceed(u) PROVE ViewInv'
  <2>1. /\ role[u] = NULL /\ role' = role /\ chain' = chain /\ time' = time /\ next' = next
        /\ chains' = chains /\ stamp' = stamp /\ created' = created /\ deleted' = deleted
        /\ \A v \in Uses \ {u} : cur'[v] = cur[v]
    BY <1>5 DEF Proceed, predVars, blockVars, IInv, TypeOK
  <2>2. role'[u] # "goal" /\ ~(role'[u] \in {"retract", "retracted"}) /\ time'[u] <= stamp
    BY <2>1, DynamicAssumption DEF Roles, ViewInv
  <2> QED
    BY <2>1, <2>2, ViewInvUse
<1>6. ASSUME UNCHANGED vars PROVE ViewInv'
  BY <1>6 DEF vars, predVars, blockVars, useVars, ViewInv, RetractorOK, isAlive, Linked
<1> QED
  BY <1>1, <1>2, <1>3, <1>4, <1>5, <1>6 DEF Next

LEMMA AlwaysView == ASSUME OneRetractor PROVE Spec => [](IInv /\ IndexInv /\ Remembered /\ ViewInv)
<1>1. Init => Remembered
  BY DEF Init, Remembered, Linked, Names
<1>2. Init => ViewInv
  <2> SUFFICES ASSUME Init PROVE ViewInv
    OBVIOUS
  <2>1. chains["all"] = <<>> /\ stamp = 1 /\ \A u \in Uses : time[u] = 0 /\ role[u] = NULL
    BY NamesApart DEF Init
  <2>2. NULL \notin Roles
    BY DynamicAssumption
  <2> QED
    BY <2>1, <2>2 DEF ViewInv, Distinct, Linked, Roles
<1> QED
  BY <1>1, <1>2, Inductive, AlwaysIndexed, RememberedStep, ViewInvStep, PTL DEF Spec

(***************************************************************************)
(* The mapping, step by step.                                              *)
(***************************************************************************)

Db       == AliveFrom("all", 1, stamp)
Given(u) == IF held[u] THEN cur[u] ELSE NULL

\* A clause that is alive is the first of those from where it is.
LEMMA HeadAlive ==
    ASSUME NEW n \in Names, chains[n] \in Seq(Clauses), Distinct(chains[n]), NEW c \in Linked(n), NEW ts,
           isAlive(c, ts)
    PROVE  /\ AliveFrom(n, Position(n, c), ts) # <<>>
           /\ Head(AliveFrom(n, Position(n, c), ts)) = c
           /\ Tail(AliveFrom(n, Position(n, c), ts)) = AliveFrom(n, Position(n, c) + 1, ts)
<1> DEFINE s == chains[n]
           V == {x \in Clauses : isAlive(x, ts)}
           p == Position(n, c)
<1>1. \E i \in DOMAIN s : s[i] = c
  BY DEF Linked
<1>2. p \in DOMAIN s /\ s[p] = c
  BY <1>1 DEF Position
<1>3. p \in Nat \ {0} /\ p \in p .. Len(s) /\ s[p] \in V
  BY <1>2
<1>4. \A k \in p .. p - 1 : s[k] \notin V
  BY <1>3
<1>5. /\ Keep(SubSeq(s, p, Len(s)), V) # <<>>
      /\ Head(Keep(SubSeq(s, p, Len(s)), V)) = s[p]
      /\ Tail(Keep(SubSeq(s, p, Len(s)), V)) = Keep(SubSeq(s, p + 1, Len(s)), V)
  <2>1. s \in Seq(Clauses)
    OBVIOUS
  <2> HIDE DEF s, V, p
  <2> QED
    BY <1>3, <1>4, <2>1, KeepFirst
<1> QED
  BY <1>2, <1>5 DEF AliveFrom

\* The choice point of a goal stands for all that is alive behind its clause.
LEMMA GoalRest ==
    ASSUME NEW n \in Names, chains[n] \in Seq(Clauses), Distinct(chains[n]), NEW c \in Linked(n), NEW ts
    PROVE  AliveFrom(n, Position(n, c) + 1, ts) =
              IF nextNextAlive(n, c, ts) = NULL THEN <<>>
              ELSE AliveFrom(n, Position(n, nextNextAlive(n, c, ts)), ts)
<1> DEFINE i == Position(n, c) + 1
           f == FirstAlive(n, i, ts)
<1>1. i \in Nat \ {0}
  BY PositionProperty
<1>2. f = NULL => AliveFrom(n, i, ts) = <<>>
  <2> HIDE DEF i
  <2> QED
    BY <1>1, FirstAliveFrom
<1>3. f # NULL => AliveFrom(n, Position(n, f), ts) = AliveFrom(n, i, ts)
  <2> HIDE DEF i
  <2> QED
    BY <1>1, FirstAliveFrom
<1>4. nextNextAlive(n, c, ts) = f
  BY DEF nextNextAlive
<1> HIDE DEF f
<1> QED
  BY <1>2, <1>3, <1>4

\* What a use that holds a reference is to be given after a step that does not
\* change the clauses.
LEMMA ToComeAfter ==
    ASSUME NEW u \in Uses, held'[u], chains' = chains, created' = created, deleted' = deleted
    PROVE  ToCome(u)' =
              IF role'[u] # "goal"
              THEN AliveFrom(chain'[u], Position(chain'[u], cur'[u]) + 1, time'[u])
              ELSE IF next'[u] = NULL THEN <<>>
              ELSE AliveFrom(chain'[u], Position(chain'[u], next'[u]), time'[u])
<1>1. CASE role'[u] # "goal"
  <2>1. ToCome(u)' = AliveFrom(chain[u], Position(chain[u], cur[u]) + 1, time[u])'
    BY <1>1 DEF ToCome
  <2> QED
    BY <1>1, <2>1 DEF AliveFrom, Position, isAlive
<1>2. CASE role'[u] = "goal"
  <2>1. ToCome(u)' = IF next'[u] = NULL THEN <<>>
                     ELSE AliveFrom(chain[u], Position(chain[u], next[u]), time[u])'
    BY <1>2 DEF ToCome
  <2> QED
    BY <1>2, <2>1 DEF AliveFrom, Position, isAlive
<1> QED
  BY <1>1, <1>2

\* A use that is left alone is to be given the same.
LEMMA ToComeKept ==
    ASSUME NEW v \in Uses, held'[v] = held[v], held[v] \in BOOLEAN,
           held[v] => /\ chains' = chains /\ created' = created /\ deleted' = deleted
                      /\ (role'[v] = "goal") = (role[v] = "goal")
                      /\ chain'[v] = chain[v] /\ time'[v] = time[v]
                      /\ cur'[v] = cur[v] /\ next'[v] = next[v]
    PROVE  ToCome(v)' = ToCome(v) /\ Given(v)' = Given(v)
<1>1. CASE ~held[v]
  BY <1>1 DEF ToCome, Given
<1>2. CASE held[v]
  <2>1. CASE role[v] # "goal"
    <3>1. ToCome(v) = AliveFrom(chain[v], Position(chain[v], cur[v]) + 1, time[v])
      BY <1>2, <2>1 DEF ToCome
    <3> QED
      BY <1>2, <2>1, <3>1, ToComeAfter DEF Given
  <2>2. CASE role[v] = "goal"
    <3>1. ToCome(v) = IF next[v] = NULL THEN <<>>
                      ELSE AliveFrom(chain[v], Position(chain[v], next[v]), time[v])
      BY <1>2, <2>2 DEF ToCome
    <3> QED
      BY <1>2, <2>2, <3>1, ToComeAfter DEF Given
  <2> QED
    BY <2>1, <2>2
<1> QED
  BY <1>1, <1>2

\* What uses are given and are to be given when only u changes, as functions.
LEMMA OneUse ==
    ASSUME NEW u \in Uses, \A v \in Uses \ {u} : ToCome(v)' = ToCome(v) /\ Given(v)' = Given(v)
    PROVE  /\ [v \in Uses |-> Given(v)]' = [[v \in Uses |-> Given(v)] EXCEPT ![u] = Given(u)']
           /\ [v \in Uses |-> ToCome(v)]' = [[v \in Uses |-> ToCome(v)] EXCEPT ![u] = ToCome(u)']
<1>1. ASSUME NEW v \in Uses
      PROVE  /\ Given(v)' = [[x \in Uses |-> Given(x)] EXCEPT ![u] = Given(u)'][v]
             /\ ToCome(v)' = [[x \in Uses |-> ToCome(x)] EXCEPT ![u] = ToCome(u)'][v]
  <2>1. CASE v = u
    BY <2>1
  <2>2. CASE v # u
    BY <2>2
  <2> QED
    BY <2>1, <2>2
<1> QED
  BY <1>1, Zenon

\* The clauses of the predicate after a step that does not change them.
LEMMA DbKept ==
    ASSUME chains' = chains, created' = created, deleted' = deleted, stamp' = stamp
    PROVE  Db' = Db
BY DEF Db, AliveFrom, isAlive

LEMMA RefineBegin ==
    ASSUME IInv, IndexInv, ViewInv, NEW u \in Uses, NEW k \in Args,
           BeginGoal(u, k) \/ BeginClause(u, k)
    PROVE  View!Begin(u, k)
<1> DEFINE n == lookUpClauseChain(k)
           c == nextAlive(n, stamp)
           d == nextNextAlive(n, c, stamp)
           m == AliveFrom(n, 1, stamp)
<1>1. n \in Names /\ chains[n] \in Seq(Clauses) /\ Distinct(chains[n])
  <2>1. n \in Names
    BY LookUpType DEF IInv, TypeOK
  <2> HIDE DEF n
  <2> QED
    BY <2>1, ChainsDistinct DEF IInv, TypeOK, ViewInv
<1>2. PICK r \in {"goal", "clause", "retract"} :
         /\ Enter(u, r, n, c)
         /\ (r = "goal" => next' = [next EXCEPT ![u] = d])
         /\ (r # "goal" => next' = next)
  BY DEF BeginGoal, BeginClause
<1>3. /\ c # NULL /\ role[u] = NULL /\ cur[u] = NULL
      /\ chains' = chains /\ stamp' = stamp /\ created' = created /\ deleted' = deleted /\ key' = key
      /\ role' = [role EXCEPT ![u] = r] /\ chain' = [chain EXCEPT ![u] = n]
      /\ time' = [time EXCEPT ![u] = stamp] /\ cur' = [cur EXCEPT ![u] = c]
      /\ held' = [held EXCEPT ![u] = TRUE]
  BY <1>2 DEF Enter, aquire, blockVars
<1>4. role'[u] = r /\ chain'[u] = n /\ time'[u] = stamp /\ cur'[u] = c /\ held'[u]
  BY <1>3 DEF IInv, TypeOK
<1>5. \A v \in Uses \ {u} : ToCome(v)' = ToCome(v) /\ Given(v)' = Given(v)
  <2> SUFFICES ASSUME NEW v \in Uses, v # u PROVE ToCome(v)' = ToCome(v) /\ Given(v)' = Given(v)
    OBVIOUS
  <2>1. /\ role'[v] = role[v] /\ chain'[v] = chain[v] /\ time'[v] = time[v]
        /\ cur'[v] = cur[v] /\ next'[v] = next[v] /\ held'[v] = held[v] /\ held[v] \in BOOLEAN
    BY <1>2, <1>3 DEF IInv, TypeOK
  <2> QED
    BY <1>3, <2>1, ToComeKept
<1>6. /\ m # <<>> /\ Head(m) = c /\ Tail(m) = AliveFrom(n, Position(n, c) + 1, stamp)
      /\ c \in Linked(n)
  <2> DEFINE f == FirstAlive(n, 1, stamp)
  <2>1. f # NULL => /\ AliveFrom(n, 1, stamp) # <<>> /\ Head(AliveFrom(n, 1, stamp)) = f
                    /\ Tail(AliveFrom(n, 1, stamp)) = AliveFrom(n, Position(n, f) + 1, stamp)
                    /\ f \in Linked(n)
    BY <1>1, FirstAliveFrom
  <2> QED
    BY <1>3, <2>1 DEF nextAlive
<1>7. ToCome(u)' = Tail(m)
  <2>1. CASE r = "goal"
    <3>1. next'[u] = d
      BY <1>2, <2>1 DEF IInv, TypeOK
    <3>2. ToCome(u)' = IF d = NULL THEN <<>> ELSE AliveFrom(n, Position(n, d), stamp)
      <4> HIDE DEF n, c, d
      <4> QED
        BY <1>3, <1>4, <2>1, <3>1, ToComeAfter
    <3>3. AliveFrom(n, Position(n, c) + 1, stamp) =
             IF d = NULL THEN <<>> ELSE AliveFrom(n, Position(n, d), stamp)
      <4> HIDE DEF n, c
      <4> QED
        BY <1>1, <1>6, GoalRest
    <3> QED
      BY <1>6, <3>2, <3>3
  <2>2. CASE r # "goal"
    <3>1. ToCome(u)' = AliveFrom(n, Position(n, c) + 1, stamp)
      <4> HIDE DEF n, c
      <4> QED
        BY <1>3, <1>4, <2>2, ToComeAfter
    <3> QED
      BY <1>6, <3>1
  <2> QED
    BY <2>1, <2>2
<1>8. Given(u) = NULL /\ Given(u)' = Head(m)
  <2>1. ~held[u]
    BY <1>3, DynamicAssumption DEF IInv, UsesOK, UseOK
  <2> QED
    BY <1>4, <1>6, <2>1 DEF Given
<1>9. /\ [v \in Uses |-> Given(v)]' = [[v \in Uses |-> Given(v)] EXCEPT ![u] = Head(m)]
      /\ [v \in Uses |-> ToCome(v)]' = [[v \in Uses |-> ToCome(v)] EXCEPT ![u] = Tail(m)]
  BY <1>5, <1>7, <1>8, OneUse
<1>10. View!Matching(k) = m
  BY MatchingRight
<1>11. Db' = Db
  BY <1>3, DbKept
<1>12. [v \in Uses |-> Given(v)][u] = NULL
  BY <1>8
<1> HIDE DEF m, n, c, d
<1> QED
  BY <1>3, <1>6, <1>9, <1>10, <1>11, <1>12 DEF View!Begin, Given, Db

\* What a step must do to be the view's Redo.
LEMMA RedoMapped ==
    ASSUME NEW u \in Uses, Given(u) # NULL, ToCome(u) # <<>>,
           Given(u)' = Head(ToCome(u)), ToCome(u)' = Tail(ToCome(u)),
           \A v \in Uses \ {u} : ToCome(v)' = ToCome(v) /\ Given(v)' = Given(v),
           Db' = Db, key' = key
    PROVE  View!Redo(u)
<1>1. /\ [v \in Uses |-> Given(v)]' = [[v \in Uses |-> Given(v)] EXCEPT ![u] = Head(ToCome(u))]
      /\ [v \in Uses |-> ToCome(v)]' = [[v \in Uses |-> ToCome(v)] EXCEPT ![u] = Tail(ToCome(u))]
  BY OneUse
<1>2. [v \in Uses |-> Given(v)][u] = Given(u) /\ [v \in Uses |-> ToCome(v)][u] = ToCome(u)
  OBVIOUS
<1> QED
  BY <1>1, <1>2 DEF View!Redo, Given, Db

LEMMA RefineBacktrack ==
    ASSUME IInv, IndexInv, ViewInv, NEW u \in Uses, DBBacktrack(u)
    PROVE  View!Redo(u)
<1> DEFINE n == chain[u]
           c == next[u]
           d == nextNextAlive(n, c, time[u])
<1>1. /\ held[u] /\ role[u] = "goal" /\ c # NULL
      /\ UNCHANGED <<predVars, blockVars, role, chain, time, held>>
      /\ cur'[u] = c /\ next'[u] = d
      /\ \A v \in Uses \ {u} : cur'[v] = cur[v] /\ next'[v] = next[v]
  BY DEF DBBacktrack, IInv, TypeOK
<1>2. /\ n \in Names /\ chains[n] \in Seq(Clauses) /\ Distinct(chains[n])
      /\ c \in Linked(n) /\ cur[u] # NULL
  BY <1>1, UseChain, DynamicAssumption
<1>3. chains' = chains /\ stamp' = stamp /\ created' = created /\ deleted' = deleted
      /\ role' = role /\ chain' = chain /\ time' = time /\ held' = held /\ key' = key
  BY <1>1 DEF predVars, blockVars
<1>4. ToCome(u) = AliveFrom(n, Position(n, c), time[u])
  BY <1>1 DEF ToCome
<1>5. isAlive(c, time[u])
  BY <1>1 DEF ViewInv
<1>6. ToCome(u) # <<>> /\ Head(ToCome(u)) = c /\ Tail(ToCome(u)) = AliveFrom(n, Position(n, c) + 1, time[u])
  BY <1>2, <1>4, <1>5, HeadAlive
<1>7. ToCome(u)' = IF d = NULL THEN <<>> ELSE AliveFrom(n, Position(n, d), time[u])
  BY <1>1, <1>3, ToComeAfter
<1>8. ToCome(u)' = Tail(ToCome(u))
  BY <1>2, <1>6, <1>7, GoalRest
<1>9. Given(u) # NULL /\ Given(u)' = Head(ToCome(u))
  BY <1>1, <1>2, <1>3, <1>6 DEF Given
<1>10. \A v \in Uses \ {u} : ToCome(v)' = ToCome(v) /\ Given(v)' = Given(v)
  BY <1>1, <1>3, ToComeKept DEF IInv, TypeOK
<1> QED
  BY <1>3, <1>6, <1>8, <1>9, <1>10, DbKept, RedoMapped

LEMMA RefineNext ==
    ASSUME IInv, IndexInv, ViewInv, NEW u \in Uses, NextClause(u)
    PROVE  View!Redo(u)
<1> DEFINE n == chain[u]
           i == Position(n, cur[u]) + 1
           c == nextNextAlive(n, cur[u], time[u])
<1>1. /\ role[u] \in {"clause", "retract", "retracted"} /\ c # NULL
      /\ cur' = [cur EXCEPT ![u] = c] /\ role' = [role EXCEPT ![u] = IF @ = "retracted" THEN "retract" ELSE @]
      /\ UNCHANGED <<predVars, blockVars, chain, time, next, held>>
  BY DEF NextClause
<1>2. held[u]
  BY <1>1 DEF IInv, UsesOK, UseOK, Roles
<1>3. chains' = chains /\ stamp' = stamp /\ created' = created /\ deleted' = deleted
      /\ chain' = chain /\ time' = time /\ next' = next /\ held' = held /\ key' = key
  BY <1>1 DEF predVars, blockVars
<1>4. /\ cur'[u] = c /\ role'[u] # "goal" /\ role[u] # "goal"
      /\ \A v \in Uses \ {u} : cur'[v] = cur[v] /\ role'[v] = role[v]
  BY <1>1 DEF IInv, TypeOK
<1>5. n \in Names /\ chains[n] \in Seq(Clauses) /\ Distinct(chains[n]) /\ cur[u] \in Linked(n) /\ cur[u] # NULL
  BY <1>2, UseChain, DynamicAssumption
<1>6. i \in Nat \ {0} /\ ToCome(u) = AliveFrom(n, i, time[u]) /\ c = FirstAlive(n, i, time[u])
  BY <1>2, <1>4, <1>5, PositionProperty DEF ToCome, nextNextAlive
<1> HIDE DEF i
<1>7. /\ ToCome(u) # <<>> /\ Head(ToCome(u)) = c
      /\ Tail(ToCome(u)) = AliveFrom(n, Position(n, c) + 1, time[u])
  <2> DEFINE f == FirstAlive(n, i, time[u])
  <2>1. f # NULL => /\ AliveFrom(n, i, time[u]) # <<>> /\ Head(AliveFrom(n, i, time[u])) = f
                    /\ Tail(AliveFrom(n, i, time[u])) = AliveFrom(n, Position(n, f) + 1, time[u])
    BY <1>5, <1>6, FirstAliveFrom
  <2> QED
    BY <1>1, <1>6, <2>1
<1> HIDE DEF c
<1>8. ToCome(u)' = AliveFrom(n, Position(n, c) + 1, time[u])
  BY <1>2, <1>3, <1>4, ToComeAfter
<1>9. Given(u) # NULL /\ Given(u)' = c
  BY <1>2, <1>3, <1>4, <1>5 DEF Given
<1>10. \A v \in Uses \ {u} : ToCome(v)' = ToCome(v) /\ Given(v)' = Given(v)
  BY <1>3, <1>4, ToComeKept DEF IInv, TypeOK
<1> QED
  BY <1>3, <1>7, <1>8, <1>9, <1>10, DbKept, RedoMapped

\* The clauses alive behind a position of a chain are the same if the same clauses
\* of the chain are alive.
LEMMA FromKept ==
    ASSUME NEW n \in Names, chains[n] \in Seq(Clauses), chains' = chains, NEW i \in Nat \ {0}, NEW ts,
           \A x \in Linked(n) : (created'[x] <= ts /\ ts < deleted'[x]) <=> isAlive(x, ts)
    PROVE  Keep(SubSeq(chains'[n], i, Len(chains'[n])), {x \in Clauses : created'[x] <= ts /\ ts < deleted'[x]})
               = AliveFrom(n, i, ts)
<1> DEFINE s == chains[n]
           V == {x \in Clauses : isAlive(x, ts)}
           W == {x \in Clauses : created'[x] <= ts /\ ts < deleted'[x]}
<1>1. \A j \in DOMAIN s : (s[j] \in W) <=> (s[j] \in V)
  BY DEF Linked
<1>2. s \in Seq(Clauses)
  OBVIOUS
<1>3. Keep(SubSeq(s, i, Len(s)), W) = Keep(SubSeq(s, i, Len(s)), V)
  <2> HIDE DEF s, V, W
  <2> QED
    BY <1>1, <1>2, SameAlive
<1> QED
  BY <1>3 DEF AliveFrom

\* A use whose chain has the same clauses alive for it is to be given the same.
LEMMA ToComeSame ==
    ASSUME IInv, IndexInv, ViewInv, NEW v \in Uses, held[v], chains' = chains,
           held' = held, chain' = chain, time' = time, cur' = cur, next' = next,
           (role'[v] = "goal") <=> (role[v] = "goal"),
           \A x \in Linked(chain[v]) :
              (created'[x] <= time[v] /\ time[v] < deleted'[x]) <=> isAlive(x, time[v])
    PROVE  ToCome(v)' = ToCome(v)
<1> DEFINE n == chain[v]
           ts == time[v]
           W == {x \in Clauses : created'[x] <= ts /\ ts < deleted'[x]}
<1>1. /\ n \in Names /\ chains[n] \in Seq(Clauses)
      /\ cur[v] \in Linked(n) /\ (next[v] # NULL => next[v] \in Linked(n))
  BY UseChain
<1>2. \A i \in Nat \ {0} : Keep(SubSeq(chains'[n], i, Len(chains'[n])), W) = AliveFrom(n, i, ts)
  BY <1>1, FromKept
<1>3. CASE role[v] # "goal"
  <2> DEFINE i == Position(n, cur[v]) + 1
  <2>1. i \in Nat \ {0} /\ ToCome(v) = AliveFrom(n, i, ts)
    BY <1>1, <1>3, PositionProperty DEF ToCome
  <2>2. ToCome(v)' = AliveFrom(chain[v], Position(chain[v], cur[v]) + 1, time[v])'
    BY <1>3 DEF ToCome
  <2>3. AliveFrom(chain[v], Position(chain[v], cur[v]) + 1, time[v])' =
            Keep(SubSeq(chains'[n], i, Len(chains'[n])), W)
    BY DEF AliveFrom, isAlive, Position
  <2> HIDE DEF i, W, n, ts
  <2> QED
    BY <1>2, <2>1, <2>2, <2>3
<1>4. CASE role[v] = "goal" /\ next[v] # NULL
  <2> DEFINE i == Position(n, next[v])
  <2>1. i \in Nat \ {0} /\ ToCome(v) = AliveFrom(n, i, ts)
    BY <1>1, <1>4, PositionProperty DEF ToCome
  <2>2. ToCome(v)' = AliveFrom(chain[v], Position(chain[v], next[v]), time[v])'
    BY <1>4 DEF ToCome
  <2>3. AliveFrom(chain[v], Position(chain[v], next[v]), time[v])' =
            Keep(SubSeq(chains'[n], i, Len(chains'[n])), W)
    BY DEF AliveFrom, isAlive, Position
  <2> HIDE DEF i, W, n, ts
  <2> QED
    BY <1>2, <2>1, <2>2, <2>3
<1>5. CASE role[v] = "goal" /\ next[v] = NULL
  BY <1>5 DEF ToCome
<1> QED
  BY <1>3, <1>4, <1>5

LEMMA RefineRetract ==
    ASSUME IInv, IndexInv, Remembered, ViewInv, NEW u \in Uses, Retract(u)
    PROVE  View!Retract(u)
<1> DEFINE c == cur[u]
           all == chains["all"]
<1>1. /\ stamp' = stamp + 1 /\ role[u] = "retract" /\ key' = key
      /\ deleted' = [deleted EXCEPT ![c] = stamp + 1]
      /\ role' = [role EXCEPT ![u] = "retracted"]
      /\ UNCHANGED <<chains, created, chain, time, cur, next, held>>
  BY DEF Retract
<1>2. held[u] /\ deleted[c] = Never
  BY <1>1 DEF IInv, UsesOK, UseOK, ViewInv, RetractorOK, Roles
<1>3. c \in Clauses /\ c # NULL /\ Linked("all") \subseteq Clauses /\ all \in Seq(Clauses) /\ "all" \in Names
  <2>1. c \in Clauses /\ c # NULL
    BY <1>2, UseChain, DynamicAssumption
  <2>2. all \in Seq(Clauses) /\ "all" \in Names
    BY NamesApart DEF IInv, TypeOK
  <2>3. \A i \in DOMAIN all : all[i] \in Clauses
    BY <2>2
  <2> QED
    BY <2>1, <2>2, <2>3 DEF Linked
<1>4. /\ stamp \in Nat /\ created \in [Clauses -> Nat] /\ deleted \in [Clauses -> Nat]
      /\ time \in [Uses -> Nat] /\ stamp < Never /\ stamp + 1 < Never
      /\ role \in [Uses -> Roles \union {NULL}]
  BY DynamicAssumption DEF IInv, TypeOK, Never, Retract
<1>5. deleted'[c] = stamp + 1 /\ \A x \in Clauses : x # c => deleted'[x] = deleted[x]
  BY <1>1, <1>3, <1>4
<1>6. \A v \in Uses : \A x \in Clauses :
         (created'[x] <= time[v] /\ time[v] < deleted'[x]) <=> isAlive(x, time[v])
  <2> SUFFICES ASSUME NEW v \in Uses, NEW x \in Clauses
               PROVE  (created'[x] <= time[v] /\ time[v] < deleted'[x]) <=> isAlive(x, time[v])
    OBVIOUS
  <2>1. time[v] \in Nat /\ time[v] <= stamp
    BY <1>4 DEF ViewInv
  <2>2. CASE x = c
    BY <1>1, <1>2, <1>4, <1>5, <2>1, <2>2 DEF isAlive
  <2>3. CASE x # c
    BY <1>1, <1>5, <2>3 DEF isAlive
  <2> QED
    BY <2>2, <2>3
<1>7. \A v \in Uses : ToCome(v)' = ToCome(v) /\ Given(v)' = Given(v)
  <2> SUFFICES ASSUME NEW v \in Uses PROVE ToCome(v)' = ToCome(v) /\ Given(v)' = Given(v)
    OBVIOUS
  <2>1. Given(v)' = Given(v)
    BY <1>1 DEF Given
  <2>2. CASE ~held[v]
    BY <1>1, <2>2, ToComeKept DEF IInv, TypeOK
  <2>3. CASE held[v]
    <3>1. (role'[v] = "goal") <=> (role[v] = "goal")
      BY <1>1, <1>4
    <3>2. \A x \in Linked(chain[v]) :
             (created'[x] <= time[v] /\ time[v] < deleted'[x]) <=> isAlive(x, time[v])
      BY <1>6, <2>3, UseChain
    <3> QED
      BY <1>1, <2>1, <2>3, <3>1, <3>2, ToComeSame
  <2> QED
    BY <2>1, <2>2, <2>3
<1>8. Db' = Keep(Db, Clauses \ {c})
  <2> DEFINE A == {x \in Clauses : isAlive(x, stamp)}
             B == {x \in Clauses : created'[x] <= stamp + 1 /\ stamp + 1 < deleted'[x]}
  <2>1. Db = Keep(all, A)
    BY <1>3, AllFrom DEF Db
  <2>2. Db' = Keep(SubSeq(all, 1, Len(all)), B)
    BY <1>1 DEF Db, AliveFrom, isAlive
  <2>3. SubSeq(all, 1, Len(all)) = all
    BY <1>3, SubSeqFull
  <2>4. ASSUME NEW i \in DOMAIN all PROVE (all[i] \in B) <=> (all[i] \in A \intersect (Clauses \ {c}))
    <3> DEFINE x == all[i]
    <3>1. x \in Linked("all") /\ x \in Clauses
      BY <1>3 DEF Linked
    <3>2. created[x] <= stamp /\ created[x] \in Nat /\ deleted[x] \in Nat
          /\ (deleted[x] = Never \/ deleted[x] <= stamp)
      BY <1>4, <3>1 DEF ViewInv, Remembered
    <3> HIDE DEF x
    <3>3. CASE x = c
      <4>1. x \notin B
        BY <1>4, <1>5, <3>3
      <4> QED
        BY <3>3, <4>1 DEF x
    <3>4. CASE x # c
      <4>1. (x \in B) <=> (x \in A)
        BY <1>1, <1>4, <1>5, <3>1, <3>2, <3>4 DEF isAlive
      <4> QED
        BY <3>1, <3>4, <4>1 DEF x
    <3> QED
      BY <3>3, <3>4
  <2> HIDE DEF A, B, all
  <2>5. Keep(all, B) = Keep(all, A \intersect (Clauses \ {c}))
    BY <1>3, <2>4, KeepSame
  <2>6. Keep(Keep(all, A), Clauses \ {c}) = Keep(all, A \intersect (Clauses \ {c}))
    BY <1>3, KeepKeep
  <2> QED
    BY <2>1, <2>2, <2>3, <2>5, <2>6, Zenon
<1>9. Given(u) = c /\ c # NULL
  BY <1>2, <1>3 DEF Given
<1>10. [v \in Uses |-> Given(v)][u] = c
  BY <1>9
<1>11. /\ [v \in Uses |-> Given(v)]' = [v \in Uses |-> Given(v)]
       /\ [v \in Uses |-> ToCome(v)]' = [v \in Uses |-> ToCome(v)]
  BY <1>7, Zenon
<1>12. View!Keep(Db, Clauses \ {c}) = Keep(Db, Clauses \ {c})
  BY ViewKeep
<1> HIDE DEF c
<1> QED
  BY <1>1, <1>8, <1>9, <1>10, <1>11, <1>12 DEF View!Retract, Given, Db

LEMMA RefineEnd ==
    ASSUME IInv, IndexInv, ViewInv, NEW u \in Uses, held[u], Forget(u), release,
           \A v \in Uses \ {u} : cur'[v] = cur[v]
    PROVE  View!End(u)
<1> DEFINE all == chains["all"]
<1>0. "all" \in Names /\ all \in Seq(Clauses) /\ stamp \in Nat /\ deleted \in [Clauses -> Nat]
  BY DynamicAssumption, NamesApart DEF IInv, TypeOK, Never
<1>1. refcount = 1 => \A v \in Uses : ~held'[v]
  BY CountDown DEF Forget, release
<1>2. UNCHANGED <<stamp, key, created, deleted>>
      /\ chains' = (IF MayCollect THEN gcPredicate(stamp) ELSE chains)
  BY DEF release, blockVars
<1>3. \A v \in Uses : v # u => /\ role'[v] = role[v] /\ chain'[v] = chain[v] /\ time'[v] = time[v]
                               /\ next'[v] = next[v] /\ held'[v] = held[v]
  BY DEF Forget, IInv, TypeOK
<1>4. ~held'[u]
  BY DEF Forget, IInv, TypeOK
<1>5. ASSUME NEW v \in Uses, v # u PROVE ToCome(v)' = ToCome(v) /\ Given(v)' = Given(v)
  <2>1. held[v] => chains' = chains
    BY <1>1, <1>2, <1>3, <1>5 DEF MayCollect
  <2>2. held[v] \in BOOLEAN
    BY DEF IInv, TypeOK
  <2> QED
    BY <1>2, <1>3, <1>5, <2>1, <2>2, ToComeKept
<1>6. ToCome(u)' = <<>> /\ Given(u)' = NULL
  BY <1>4 DEF ToCome, Given
<1>7. Db' = Db
  <2>1. CASE ~MayCollect
    BY <1>2, <2>1, DbKept
  <2>2. CASE MayCollect
    <3> DEFINE A == {x \in Clauses : isAlive(x, stamp)}
               L == {x \in Clauses : ~toDelete(x, stamp)}
               s == chains'["all"]
    <3>1. s = Keep(all, L)
      BY <1>0, <1>2, <2>2 DEF gcPredicate, gcChain
    <3>2. Db = Keep(all, A)
      BY <1>0, AllFrom DEF Db
    <3>3. Db' = Keep(SubSeq(s, 1, Len(s)), A)
      BY <1>2 DEF Db, AliveFrom, isAlive
    <3>4. L \intersect A = A
      BY <1>0 DEF isAlive, toDelete
    <3> HIDE DEF s, A, L, all
    <3>5. s \in Seq(Clauses) /\ Keep(Keep(all, L), A) = Keep(all, L \intersect A)
      BY <1>0, <3>1, KeepType, KeepKeep
    <3>6. SubSeq(s, 1, Len(s)) = s
      BY <3>5, SubSeqFull
    <3> QED
      BY <3>1, <3>2, <3>3, <3>4, <3>5, <3>6, Zenon
  <2> QED
    BY <2>1, <2>2
<1>8. /\ [v \in Uses |-> Given(v)]' = [[v \in Uses |-> Given(v)] EXCEPT ![u] = NULL]
      /\ [v \in Uses |-> ToCome(v)]' = [[v \in Uses |-> ToCome(v)] EXCEPT ![u] = <<>>]
  BY <1>5, <1>6, OneUse
<1> QED
  BY <1>2, <1>7, <1>8 DEF View!End, Given, Db

\* What a use has been given and is to be given are clauses of its chain.
LEMMA ToComeLinked ==
    ASSUME IInv, IndexInv, ViewInv, NEW v \in Uses, held[v], NEW c \in Clauses, c \notin Linked("all")
    PROVE  Given(v) # c /\ ~View!Among(c, ToCome(v))
<1> DEFINE n == chain[v]
           s == chains[n]
           S == Linked(n)
<1>1. /\ n \in Names /\ s \in Seq(Clauses) /\ cur[v] \in S /\ (next[v] # NULL => next[v] \in S)
      /\ S \subseteq Linked("all")
  BY UseChain
<1>2. \A i \in Int : \A j \in i .. Len(s) : i >= 1 => s[j] \in S
  BY <1>1 DEF Linked
<1>3. ASSUME NEW i \in Nat \ {0}, NEW V PROVE Keep(SubSeq(s, i, Len(s)), V) \in Seq(S)
  <2>1. Len(s) \in Int /\ i \in Int /\ \A j \in i .. Len(s) : s[j] \in S
    BY <1>1, <1>2
  <2> HIDE DEF s, S
  <2>2. SubSeq(s, i, Len(s)) \in Seq(S)
    BY <2>1, SubSeqProperties
  <2> QED
    BY <2>2, KeepType
<1>4. \A i \in Nat \ {0} : AliveFrom(n, i, time[v]) \in Seq(S)
  BY <1>3 DEF AliveFrom
<1>5. ToCome(v) \in Seq(S)
  <2>1. CASE role[v] # "goal"
    <3>1. Position(n, cur[v]) + 1 \in Nat \ {0}
      BY <1>1, PositionProperty
    <3>2. ToCome(v) = AliveFrom(n, Position(n, cur[v]) + 1, time[v])
      BY <2>1 DEF ToCome
    <3> HIDE DEF n, s, S
    <3> QED
      BY <1>4, <3>1, <3>2
  <2>2. CASE role[v] = "goal" /\ next[v] # NULL
    <3>1. Position(n, next[v]) \in Nat \ {0}
      BY <1>1, <2>2, PositionProperty
    <3>2. ToCome(v) = AliveFrom(n, Position(n, next[v]), time[v])
      BY <2>2 DEF ToCome
    <3> HIDE DEF n, s, S
    <3> QED
      BY <1>4, <3>1, <3>2
  <2>3. CASE role[v] = "goal" /\ next[v] = NULL
    BY <2>3 DEF ToCome
  <2> QED
    BY <2>1, <2>2, <2>3
<1>6. Given(v) \in S
  BY <1>1 DEF Given
<1>7. \A i \in DOMAIN ToCome(v) : ToCome(v)[i] \in S
  <2> HIDE DEF S
  <2> QED
    BY <1>5
<1> HIDE DEF S
<1> QED
  BY <1>1, <1>6, <1>7 DEF View!Among

\* An assert leaves a use what it is to be given.
LEMMA AssertToCome ==
    ASSUME IInv, IndexInv, ViewInv, NEW c \in Clauses, NEW k \in Args, NEW asserta \in BOOLEAN,
           AssertClause(c, k, asserta), NEW v \in Uses, held[v]
    PROVE  ToCome(v)' = ToCome(v)
<1> DEFINE n == chain[v]
           s == chains[n]
           t == chains'[n]
           W == StillAlive(v)
<1>0. UNCHANGED <<role, chain, time, cur, next, held>>
  BY DEF AssertClause, useVars
<1>1. /\ n \in Names /\ s \in Seq(Clauses)
      /\ cur[v] \in Linked(n) /\ (next[v] # NULL => next[v] \in Linked(n))
  BY UseChain
<1>2. Behind(v, c) /\ \E d \in {0, 1} : Shifted(v, d)
  BY AssertBehind, Zenon
<1>3. PICK d \in {0, 1} : Shifted(v, d)
  BY <1>2
<1>4. t \in Seq(Clauses) /\ Distinct(t)
  BY <1>2 DEF Behind
<1>5. /\ \A j \in 1 .. Len(s) + 1 : Keep(SubSeq(t, j + d, Len(t)), W) = AliveFrom(n, j, time[v])
      /\ \A j \in DOMAIN s : j + d \in DOMAIN t /\ t[j + d] = s[j]
  <2>1. \A j \in DOMAIN s : j \in 1 .. Len(s) + 1
    BY <1>1
  <2> QED
    BY <1>3, <2>1 DEF Shifted
<1>6. ASSUME NEW x \in Linked(n)
      PROVE  /\ Position(n, x) \in 1 .. Len(s) /\ Position(n, x) \in Nat
             /\ (CHOOSE i \in DOMAIN t : t[i] = x) = Position(n, x) + d
  <2>1. \E i \in DOMAIN s : s[i] = x
    BY DEF Linked
  <2>2. Position(n, x) \in DOMAIN s /\ s[Position(n, x)] = x
    BY <2>1 DEF Position
  <2> DEFINE p == Position(n, x)
             q == CHOOSE i \in DOMAIN t : t[i] = x
  <2>3. p + d \in DOMAIN t /\ t[p + d] = x
    BY <1>5, <2>2
  <2>4. q \in DOMAIN t /\ t[q] = x
    BY <2>3
  <2> HIDE DEF t, q
  <2>5. q = p + d
    BY <1>4, <2>3, <2>4 DEF Distinct
  <2>6. p \in 1 .. Len(s) /\ p \in Nat
    BY <1>1, <2>2
  <2> QED
    BY <2>5, <2>6 DEF q
<1>7. CASE role[v] # "goal"
  <2> DEFINE p == Position(n, cur[v])
             q == CHOOSE i \in DOMAIN t : t[i] = cur[v]
  <2>1. ToCome(v) = AliveFrom(n, p + 1, time[v])
    BY <1>7 DEF ToCome
  <2>2. ToCome(v)' = AliveFrom(chain[v], Position(chain[v], cur[v]) + 1, time[v])'
    BY <1>0, <1>7 DEF ToCome
  <2>3. AliveFrom(chain[v], Position(chain[v], cur[v]) + 1, time[v])' = Keep(SubSeq(t, q + 1, Len(t)), W)
    BY <1>0 DEF AliveFrom, isAlive, Position, StillAlive
  <2>4. q = p + d /\ p \in Nat /\ p \in 1 .. Len(s)
    BY <1>1, <1>6
  <2>6. d \in Nat /\ Len(s) \in Nat
    BY <1>1
  <2> HIDE DEF p, q, n, s, t, W
  <2>5. q + 1 = (p + 1) + d /\ p + 1 \in 1 .. Len(s) + 1
    BY <2>4, <2>6
  <2> QED
    BY <1>5, <2>1, <2>2, <2>3, <2>5
<1>8. CASE role[v] = "goal" /\ next[v] # NULL
  <2> DEFINE p == Position(n, next[v])
             q == CHOOSE i \in DOMAIN t : t[i] = next[v]
  <2>1. ToCome(v) = AliveFrom(n, p, time[v])
    BY <1>8 DEF ToCome
  <2>2. ToCome(v)' = AliveFrom(chain[v], Position(chain[v], next[v]), time[v])'
    BY <1>0, <1>8 DEF ToCome
  <2>3. AliveFrom(chain[v], Position(chain[v], next[v]), time[v])' = Keep(SubSeq(t, q, Len(t)), W)
    BY <1>0 DEF AliveFrom, isAlive, Position, StillAlive
  <2>4. q = p + d /\ p \in 1 .. Len(s)
    BY <1>1, <1>6, <1>8
  <2>5. p \in 1 .. Len(s) + 1
    BY <1>1, <2>4
  <2> HIDE DEF p, q, n, s, t, W
  <2> QED
    BY <1>5, <2>1, <2>2, <2>3, <2>4, <2>5
<1>9. CASE role[v] = "goal" /\ next[v] = NULL
  BY <1>0, <1>9 DEF ToCome
<1> QED
  BY <1>7, <1>8, <1>9

LEMMA RefineAssert ==
    ASSUME IInv, IndexInv, Remembered, ViewInv, NEW c \in Clauses, NEW k \in Args, NEW asserta \in BOOLEAN,
           AssertClause(c, k, asserta)
    PROVE  View!Add(c, k)
<1> DEFINE all == chains["all"]
           A == {x \in Clauses : isAlive(x, stamp)}
           B == {x \in Clauses : created'[x] <= stamp + 1 /\ stamp + 1 < deleted'[x]}
<1>0. /\ c \notin Linked("all") /\ stamp \in Nat /\ stamp + 1 < Never
      /\ created \in [Clauses -> Nat] /\ deleted \in [Clauses -> Nat]
      /\ created' = [created EXCEPT ![c] = stamp + 1] /\ deleted' = [deleted EXCEPT ![c] = Never]
      /\ stamp' = stamp + 1 /\ UNCHANGED useVars /\ key' = [key EXCEPT ![c] = k]
      /\ "all" \in Names /\ all \in Seq(Clauses) /\ held \in [Uses -> BOOLEAN]
  BY DynamicAssumption, NamesApart DEF IInv, TypeOK, AssertClause, Never
<1>1. Db = Keep(all, A)
  BY <1>0, AllFrom DEF Db
<1>2. chains'["all"] = AddToChain(all, c, asserta)
  BY NamesApart DEF AssertClause, Receivers
<1>3. Keep(all, B) = Keep(all, A)
  <2>1. ASSUME NEW i \in DOMAIN all PROVE (all[i] \in B) <=> (all[i] \in A)
    <3> DEFINE x == all[i]
    <3>1. x \in Linked("all") /\ x \in Clauses
      BY <1>0 DEF Linked
    <3>2. /\ created[x] <= stamp /\ created[x] \in Nat /\ deleted[x] \in Nat
          /\ (deleted[x] = Never \/ deleted[x] <= stamp)
          /\ created'[x] = created[x] /\ deleted'[x] = deleted[x]
      BY <1>0, <3>1 DEF ViewInv, Remembered
    <3> HIDE DEF x
    <3>3. (x \in B) <=> (x \in A)
      BY <1>0, <3>1, <3>2 DEF isAlive
    <3> QED
      BY <3>3 DEF x
  <2> HIDE DEF all, A, B
  <2> QED
    BY <1>0, <2>1, KeepSame
<1>4. c \in B
  BY <1>0
<1>5. Db' = AddToChain(Db, c, asserta)
  <2> DEFINE t == chains'["all"]
  <2>1. Db' = Keep(SubSeq(t, 1, Len(t)), B)
    BY <1>0 DEF Db, AliveFrom, isAlive
  <2>2. t \in Seq(Clauses)
    BY <1>0, <1>2, AddToChainProperty
  <2>3. SubSeq(t, 1, Len(t)) = t
    BY <2>2, SubSeqFull
  <2> HIDE DEF all, A, B
  <2>4. Keep(AddToChain(all, c, asserta), B) =
           IF c \in B THEN AddToChain(Keep(all, B), c, asserta) ELSE Keep(all, B)
    BY <1>0, KeepAdded
  <2> QED
    BY <1>1, <1>2, <1>3, <1>4, <2>1, <2>3, <2>4, Zenon
<1>6. Db' \in {<<c>> \o Db, Append(Db, c)}
  BY <1>5, Zenon DEF AddToChain
<1>7. ~View!Among(c, Db)
  <2>1. \A j \in DOMAIN Db : \E b \in DOMAIN all : Db[j] = all[b]
    <3> HIDE DEF all, A
    <3> QED
      BY <1>0, <1>1, KeepOrder
  <2>2. \A b \in DOMAIN all : all[b] # c
    BY <1>0 DEF Linked
  <2> QED
    BY <2>1, <2>2 DEF View!Among
<1>8. \A v \in Uses : ToCome(v)' = ToCome(v) /\ Given(v)' = Given(v)
  <2> SUFFICES ASSUME NEW v \in Uses PROVE ToCome(v)' = ToCome(v) /\ Given(v)' = Given(v)
    OBVIOUS
  <2>1. CASE held[v]
    BY <1>0, <2>1, AssertToCome DEF Given, useVars
  <2>2. CASE ~held[v]
    BY <1>0, <2>2, ToComeKept DEF useVars
  <2> QED
    BY <2>1, <2>2
<1>9. \A v \in Uses : Given(v) # c /\ ~View!Among(c, ToCome(v))
  <2> SUFFICES ASSUME NEW v \in Uses PROVE Given(v) # c /\ ~View!Among(c, ToCome(v))
    OBVIOUS
  <2>1. CASE held[v]
    BY <1>0, <2>1, ToComeLinked
  <2>2. CASE ~held[v]
    BY <2>2, DynamicAssumption DEF Given, ToCome, View!Among
  <2> QED
    BY <2>1, <2>2
<1>10. /\ [v \in Uses |-> Given(v)]' = [v \in Uses |-> Given(v)]
       /\ [v \in Uses |-> ToCome(v)]' = [v \in Uses |-> ToCome(v)]
  BY <1>8, Zenon
<1>11. \A v \in Uses : /\ [x \in Uses |-> Given(x)][v] # c
                       /\ ~View!Among(c, [x \in Uses |-> ToCome(x)][v])
  BY <1>9
<1> HIDE DEF all, A, B
<1> QED
  BY <1>0, <1>6, <1>7, <1>10, <1>11 DEF View!Add, Given, Db

LEMMA RefineInit == Init => View!Init
<1> SUFFICES ASSUME Init PROVE View!Init
  OBVIOUS
<1>1. chains["all"] = <<>> /\ \A u \in Uses : ~held[u]
  BY NamesApart DEF Init
<1>2. AliveFrom("all", 1, stamp) = <<>>
  <2>1. Keep(<<>>, {c \in Clauses : isAlive(c, stamp)}) = <<>>
    BY KeepEmpty
  <2>2. SubSeq(<<>>, 1, Len(<<>>)) = <<>>
    BY SubSeqEmpty
  <2> QED
    BY <1>1, <2>1, <2>2, Zenon DEF AliveFrom
<1>3. \A u \in Uses : ToCome(u) = <<>>
  BY <1>1 DEF ToCome
<1>4. key = [c \in Clauses |-> "var"]
  BY DEF Init
<1> QED
  BY <1>1, <1>2, <1>3, <1>4 DEF View!Init

LEMMA RefineStep ==
    ASSUME IInv, IndexInv, Remembered, ViewInv, [Next]_vars
    PROVE  [View!Next]_(View!vars)
<1>1. ASSUME NEW c \in Clauses, NEW k \in Args, NEW asserta \in BOOLEAN, AssertClause(c, k, asserta)
      PROVE  View!Next
  <2>1. View!Add(c, k) /\ k \in View!Args
    BY <1>1, RefineAssert DEF Args, View!Args
  <2> QED
    BY <2>1 DEF View!Next
<1>2. ASSUME NEW u \in Uses, NEW k \in Args, BeginGoal(u, k) \/ BeginClause(u, k) PROVE View!Next
  <2>1. View!Begin(u, k) /\ k \in View!Args
    BY <1>2, RefineBegin DEF Args, View!Args
  <2> QED
    BY <2>1 DEF View!Next
<1>3. ASSUME NEW u \in Uses, DBBacktrack(u) PROVE View!Next
  BY <1>3, RefineBacktrack DEF View!Next
<1>4. ASSUME NEW u \in Uses, NextClause(u) PROVE View!Next
  BY <1>4, RefineNext DEF View!Next
<1>5. ASSUME NEW u \in Uses, Retract(u) PROVE View!Next
  BY <1>5, RefineRetract DEF View!Next
<1>6. ASSUME NEW u \in Uses, End(u) \/ OwnCut(u) PROVE View!Next
  <2>1. held[u] /\ Forget(u) /\ release /\ \A v \in Uses \ {u} : cur'[v] = cur[v]
    BY <1>6 DEF End, OwnCut, IInv, TypeOK, UsesOK, UseOK, Roles
  <2>2. View!End(u)
    BY <2>1, RefineEnd
  <2> QED
    BY <2>2 DEF View!Next
<1>7. ASSUME chains' = chains, created' = created, deleted' = deleted, stamp' = stamp, key' = key,
             \A v \in Uses : ToCome(v)' = ToCome(v) /\ Given(v)' = Given(v)
      PROVE  UNCHANGED View!vars
  <2>1. Db' = Db
    BY <1>7, DbKept
  <2>2. /\ [v \in Uses |-> Given(v)]' = [v \in Uses |-> Given(v)]
        /\ [v \in Uses |-> ToCome(v)]' = [v \in Uses |-> ToCome(v)]
    BY <1>7, Zenon
  <2> QED
    BY <1>7, <2>1, <2>2 DEF View!vars, Given, Db
<1>8. ASSUME NEW u \in Uses, Proceed(u) PROVE UNCHANGED View!vars
  <2>1. /\ chains' = chains /\ created' = created /\ deleted' = deleted /\ stamp' = stamp /\ key' = key
        /\ role' = role /\ chain' = chain /\ time' = time /\ next' = next /\ held' = held
        /\ ~held[u] /\ \A v \in Uses \ {u} : cur'[v] = cur[v]
    BY <1>8, DynamicAssumption DEF Proceed, predVars, blockVars, IInv, TypeOK, UsesOK, UseOK
  <2>2. \A v \in Uses : ToCome(v)' = ToCome(v) /\ Given(v)' = Given(v)
    BY <2>1, ToComeKept DEF IInv, TypeOK
  <2> QED
    BY <1>7, <2>1, <2>2
<1>9. ASSUME UNCHANGED vars PROVE UNCHANGED View!vars
  <2>1. UNCHANGED <<stamp, chains, key, created, deleted, role, chain, time, cur, next, held>>
    BY <1>9 DEF vars, predVars, blockVars, useVars
  <2>2. \A v \in Uses : ToCome(v)' = ToCome(v) /\ Given(v)' = Given(v)
    BY <2>1, ToComeKept DEF IInv, TypeOK
  <2> QED
    BY <1>7, <2>1, <2>2
<1> QED
  BY <1>1, <1>2, <1>3, <1>4, <1>5, <1>6, <1>8, <1>9 DEF Next

\* A dynamic predicate implements the logical update view, whatever is asserted,
\* retracted and collected while it is used: a use gets the clauses the predicate
\* had when the use began (isAlive at its time), whose index argument matches
\* (lookUpClauseChain), in their order, and collections take none of them away.
\* Uses of retract/1 must not overlap: the second of two would move the time of
\* deletion of a clause the first has retracted.
THEOREM ViewImplemented == ASSUME OneRetractor PROVE Spec => RefinesView
<1>1. Spec => View!Init
  BY RefineInit, PTL DEF Spec
<1>2. Spec => [][View!Next]_(View!vars)
  BY AlwaysView, RefineStep, PTL DEF Spec
<1> QED
  BY <1>1, <1>2, PTL DEF RefinesView, View!Spec

=============================================================================
