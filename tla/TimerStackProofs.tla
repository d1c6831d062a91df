-------------------------- MODULE TimerStackProofs --------------------------
(***************************************************************************)
(* Proofs about TimerStack, for any number of threads and timers, any      *)
(* delays and any size of the array.                                       *)
(*                                                                         *)
(* TypeCorrect and ExitRight hold whatever callers do.  The order of the   *)
(* array needs that delete_timer is not called (NoDeletes), since it leaves*)
(* a NULL that makes a later exit leave a timer twice; that no timer is    *)
(* lost needs that all are one-time timers or all repeat with one delay    *)
(* (Regular).  TLC shows that without these the properties fail.           *)
(***************************************************************************)
EXTENDS TimerStack, SelectionProofs

(***************************************************************************)
(* What the array operations do, for any array.                            *)
(***************************************************************************)

\* A set of numbers up to n that is not empty has a greatest one.
LEMMA MaxRight ==
    ASSUME NEW n \in Nat, NEW S \in SUBSET (0 .. n), S # {}
    PROVE  Max(S) \in S /\ \A y \in S : y <= Max(S)
<1> DEFINE T == {n - y : y \in S}
<1>1. T \in SUBSET Nat /\ T # {}
  <2>1. \A y \in S : n - y \in Nat
    OBVIOUS
  <2>2. PICK x \in S : TRUE
    OBVIOUS
  <2>3. n - x \in T
    BY <2>2
  <2> QED
    BY <2>1, <2>3
<1>2. PICK m \in T : \A k \in T : m <= k
  BY <1>1, LeastElement
<1>3. PICK x \in S : m = n - x
  BY <1>2
<1>4. \A y \in S : x >= y
  BY <1>2, <1>3
<1>5. Max(S) \in S /\ \A y \in S : Max(S) >= y
  BY <1>4 DEF Max
<1>6. \A y \in S : y \in Nat
  OBVIOUS
<1> QED
  BY <1>5, <1>6

\* An element comes in at k, those from k on move up.
Inserted(s, u, k, e) ==
    /\ Len(u) = Len(s) + 1 /\ u[k] = e
    /\ \A j \in 1 .. k - 1 : u[j] = s[j]
    /\ \A j \in k + 1 .. Len(s) + 1 : u[j] = s[j - 1]

LEMMA InsertRight ==
    ASSUME NEW S, NEW s \in Seq(S), NEW e \in S, NEW k \in 1 .. Len(s) + 1
    PROVE  InsertAt(s, k, e) \in Seq(S) /\ Inserted(s, InsertAt(s, k, e), k, e)
<1> DEFINE a == SubSeq(s, 1, k - 1)
           b == SubSeq(s, k, Len(s))
<1>0. Len(s) \in Nat /\ k \in Nat /\ k >= 1 /\ k <= Len(s) + 1
  OBVIOUS
<1>1. a \in Seq(S) /\ Len(a) = k - 1 /\ \A j \in 1 .. k - 1 : a[j] = s[j]
  BY <1>0
<1>2. b \in Seq(S) /\ Len(b) = Len(s) - k + 1 /\ \A j \in 1 .. Len(s) - k + 1 : b[j] = s[k + j - 1]
  BY <1>0
<1> HIDE DEF a, b
<1>3. a \o <<e>> \in Seq(S) /\ Len(a \o <<e>>) = k /\ (a \o <<e>>)[k] = e
      /\ \A j \in 1 .. k - 1 : (a \o <<e>>)[j] = s[j]
  BY <1>0, <1>1
<1> DEFINE c == a \o <<e>>
           d == c \o b
<1> HIDE DEF c
<1>4. /\ c \in Seq(S) /\ Len(c) = k /\ c[k] = e
      /\ \A j \in 1 .. k - 1 : c[j] = s[j]
  BY <1>3 DEF c
<1>5. /\ d \in Seq(S) /\ Len(d) = Len(s) + 1
      /\ \A j \in 1 .. Len(s) + 1 : d[j] = IF j <= k THEN c[j] ELSE b[j - k]
  <2>1. d \in Seq(S) /\ Len(d) = Len(c) + Len(b)
        /\ \A j \in 1 .. Len(c) + Len(b) : d[j] = IF j <= Len(c) THEN c[j] ELSE b[j - Len(c)]
    BY <1>2, <1>4, ConcatProperties
  <2>2. Len(c) + Len(b) = Len(s) + 1
    BY <1>0, <1>2, <1>4
  <2> HIDE DEF d
  <2> QED
    BY <1>4, <2>1, <2>2
<1> HIDE DEF d
<1>6. d[k] = e /\ \A j \in 1 .. k - 1 : d[j] = s[j]
  BY <1>0, <1>4, <1>5
<1>7. ASSUME NEW j \in k + 1 .. Len(s) + 1 PROVE d[j] = s[j - 1]
  <2>1. d[j] = b[j - k] /\ j - k \in 1 .. Len(s) - k + 1
    BY <1>0, <1>5
  <2>2. b[j - k] = s[k + (j - k) - 1] /\ k + (j - k) - 1 = j - 1
    BY <1>0, <1>2, <2>1
  <2> QED
    BY <2>1, <2>2
<1>8. InsertAt(s, k, e) = d
  BY DEF InsertAt, a, b, c, d
<1> QED
  BY <1>5, <1>6, <1>7, <1>8 DEF Inserted

\* What the shifting loop stops at is a timer that is not later, and none above
\* it is one.
LEMMA PointRight ==
    ASSUME NEW S, NEW s \in Seq(S), NEW tm, NEW it
    PROVE  LET k == InsertPoint(s, tm, it)
           IN  /\ k \in 1 .. Len(s) + 1
               /\ k > 1 => s[k - 1] # NULL /\ ~(tm[it].time < tm[s[k - 1]].time)
               /\ \A j \in k .. Len(s) : s[j] = NULL \/ tm[it].time < tm[s[j]].time
<1> DEFINE T == {i \in DOMAIN s : s[i] # NULL /\ ~(tm[it].time < tm[s[i]].time)}
           M == {0} \union T
<1>0. Len(s) \in Nat /\ DOMAIN s = 1 .. Len(s)
  OBVIOUS
<1>1. M \in SUBSET (0 .. Len(s)) /\ M # {} /\ 0 \in M
  BY <1>0
<1>2. Max(M) \in M /\ \A y \in M : y <= Max(M)
  BY <1>0, <1>1, MaxRight
<1> DEFINE m == Max(M)
<1>6. m + 1 = InsertPoint(s, tm, it)
  BY DEF InsertPoint
<1>7. m \in 0 .. Len(s) /\ (m = 0 \/ m \in T) /\ \A y \in T : y <= m
  BY <1>1, <1>2
<1>8. T \subseteq DOMAIN s
  OBVIOUS
<1> HIDE DEF T, m
<1>3. m + 1 \in 1 .. Len(s) + 1
  BY <1>0, <1>7
<1>4. m + 1 > 1 => (m + 1) - 1 \in T
  BY <1>0, <1>7
<1>5. \A j \in m + 1 .. Len(s) : j \in DOMAIN s /\ j \notin T
  BY <1>0, <1>7
<1> QED
  BY <1>3, <1>4, <1>5, <1>6 DEF T

-----------------------------------------------------------------------------
(* The firing loop.                                                        *)

Objects == DOMAIN timer \union {NULL}
Start == [s |-> timers, tm |-> timer, freed |-> freed]
States == [s : Seq(Objects), tm : Seq(Timer), freed : SUBSET DOMAIN timer]

Firing(f, n, m) ==
    f = [i \in 0 .. m |->
            IF i = 0 THEN Start
                     ELSE CHOOSE next \in {Fire(st, n - i + 1) : st \in {f[i - 1]}} : TRUE]

\* The loop of make_timer_goal over any number of entries.
LEMMA FiringExists ==
    ASSUME NEW n \in Nat, NEW l \in Nat
    PROVE  \E f : Firing(f, n, l)
<1> DEFINE Entry(f, i) == CHOOSE next \in {Fire(st, n - i + 1) : st \in {f[i - 1]}} : TRUE
           bad == {m \in Nat : ~\E f : Firing(f, n, m)}
<1> SUFFICES ASSUME bad # {} PROVE FALSE
  OBVIOUS
<1>1. PICK m \in bad : \A k \in bad : m <= k
  BY LeastElement
<1>2. CASE m = 0
  <2>1. Firing([i \in 0 .. 0 |-> Start], n, 0)
    BY DEF Firing
  <2> QED
    BY <1>2, <2>1
<1>3. CASE m # 0
  <2>1. m - 1 \in Nat /\ m - 1 \notin bad
    BY <1>1, <1>3
  <2>2. PICK f : Firing(f, n, m - 1)
    BY <2>1
  <2> DEFINE g == [i \in 0 .. m |-> IF i <= m - 1 THEN f[i] ELSE Entry(f, i)]
  <2>3. ASSUME NEW i \in 0 .. m
        PROVE  g[i] = IF i = 0 THEN Start ELSE Entry(g, i)
    <3>0. m \in Nat /\ m >= 1
      BY <1>1, <1>3
    <3>1. CASE i = 0
      <4>1. g[i] = f[0] /\ 0 \in 0 .. m - 1
        BY <3>0, <3>1
      <4>2. f[0] = Start
        BY <2>2, <4>1 DEF Firing
      <4> QED
        BY <3>1, <4>1, <4>2
    <3>2. CASE i # 0
      <4>1. i - 1 \in 0 .. m /\ i - 1 <= m - 1
        BY <3>0, <3>2
      <4>2. g[i - 1] = f[i - 1]
        BY <4>1
      <4>3. Entry(g, i) = Entry(f, i)
        BY <4>2
      <4>4. g[i] = Entry(f, i)
        <5>1. CASE i <= m - 1
          <6>1. g[i] = f[i] /\ i \in 0 .. m - 1
            BY <3>0, <5>1
          <6>2. f[i] = Entry(f, i)
            BY <2>2, <3>2, <6>1 DEF Firing
          <6> QED
            BY <6>1, <6>2
        <5>2. CASE ~(i <= m - 1)
          BY <5>2
        <5> QED
          BY <5>1, <5>2
      <4> QED
        BY <3>2, <4>3, <4>4
    <3> QED
      BY <3>1, <3>2
  <2>4. g = [i \in 0 .. m |-> g[i]]
    OBVIOUS
  <2> HIDE DEF g
  <2>5. Firing(g, n, m)
    BY <2>3, <2>4 DEF Firing
  <2> QED
    BY <1>1, <2>5
<1> QED
  BY <1>2, <1>3

\* make_timer_goal goes down from the highest due entry, one Fire for each, and
\* compresses what is left.
LEMMA GoalLoop ==
    ASSUME NEW n \in Nat
    PROVE  \E f : /\ f[0] = Start
                  /\ \A i \in 1 .. n : f[i] = Fire(f[i - 1], n - i + 1)
                  /\ make_timer_goal(n) =
                       [f[n] EXCEPT !.s = Compress(SubSeq(f[n].s, n + 1, Len(f[n].s)))]
<1> DEFINE loop == CHOOSE f : Firing(f, n, n)
<1>1. Firing(loop, n, n)
  BY FiringExists
<1>2. make_timer_goal(n) = [loop[n] EXCEPT !.s = Compress(SubSeq(loop[n].s, n + 1, Len(loop[n].s)))]
  BY DEF make_timer_goal, Firing, Start
<1> HIDE DEF loop
<1>3. loop[0] = Start
  BY <1>1 DEF Firing
<1>4. ASSUME NEW i \in 1 .. n PROVE loop[i] = Fire(loop[i - 1], n - i + 1)
  <2>1. i \in 0 .. n /\ i # 0
    OBVIOUS
  <2>2. loop[i] = CHOOSE next \in {Fire(st, n - i + 1) : st \in {loop[i - 1]}} : TRUE
    BY <1>1, <2>1 DEF Firing
  <2>3. {Fire(st, n - i + 1) : st \in {loop[i - 1]}} = {Fire(loop[i - 1], n - i + 1)}
    OBVIOUS
  <2> QED
    BY <2>2, <2>3
<1> QED
  BY <1>2, <1>3, <1>4

\* The array after the entry p at i has moved to k: it comes in there, what is above
\* moves up, and its old entry is cleared.
Moved(s, u, i, k, p) ==
    /\ k \in i + 1 .. Len(s) + 1
    /\ Len(u) = Len(s) + 1
    /\ u[i] = NULL /\ u[k] = p
    /\ \A j \in 1 .. k - 1 : j # i => u[j] = s[j]
    /\ \A j \in k + 1 .. Len(s) + 1 : u[j] = s[j - 1]

\* What is known of the place k: the entry before it is a timer that is not later, those
\* from it on are later.
Placed(s, tm, k, p) ==
    /\ k > 1 => s[k - 1] # NULL /\ ~(tm[p].time < tm[s[k - 1]].time)
    /\ \A j \in k .. Len(s) : s[j] = NULL \/ tm[p].time < tm[s[j]].time

Ticked(tm, p) == [tm EXCEPT ![p].time = now + tm[p].delta]

\* A repeating timer is inserted above its own entry, which has the new time already.
LEMMA ReinsertRight ==
    ASSUME NEW s \in Seq(Objects), NEW i \in 1 .. Len(s), NEW p \in DOMAIN timer,
           NULL \notin DOMAIN timer,
           s[i] = p, NEW tm, tm[p].time \in Nat
    PROVE  \E k : /\ [insert_timer(s, tm, p) EXCEPT ![i] = NULL] \in Seq(Objects)
                  /\ Moved(s, [insert_timer(s, tm, p) EXCEPT ![i] = NULL], i, k, p)
                  /\ Placed(s, tm, k, p)
<1> DEFINE k == InsertPoint(s, tm, p)
           t == InsertAt(s, k, p)
           u == [t EXCEPT ![i] = NULL]
<1>0. Len(s) \in Nat /\ p # NULL /\ p \in Objects /\ NULL \in Objects
  BY DEF Objects
<1>1. k \in 1 .. Len(s) + 1 /\ Placed(s, tm, k, p)
  BY PointRight DEF Placed
<1>2. t = insert_timer(s, tm, p)
  BY DEF insert_timer
<1> HIDE DEF k
<1>3. k \in i + 1 .. Len(s) + 1
  <2>1. ~(i \in k .. Len(s))
    <3>1. ASSUME i \in k .. Len(s) PROVE FALSE
      <4>1. tm[p].time < tm[p].time
        BY <1>0, <1>1, <3>1 DEF Placed
      <4> QED
        BY <4>1
    <3> QED
      BY <3>1
  <2> QED
    BY <1>0, <1>1, <2>1
<1>4. /\ t \in Seq(Objects) /\ Len(t) = Len(s) + 1 /\ t[k] = p
      /\ \A j \in 1 .. k - 1 : t[j] = s[j]
      /\ \A j \in k + 1 .. Len(s) + 1 : t[j] = s[j - 1]
  <2>1. t \in Seq(Objects) /\ Inserted(s, t, k, p)
    BY <1>0, <1>1, InsertRight
  <2> HIDE DEF t
  <2> QED
    BY <2>1 DEF Inserted
<1> HIDE DEF t
<1>5. /\ u \in Seq(Objects) /\ Len(u) = Len(s) + 1 /\ u[i] = NULL
      /\ \A j \in 1 .. Len(s) + 1 : j # i => u[j] = t[j]
  <2>1. i \in 1 .. Len(t)
    BY <1>0, <1>4
  <2> QED
    BY <1>0, <1>4, <2>1, ExceptSeq
<1> HIDE DEF u
<1>6. Moved(s, u, i, k, p)
  <2>1. k \in 1 .. Len(s) + 1 /\ k # i
    BY <1>0, <1>3
  <2>2. u[k] = p
    BY <1>4, <1>5, <2>1
  <2>3. ASSUME NEW j \in 1 .. k - 1, j # i PROVE u[j] = s[j]
    BY <1>0, <1>3, <1>4, <1>5, <2>3
  <2>4. ASSUME NEW j \in k + 1 .. Len(s) + 1 PROVE u[j] = s[j - 1]
    <3>1. j \in 1 .. Len(s) + 1 /\ j # i
      BY <1>0, <1>3
    <3> QED
      BY <1>4, <1>5, <3>1
  <2> QED
    BY <1>3, <1>5, <2>2, <2>3, <2>4 DEF Moved
<1>7. u = [insert_timer(s, tm, p) EXCEPT ![i] = NULL]
  BY <1>2 DEF u
<1> QED
  BY <1>1, <1>5, <1>6, <1>7

\* Setting the time of a timer.
LEMMA TickedRight ==
    ASSUME NEW tm \in Seq(Timer), NEW p \in DOMAIN tm, now \in Nat, Deltas \subseteq Nat
    PROVE  /\ Ticked(tm, p) \in Seq(Timer)
           /\ Len(Ticked(tm, p)) = Len(tm)
           /\ Ticked(tm, p)[p].time = now + tm[p].delta
           /\ \A q \in DOMAIN tm : /\ Ticked(tm, p)[q].delta = tm[q].delta
                                   /\ Ticked(tm, p)[q].one_time = tm[q].one_time
                                   /\ q # p => Ticked(tm, p)[q] = tm[q]
<1> DEFINE e == [tm[p] EXCEPT !.time = now + tm[p].delta]
<1>1. tm[p] \in Timer /\ p \in 1 .. Len(tm) /\ DOMAIN tm = 1 .. Len(tm)
  OBVIOUS
<1>2. tm[p].delta \in Nat /\ now + tm[p].delta \in Nat
  <2>1. tm[p].delta \in Deltas
    BY <1>1 DEF Timer
  <2>2. \A d \in Nat : now + d \in Nat
    OBVIOUS
  <2> QED
    BY <2>1, <2>2
<1>3. e \in Timer /\ e.time = now + tm[p].delta /\ e.delta = tm[p].delta /\ e.one_time = tm[p].one_time
  BY <1>1, <1>2 DEF Timer
<1>4. Ticked(tm, p) = [tm EXCEPT ![p] = e]
  BY DEF Ticked
<1> HIDE DEF e
<1>5. /\ Ticked(tm, p) \in Seq(Timer) /\ Len(Ticked(tm, p)) = Len(tm)
      /\ \A q \in 1 .. Len(tm) : Ticked(tm, p)[q] = IF q = p THEN e ELSE tm[q]
  BY <1>1, <1>3, <1>4, ExceptSeq
<1> QED
  BY <1>1, <1>3, <1>5

\* A one-time timer leaves its entry empty and changes nothing else of the array.
LEMMA FireOnce ==
    ASSUME NEW st \in States, NEW i \in 1 .. Len(st.s), NULL \notin DOMAIN timer,
           st.s[i] \in DOMAIN timer, st.tm[st.s[i]].one_time
    PROVE  /\ Fire(st, i) \in States
           /\ Fire(st, i).tm = st.tm
           /\ Len(Fire(st, i).s) = Len(st.s)
           /\ Fire(st, i).s[i] = NULL
           /\ \A j \in 1 .. Len(st.s) : j # i => Fire(st, i).s[j] = st.s[j]
<1> DEFINE u == [st.s EXCEPT ![i] = NULL]
           g == st.freed \union {st.s[i]}
<1>1. st.s \in Seq(Objects) /\ st.tm \in Seq(Timer) /\ st.freed \in SUBSET DOMAIN timer
      /\ st = [s |-> st.s, tm |-> st.tm, freed |-> st.freed]
  BY DEF States
<1>2. Fire(st, i) = [st EXCEPT !.s = u, !.freed = g]
  BY DEF Fire
<1>3. /\ u \in Seq(Objects) /\ Len(u) = Len(st.s) /\ u[i] = NULL
      /\ \A j \in 1 .. Len(st.s) : j # i => u[j] = st.s[j]
  <2>1. NULL \in Objects
    BY DEF Objects
  <2> QED
    BY <1>1, <2>1, ExceptSeq
<1>4. g \in SUBSET DOMAIN timer
  BY <1>1
<1> HIDE DEF u, g
<1>5. Fire(st, i) = [s |-> u, tm |-> st.tm, freed |-> g]
  BY <1>1, <1>2
<1> QED
  BY <1>1, <1>3, <1>4, <1>5 DEF States

\* A repeating timer gets its new time and moves up.
LEMMA FireAgain ==
    ASSUME NEW st \in States, NEW i \in 1 .. Len(st.s), NULL \notin DOMAIN timer,
           timer \in Seq(Timer), now \in Nat, Deltas \subseteq Nat, Len(st.tm) = Len(timer),
           st.s[i] \in DOMAIN timer, ~st.tm[st.s[i]].one_time
    PROVE  /\ Fire(st, i) \in States
           /\ Fire(st, i).tm = Ticked(st.tm, st.s[i])
           /\ \E k : /\ Moved(st.s, Fire(st, i).s, i, k, st.s[i])
                     /\ Placed(st.s, Ticked(st.tm, st.s[i]), k, st.s[i])
<1> DEFINE p == st.s[i]
           tm == Ticked(st.tm, p)
           u == [insert_timer(st.s, tm, p) EXCEPT ![i] = NULL]
<1>1. st.s \in Seq(Objects) /\ st.tm \in Seq(Timer) /\ st.freed \in SUBSET DOMAIN timer
      /\ st = [s |-> st.s, tm |-> st.tm, freed |-> st.freed]
  BY DEF States
<1>2. Fire(st, i) = [st EXCEPT !.s = u, !.tm = tm]
  BY DEF Fire, Ticked
<1>3. p \in DOMAIN st.tm /\ p \in DOMAIN timer
  <2>1. \A a \in Seq(Timer) : DOMAIN a = 1 .. Len(a)
    OBVIOUS
  <2>2. DOMAIN timer = 1 .. Len(timer)
    OBVIOUS
  <2> QED
    BY <1>1, <2>1
<1>4. tm \in Seq(Timer) /\ tm[p].time \in Nat
  <2>1. tm \in Seq(Timer) /\ tm[p].time = now + st.tm[p].delta
    BY <1>1, <1>3, TickedRight
  <2>2. st.tm[p].delta \in Nat
    <3>1. st.tm[p] \in Timer
      BY <1>1, <1>3
    <3> QED
      BY <3>1 DEF Timer
  <2>3. \A d \in Nat : now + d \in Nat
    OBVIOUS
  <2> QED
    BY <2>1, <2>2, <2>3
<1> HIDE DEF tm
<1>5. u \in Seq(Objects) /\ \E k : Moved(st.s, u, i, k, p) /\ Placed(st.s, tm, k, p)
  BY <1>1, <1>3, <1>4, ReinsertRight
<1> HIDE DEF u
<1>6. Fire(st, i) = [s |-> u, tm |-> tm, freed |-> st.freed]
  BY <1>1, <1>2
<1>7. Fire(st, i) \in States /\ Fire(st, i).s = u /\ Fire(st, i).tm = tm
  BY <1>1, <1>4, <1>5, <1>6 DEF States
<1> HIDE DEF p
<1> QED
  BY <1>5, <1>7 DEF tm, p

\* While the loop is at entry i those up to it are as they were.
LoopType(st, i) ==
    /\ st \in States
    /\ Len(st.tm) = Len(timer)
    /\ Len(timers) <= Len(st.s)
    /\ \A j \in 1 .. i : st.s[j] = timers[j]

\* TypeOK, as a type of the array alone.
LEMMA Typed ==
    ASSUME TypeOK, TimerAssumption
    PROVE  /\ timers \in Seq(Objects) /\ timer \in Seq(Timer) /\ freed \subseteq DOMAIN timer
           /\ now \in Nat /\ goal \in Seq(DOMAIN timer) /\ Deltas \subseteq Nat
           /\ DOMAIN timer \subseteq Nat /\ NULL \notin DOMAIN timer /\ NULL \notin Nat
<1>1. \A i \in 1 .. Len(timers) : timers[i] \in Objects
  <2>1. ASSUME NEW i \in 1 .. Len(timers) PROVE timers[i] \in Objects
    <3>1. i \in DOMAIN timers
      BY DEF TypeOK
    <3>2. timers[i] \in Pointers(timers)
      BY <3>1 DEF Pointers
    <3> QED
      BY <3>2 DEF TypeOK, Stacked, Objects
  <2> QED
    BY <2>1
<1>2. timers \in Seq(Objects)
  <2>1. timers \in Seq(Nat \union {NULL})
    BY DEF TypeOK
  <2>2. Len(timers) \in Nat /\ timers \in [1 .. Len(timers) -> Nat \union {NULL}]
    BY <2>1
  <2>3. timers \in [1 .. Len(timers) -> Objects]
    BY <1>1, <2>2
  <2> QED
    BY <2>2, <2>3
<1>3. DOMAIN timer \subseteq Nat
  BY DEF TypeOK
<1> QED
  BY <1>2, <1>3 DEF TypeOK, TimerAssumption

LEMMA FireType ==
    ASSUME TypeOK, TimerAssumption, NEW st, NEW i \in 1 .. Len(timers),
           LoopType(st, i), timers[i] # NULL
    PROVE  LoopType(Fire(st, i), i - 1)
<1>1. /\ timers \in Seq(Objects) /\ timer \in Seq(Timer)
      /\ now \in Nat /\ Deltas \subseteq Nat /\ NULL \notin DOMAIN timer
  BY Typed
<1>2. /\ st \in States /\ st.s \in Seq(Objects) /\ Len(st.tm) = Len(timer) /\ Len(timers) <= Len(st.s)
      /\ \A j \in 1 .. i : st.s[j] = timers[j]
  BY DEF LoopType, States
<1>3. Len(timers) \in Nat /\ Len(st.s) \in Nat
  BY <1>1, <1>2
<1>4. i \in 1 .. Len(st.s) /\ i \in Nat /\ i \in 1 .. i
  BY <1>2, <1>3
<1>5. st.s[i] \in DOMAIN timer
  BY <1>1, <1>2, <1>4 DEF Objects
<1>6. CASE st.tm[st.s[i]].one_time
  <2>1. /\ Fire(st, i) \in States /\ Fire(st, i).tm = st.tm
        /\ Len(Fire(st, i).s) = Len(st.s)
        /\ \A j \in 1 .. Len(st.s) : j # i => Fire(st, i).s[j] = st.s[j]
    BY <1>1, <1>2, <1>4, <1>5, <1>6, FireOnce
  <2>2. \A j \in 1 .. i - 1 : j \in 1 .. Len(st.s) /\ j # i /\ j \in 1 .. i
    BY <1>3, <1>4
  <2>3. \A j \in 1 .. i - 1 : Fire(st, i).s[j] = timers[j]
    BY <1>2, <2>1, <2>2
  <2> QED
    BY <1>2, <2>1, <2>3 DEF LoopType
<1>7. CASE ~st.tm[st.s[i]].one_time
  <2>1. /\ Fire(st, i) \in States /\ Fire(st, i).tm = Ticked(st.tm, st.s[i])
        /\ \E k : Moved(st.s, Fire(st, i).s, i, k, st.s[i])
    BY <1>1, <1>2, <1>4, <1>5, <1>7, FireAgain
  <2>2. PICK k : Moved(st.s, Fire(st, i).s, i, k, st.s[i])
    BY <2>1
  <2>3. \A j \in 1 .. i - 1 : j \in 1 .. k - 1 /\ j # i /\ j \in 1 .. i
    BY <1>3, <1>4, <2>2 DEF Moved
  <2>4. \A j \in 1 .. i - 1 : Fire(st, i).s[j] = timers[j]
    BY <1>2, <2>2, <2>3 DEF Moved
  <2>5. Len(Fire(st, i).s) = Len(st.s) + 1
    BY <2>2 DEF Moved
  <2>6. Len(timers) <= Len(Fire(st, i).s)
    BY <1>2, <1>3, <2>5
  <2>7. Len(Fire(st, i).tm) = Len(timer)
    <3>1. st.tm \in Seq(Timer) /\ DOMAIN st.tm = 1 .. Len(timer) /\ DOMAIN timer = 1 .. Len(timer)
      BY <1>1, <1>2 DEF States
    <3>2. Len(Ticked(st.tm, st.s[i])) = Len(st.tm)
      BY <1>1, <1>5, <3>1, TickedRight
    <3> QED
      BY <1>2, <2>1, <3>2
  <2> QED
    BY <2>1, <2>4, <2>6, <2>7 DEF LoopType
<1> QED
  BY <1>6, <1>7

\* The loop from n down to the first entry, step by step, and what make_timer_goal makes of
\* its end.
Loop(f, n) ==
    /\ f[0] = Start
    /\ \A i \in 1 .. n : f[i] = Fire(f[i - 1], n - i + 1)
    /\ make_timer_goal(n) = [f[n] EXCEPT !.s = Compress(SubSeq(f[n].s, n + 1, Len(f[n].s)))]

LEMMA LoopTyped ==
    ASSUME TypeOK, TimerAssumption, NEW n \in 1 .. Len(timers), NEW f, Loop(f, n),
           \A i \in 1 .. n : timers[i] # NULL
    PROVE  \A i \in 0 .. n : LoopType(f[i], n - i)
<1> DEFINE bad == {i \in 0 .. n : ~LoopType(f[i], n - i)}
<1> SUFFICES ASSUME bad # {} PROVE FALSE
  OBVIOUS
<1>0. Len(timers) \in Nat /\ n \in Nat /\ n >= 1
  BY Typed
<1>1. PICK m \in bad : \A k \in bad : m <= k
  <2>1. bad \in SUBSET Nat
    BY <1>0
  <2> QED
    BY <2>1, LeastElement
<1>2. CASE m = 0
  <2>1. f[0] = Start
    BY DEF Loop
  <2>2. Start \in States /\ Start.s = timers /\ Start.tm = timer
    BY Typed DEF Start, States
  <2>3. LoopType(f[m], n - m)
    BY <1>0, <1>2, <2>1, <2>2 DEF LoopType
  <2> QED
    BY <1>1, <2>3
<1>3. CASE m # 0
  <2>1. m - 1 \in 0 .. n /\ m \in 1 .. n /\ ~(m <= m - 1)
    BY <1>0, <1>3
  <2>2. LoopType(f[m - 1], n - (m - 1))
    BY <1>1, <2>1
  <2> DEFINE i == n - m + 1
  <2>3. i \in 1 .. Len(timers) /\ i \in 1 .. n /\ i = n - (m - 1) /\ i - 1 = n - m
    BY <1>0, <2>1
  <2>4. f[m] = Fire(f[m - 1], i)
    BY <2>1 DEF Loop
  <2> HIDE DEF i
  <2>5. LoopType(f[m], n - m)
    BY <2>2, <2>3, <2>4, FireType
  <2> QED
    BY <1>1, <2>5
<1> QED
  BY <1>2, <1>3

\* A compress leaves the timers.
LEMMA CompressType ==
    ASSUME NEW D \in SUBSET Nat, NEW s \in Seq(D \union {NULL}), NULL \notin Nat
    PROVE  Compress(s) \in Seq(D)
<1>1. /\ Compress(s) \in Seq(D \union {NULL})
      /\ \A i \in DOMAIN Compress(s) : Compress(s)[i] \in Nat
  BY KeepType DEF Compress
<1> HIDE DEF Compress
<1> DEFINE k == Compress(s)
<1>2. Len(k) \in Nat /\ DOMAIN k = 1 .. Len(k) /\ k \in [1 .. Len(k) -> D \union {NULL}]
  BY <1>1
<1>3. \A i \in 1 .. Len(k) : k[i] \in D
  BY <1>1, <1>2
<1>4. k \in [1 .. Len(k) -> D]
  BY <1>2, <1>3
<1> QED
  BY <1>2, <1>4

\* The entries below the highest due one exist.
LEMMA DueRight ==
    ASSUME TypeOK, TimerAssumption
    PROVE  /\ HighestDue \in 0 .. Len(timers)
           /\ HighestDue > 0 => Due(HighestDue)
           /\ \A i \in DOMAIN timers : Due(i) => i <= HighestDue
<1> DEFINE T == {i \in DOMAIN timers : Due(i)}
           M == {0} \union T
<1>0. Len(timers) \in Nat /\ DOMAIN timers = 1 .. Len(timers)
  BY Typed
<1>1. M \in SUBSET (0 .. Len(timers)) /\ M # {} /\ 0 \in M
  BY <1>0
<1>2. Max(M) \in M /\ \A y \in M : y <= Max(M)
  BY <1>0, <1>1, MaxRight
<1>3. Max(M) = HighestDue
  BY DEF HighestDue
<1>4. HighestDue \in M /\ \A y \in M : y <= HighestDue
  BY <1>2, <1>3
<1> HIDE DEF HighestDue, Due
<1> QED
  BY <1>0, <1>1, <1>4

\* What a call of make_timer_goal leaves.
LEMMA GoalType ==
    ASSUME TypeOK, TimerAssumption, NEW n \in 1 .. Len(timers),
           \A i \in 1 .. n : timers[i] # NULL
    PROVE  LET end == make_timer_goal(n)
           IN  /\ end.s \in Seq(DOMAIN timer) /\ end.tm \in Seq(Timer)
               /\ Len(end.tm) = Len(timer) /\ end.freed \subseteq DOMAIN timer
<1>0. /\ Len(timers) \in Nat /\ n \in Nat /\ DOMAIN timer \in SUBSET Nat /\ NULL \notin Nat
  BY Typed
<1>1. PICK f : Loop(f, n)
  BY <1>0, GoalLoop DEF Loop
<1>2. LoopType(f[n], n - n) /\ n - n = 0
  <2>1. \A i \in 0 .. n : LoopType(f[i], n - i)
    BY <1>1, LoopTyped
  <2> QED
    BY <1>0, <2>1
<1> DEFINE st == f[n]
           rest == SubSeq(st.s, n + 1, Len(st.s))
<1>3. /\ st \in States /\ st.s \in Seq(Objects) /\ st.tm \in Seq(Timer)
      /\ st.freed \subseteq DOMAIN timer /\ Len(st.tm) = Len(timer)
      /\ st = [s |-> st.s, tm |-> st.tm, freed |-> st.freed]
  BY <1>2 DEF LoopType, States
<1>4. make_timer_goal(n) = [st EXCEPT !.s = Compress(rest)]
  BY <1>1 DEF Loop
<1>5. rest \in Seq(Objects)
  BY <1>0, <1>3
<1> HIDE DEF st, rest
<1>6. Compress(rest) \in Seq(DOMAIN timer)
  BY <1>0, <1>5, CompressType DEF Objects
<1>7. make_timer_goal(n) = [s |-> Compress(rest), tm |-> st.tm, freed |-> st.freed]
  BY <1>3, <1>4
<1> QED
  BY <1>3, <1>6, <1>7

-----------------------------------------------------------------------------
(* Types, and what an exit leaves.                                         *)

\* An array of objects and NULL has its type.
LEMMA ArrayType ==
    ASSUME NEW D \in SUBSET Nat, NEW s \in Seq(D \union {NULL})
    PROVE  s \in Seq(Nat \union {NULL}) /\ Pointers(s) \ {NULL} \subseteq D
<1>1. s \in Seq(Nat \union {NULL})
  BY SeqMonotonic
<1>2. \A i \in DOMAIN s : s[i] \in D \union {NULL}
  OBVIOUS
<1> QED
  BY <1>1, <1>2 DEF Pointers

\* delete_all_timers leaves no timer of the thread, although it may leave a NULL and
\* entries twice.
LEMMA ExitArray ==
    ASSUME TypeOK, TimerAssumption, NEW th
    PROVE  /\ delete_all_timers(timers, timer, th) \in Seq(Objects)
           /\ \A p \in Pointers(delete_all_timers(timers, timer, th)) :
                 p # NULL => timer[p].thread # th
<1> DEFINE mine == {p \in DOMAIN timer : timer[p].thread = th}
           kept == Keep(timers, Nat \ mine)
           gone == Keep(timers, mine)
           Old(i) == IF timers[i] \in mine \/ (i = Len(kept) + 1 /\ Last(timers) \in mine \union {NULL})
                     THEN NULL ELSE timers[i]
           d == [i \in 1 .. Len(timers) - Len(gone) |-> IF i <= Len(kept) THEN kept[i] ELSE Old(i)]
           Right(p) == p = NULL \/ (p \in DOMAIN timer /\ p \notin mine)
<1>0. timers \in Seq(Objects) /\ Len(timers) \in Nat /\ DOMAIN timers = 1 .. Len(timers)
  BY Typed
<1>1. kept \in Seq(Objects) /\ \A i \in DOMAIN kept : kept[i] \in Nat \ mine
  BY <1>0, KeepType
<1>2. gone \in Seq(Objects) /\ Len(gone) <= Len(timers)
  BY <1>0, KeepType
<1>3. Len(gone) \in Nat /\ Len(kept) \in Nat /\ DOMAIN kept = 1 .. Len(kept)
  BY <1>1, <1>2
<1>4. delete_all_timers(timers, timer, th) = d
  BY DEF delete_all_timers
<1> HIDE DEF kept, gone
<1>5. ASSUME NEW i \in 1 .. Len(timers) - Len(gone) PROVE Right(d[i])
  <2>1. CASE i <= Len(kept)
    <3>1. d[i] = kept[i] /\ i \in DOMAIN kept
      BY <1>3, <2>1
    <3>2. kept[i] \in Objects /\ kept[i] \notin mine
      BY <1>1, <3>1
    <3> HIDE DEF d, mine
    <3> QED
      BY <3>1, <3>2 DEF Objects
  <2>2. CASE ~(i <= Len(kept))
    <3>1. d[i] = Old(i) /\ i \in 1 .. Len(timers)
      BY <1>0, <1>2, <1>3, <2>2
    <3>2. timers[i] \in Objects
      BY <1>0, <3>1
    <3>3. Old(i) = NULL \/ (Old(i) = timers[i] /\ timers[i] \notin mine)
      OBVIOUS
    <3> HIDE DEF d, mine, Old
    <3> QED
      BY <3>1, <3>2, <3>3 DEF Objects
  <2> QED
    BY <2>1, <2>2
<1>6. \A i \in 1 .. Len(timers) - Len(gone) : d[i] \in Objects
  BY <1>5 DEF Objects
<1>7. Len(timers) - Len(gone) \in Nat
  BY <1>0, <1>2, <1>3
<1>8. DOMAIN d = 1 .. Len(timers) - Len(gone)
  OBVIOUS
<1>9. d = [i \in DOMAIN d |-> d[i]]
  OBVIOUS
<1> HIDE DEF d
<1>10. d \in Seq(Objects)
  <2>1. d \in [1 .. Len(timers) - Len(gone) -> Objects]
    BY <1>6, <1>8, <1>9
  <2> QED
    BY <1>7, <2>1
<1>11. \A p \in Pointers(d) : Right(p)
  BY <1>5, <1>8 DEF Pointers
<1> QED
  BY <1>4, <1>10, <1>11

\* delete_timer loses an entry and leaves a NULL.
LEMMA DeleteType ==
    ASSUME NEW S, NULL \in S, NEW s \in Seq(S), NEW i \in 1 .. Len(s)
    PROVE  delete_timer(s, i) \in Seq(S)
<1> DEFINE a == SubSeq(s, 1, i - 1)
           b == SubSeq(s, i + 2, Len(s))
           c == a \o <<NULL>> \o b
<1>0. Len(s) \in Nat /\ i \in Nat /\ 1 <= i /\ i <= Len(s)
  OBVIOUS
<1>1. a \in Seq(S) /\ Len(a) = i - 1
  BY <1>0
<1>2. b \in Seq(S) /\ Len(b) = IF i + 2 <= Len(s) THEN Len(s) - (i + 2) + 1 ELSE 0
  <2>1. \A j \in i + 2 .. Len(s) : s[j] \in S
    BY <1>0
  <2>2. i + 2 \in Int /\ Len(s) \in Int
    BY <1>0
  <2> QED
    BY <2>1, <2>2, SubSeqProperties
<1> HIDE DEF a, b
<1>3. c \in Seq(S) /\ Len(c) = Len(a) + 1 + Len(b)
  <2> DEFINE x == a \o <<NULL>>
  <2>1. x \in Seq(S) /\ Len(x) = Len(a) + 1
    BY <1>1
  <2>2. c = x \o b
    OBVIOUS
  <2> HIDE DEF x, c
  <2>3. x \o b \in Seq(S) /\ Len(x \o b) = Len(x) + Len(b)
    BY <1>2, <2>1, ConcatProperties
  <2> QED
    BY <2>1, <2>2, <2>3
<1>4. Len(s) - 1 <= Len(c)
  BY <1>0, <1>1, <1>2, <1>3
<1> HIDE DEF c
<1>5. SubSeq(c, 1, Len(s) - 1) \in Seq(S)
  <2>1. \A j \in 1 .. Len(s) - 1 : c[j] \in S
    BY <1>0, <1>3, <1>4
  <2>2. 1 \in Int /\ Len(s) - 1 \in Int
    BY <1>0
  <2> QED
    BY <2>1, <2>2, SubSeqProperties
<1>6. delete_timer(s, i) = SubSeq(c, 1, Len(s) - 1)
  BY DEF delete_timer, a, b, c
<1> QED
  BY <1>5, <1>6

\* The state has its type in every behaviour: timers are allocated objects or NULL,
\* whatever is inserted, fired, deleted or removed with its thread (timer.cc).
LEMMA CreateType ==
    ASSUME TypeOK, TimerAssumption, NEW th \in Threads, NEW d \in Deltas, NEW ot \in OneTimeFlags,
           psi_create_timer(th, d, ot)
    PROVE  TypeOK'
<1> DEFINE it == next_id + 1
           e == [thread |-> th, time |-> now + d, delta |-> d, one_time |-> ot]
<1>1. /\ timers \in Seq(Objects) /\ timer \in Seq(Timer) /\ Len(timer) \in Nat
      /\ now \in Nat /\ d \in Nat /\ NULL \notin Nat
  BY Typed
<1>2. /\ timer' = Append(timer, e) /\ timers' = insert_timer(timers, timer', it)
      /\ UNCHANGED <<freed, now, goal>> /\ status' \in {"running", "fatal"}
  BY DEF psi_create_timer
<1>3. e \in Timer
  BY <1>1 DEF Timer
<1> HIDE DEF e
<1>4. timer' \in Seq(Timer) /\ Len(timer') = Len(timer) + 1
  BY <1>1, <1>2, <1>3
<1>5. it \in DOMAIN timer' /\ DOMAIN timer' \in SUBSET Nat /\ DOMAIN timer \subseteq DOMAIN timer'
  BY <1>1, <1>4 DEF next_id
<1> DEFINE O == DOMAIN timer' \union {NULL}
<1>6. timers \in Seq(O) /\ it \in O
  <2>1. Objects \subseteq O
    BY <1>5 DEF Objects
  <2> QED
    BY <1>1, <1>5, <2>1, SeqMonotonic
<1>7. timers' \in Seq(O)
  <2>1. InsertPoint(timers, timer', it) \in 1 .. Len(timers) + 1
    BY <1>1, PointRight
  <2> HIDE DEF O, it
  <2> QED
    BY <1>2, <1>6, <2>1, InsertRight DEF insert_timer
<1>8. timers' \in Seq(Nat \union {NULL}) /\ Stacked' \subseteq DOMAIN timer'
  BY <1>5, <1>7, ArrayType DEF Stacked
<1>9. goal' \in Seq(DOMAIN timer') /\ freed' \subseteq DOMAIN timer'
  <2>1. goal \in Seq(DOMAIN timer) /\ freed \subseteq DOMAIN timer
    BY DEF TypeOK
  <2> QED
    BY <1>2, <1>5, <2>1, SeqMonotonic
<1> QED
  BY <1>1, <1>2, <1>4, <1>8, <1>9 DEF TypeOK

LEMMA GoalsType ==
    ASSUME TypeOK, TimerAssumption, psi_timer_goals
    PROVE  TypeOK' /\ DOMAIN timer' = DOMAIN timer
<1> DEFINE n == HighestDue
           end == make_timer_goal(n)
<1>1. /\ timers \in Seq(Objects) /\ Len(timers) \in Nat /\ DOMAIN timer \in SUBSET Nat
      /\ DOMAIN timers = 1 .. Len(timers)
  BY Typed
<1>2. /\ timers' = end.s /\ timer' = end.tm /\ freed' = end.freed
      /\ goal' = SubSeq(timers, 1, n) /\ UNCHANGED <<now, status>>
      /\ n > 0 /\ ~GoalUndefined
  BY DEF psi_timer_goals
<1>3. n \in 1 .. Len(timers)
  BY <1>1, <1>2, DueRight
<1>4. \A i \in 1 .. n : timers[i] # NULL
  <2>1. \A i \in 1 .. n : i \in DOMAIN timers
    BY <1>1, <1>3
  <2>2. \A i \in 1 .. n : timers[i] \in Pointers(timers)
    BY <2>1 DEF Pointers
  <2> QED
    BY <1>2, <2>2 DEF GoalUndefined, Dangling
<1> HIDE DEF n
<1>5. /\ end.s \in Seq(DOMAIN timer) /\ end.tm \in Seq(Timer)
      /\ Len(end.tm) = Len(timer) /\ end.freed \subseteq DOMAIN timer
  BY <1>3, <1>4, GoalType
<1> HIDE DEF end
<1>6. timer \in Seq(Timer)
  BY DEF TypeOK
<1>7. DOMAIN timer' = DOMAIN timer
  BY <1>2, <1>5, <1>6
<1>8. timers' \in Seq(Nat \union {NULL}) /\ Stacked' \subseteq DOMAIN timer'
  <2>1. timers' \in Seq(DOMAIN timer \union {NULL})
    BY <1>2, <1>5, SeqMonotonic
  <2> QED
    BY <1>1, <1>7, <2>1, ArrayType DEF Stacked
<1>9. goal' \in Seq(DOMAIN timer)
  <2>1. \A i \in 1 .. n : timers[i] \in DOMAIN timer
    BY <1>1, <1>3, <1>4 DEF Objects
  <2>2. n \in Int
    BY <1>3
  <2> QED
    BY <1>2, <2>1, <2>2, SubSeqProperties
<1> QED
  BY <1>2, <1>5, <1>7, <1>8, <1>9 DEF TypeOK

LEMMA DeletesType ==
    ASSUME TypeOK, TimerAssumption, NEW th, NEW id, psi_delete_timer(th, id)
    PROVE  TypeOK'
<1> DEFINE T == {i \in 1 .. Len(timers) : timers[i] = id}
<1>1. timers \in Seq(Objects) /\ Len(timers) \in Nat /\ DOMAIN timer \in SUBSET Nat
  BY Typed
<1>2. /\ id \in Stacked
      /\ timers' = delete_timer(timers, SelectInSeq(timers, LAMBDA p : p = id))
      /\ freed' = freed \union {id}
      /\ UNCHANGED <<timer, now, goal, status>>
  BY DEF psi_delete_timer
<1>3. T # {} /\ T \in SUBSET Nat
  BY <1>1, <1>2 DEF Stacked, Pointers
<1>4. PICK m \in T : \A k \in T : m <= k
  BY <1>3, LeastElement
<1>5. Min(T) \in T
  BY <1>4 DEF Min
<1>6. SelectInSeq(timers, LAMBDA p : p = id) = Min(T)
  BY <1>3 DEF SelectInSeq
<1>7. timers' \in Seq(Objects)
  <2>1. Min(T) \in 1 .. Len(timers) /\ NULL \in Objects
    BY <1>5 DEF Objects
  <2> QED
    BY <1>1, <1>2, <1>6, <2>1, DeleteType
<1>8. timers' \in Seq(Nat \union {NULL}) /\ Stacked' \subseteq DOMAIN timer
  BY <1>1, <1>7, ArrayType DEF Objects, Stacked
<1>9. freed' \subseteq DOMAIN timer
  BY <1>2 DEF TypeOK
<1> QED
  BY <1>2, <1>8, <1>9 DEF TypeOK

LEMMA ExitType ==
    ASSUME TypeOK, TimerAssumption, NEW th, psi_thread_exit(th)
    PROVE  TypeOK'
<1>1. DOMAIN timer \in SUBSET Nat
  BY Typed
<1>2. /\ timers' = delete_all_timers(timers, timer, th)
      /\ freed' = freed \union {p \in Stacked : timer[p].thread = th}
      /\ UNCHANGED <<timer, now, goal, status>>
  BY DEF psi_thread_exit
<1>3. timers' \in Seq(Objects)
  BY <1>2, ExitArray
<1>4. timers' \in Seq(Nat \union {NULL}) /\ Stacked' \subseteq DOMAIN timer
  BY <1>1, <1>3, ArrayType DEF Objects, Stacked
<1>5. freed' \subseteq DOMAIN timer
  BY <1>2 DEF TypeOK
<1> QED
  BY <1>2, <1>4, <1>5 DEF TypeOK

LEMMA TypeStep ==
    ASSUME TypeOK, TimerAssumption, [Next]_vars
    PROVE  TypeOK'
<1>1. CASE \E th \in Threads, d \in Deltas, ot \in OneTimeFlags : psi_create_timer(th, d, ot)
  BY <1>1, CreateType
<1>2. CASE \E th \in DeleteCallers, id \in 1 .. MaxTimers : psi_delete_timer(th, id)
  BY <1>2, DeletesType
<1>3. CASE \E th \in Threads : psi_thread_exit(th)
  BY <1>3, ExitType
<1>4. CASE psi_timer_goals
  BY <1>4, GoalsType
<1>5. CASE run_timer_goal
  BY <1>5, GoalsType DEF run_timer_goal
<1>6. CASE Undefined
  BY <1>6 DEF Undefined, TypeOK, Stacked
<1>7. CASE Tick
  BY <1>7 DEF Tick, TypeOK, Stacked
<1>8. CASE UNCHANGED vars
  BY <1>8 DEF vars, TypeOK, Stacked
<1> QED
  BY <1>1, <1>2, <1>3, <1>4, <1>5, <1>6, <1>7, <1>8 DEF Next

\* The array holds NULL and objects that were made, whatever callers do (timer.h).
THEOREM TypeCorrect == Spec => []TypeOK
<1>1. Init => TypeOK
  <2> SUFFICES ASSUME Init PROVE TypeOK
    OBVIOUS
  <2>1. timers = <<>> /\ timer = <<>> /\ freed = {} /\ now = 0 /\ goal = <<>> /\ status = "running"
    BY DEF Init
  <2>2. timers \in Seq(Nat \union {NULL}) /\ timer \in Seq(Timer) /\ goal \in Seq(DOMAIN timer)
    BY <2>1, EmptySeq
  <2>3. DOMAIN timers = {}
    BY <2>1
  <2>4. Stacked = {}
    BY <2>3 DEF Stacked, Pointers
  <2> QED
    BY <2>1, <2>2, <2>4 DEF TypeOK
<1>2. TypeOK /\ [Next]_vars => TypeOK'
  BY TypeStep, TimerAssumption
<1> QED
  BY <1>1, <1>2, PTL DEF Spec

\* After an exit no entry points to a timer of the thread, whatever the array was:
\* also where delete_timer has left a NULL and delete_all_timers leaves entries
\* twice (delete_all_timers).
THEOREM ExitRight == Spec => ExitRemovesTimers
<1>1. ASSUME TypeOK
      PROVE  \A th \in Threads : psi_thread_exit(th) =>
                \A p \in Pointers(timers') : p # NULL => timer'[p].thread # th
  <2>1. ASSUME NEW th \in Threads, psi_thread_exit(th), NEW p \in Pointers(timers'), p # NULL
        PROVE  timer'[p].thread # th
    <3>1. timers' = delete_all_timers(timers, timer, th) /\ timer' = timer
      BY <2>1 DEF psi_thread_exit
    <3>2. p \in Pointers(delete_all_timers(timers, timer, th))
      BY <2>1, <3>1
    <3> QED
      BY <1>1, <2>1, <3>1, <3>2, ExitArray, TimerAssumption
  <2> QED
    BY <2>1
<1> DEFINE A == \A th \in Threads : psi_thread_exit(th) =>
                  \A p \in Pointers(timers') : p # NULL => timer'[p].thread # th
<1>2. TypeOK => A
  BY <1>1
<1>3. Spec => [][A]_vars
  BY <1>2, TypeCorrect, PTL DEF Spec
<1> QED
  BY <1>3 DEF ExitRemovesTimers

-----------------------------------------------------------------------------
(* The order.  It needs that no NULL and no timer twice is in the array,   *)
(* which holds as long as delete_timer is not called: after it an exit     *)
(* leaves entries twice, and a repeating timer that is there twice and     *)
(* fires is then out of order.                                             *)

Full(s) == \A i \in DOMAIN s : s[i] # NULL
Once(s) == \A i, j \in DOMAIN s : s[i] = s[j] /\ s[i] # NULL => i = j
Ordered(s, tm) ==
    \A i, j \in DOMAIN s : i < j /\ s[i] # NULL /\ s[j] # NULL => tm[s[i]].time <= tm[s[j]].time

Timed(tm) == \A q \in DOMAIN timer : tm[q].time \in Nat

\* Where the entry at j was before p moved to k.
Back(j, k) == IF j < k THEN j ELSE j - 1

Shifted(s, u, i, k, p) ==
    /\ \A j \in 1 .. Len(s) + 1 :
          u[j] # NULL /\ j # k =>
             /\ Back(j, k) \in 1 .. Len(s) /\ Back(j, k) # i
             /\ u[j] = s[Back(j, k)] /\ u[j] # p /\ u[j] \in DOMAIN timer
    /\ \A a, b \in 1 .. Len(s) + 1 : a < b /\ a # k /\ b # k => Back(a, k) < Back(b, k)

LEMMA BackRight ==
    ASSUME NEW s \in Seq(Objects), NEW u \in Seq(Objects), NEW i \in 1 .. Len(s), NEW k, NEW p,
           s[i] = p, p # NULL, Moved(s, u, i, k, p), Once(s)
    PROVE  Shifted(s, u, i, k, p)
<1>0. Len(s) \in Nat /\ k \in i + 1 .. Len(s) + 1 /\ DOMAIN s = 1 .. Len(s) /\ k \in Nat /\ i \in Nat
  BY DEF Moved
<1>1. ASSUME NEW j \in 1 .. Len(s) + 1, u[j] # NULL, j # k
      PROVE  /\ Back(j, k) \in 1 .. Len(s) /\ Back(j, k) # i
             /\ u[j] = s[Back(j, k)] /\ u[j] # p /\ u[j] \in DOMAIN timer
  <2>1. j # i
    BY <1>1 DEF Moved
  <2>2. Back(j, k) \in 1 .. Len(s) /\ Back(j, k) # i
    BY <1>0, <1>1, <2>1 DEF Back
  <2>3. u[j] = s[Back(j, k)]
    <3>1. CASE j < k
      <4>1. j \in 1 .. k - 1
        BY <1>0, <3>1
      <4> QED
        BY <2>1, <3>1, <4>1 DEF Moved, Back
    <3>2. CASE ~(j < k)
      <4>1. j \in k + 1 .. Len(s) + 1
        BY <1>0, <1>1, <3>2
      <4> QED
        BY <3>2, <4>1 DEF Moved, Back
    <3> QED
      BY <3>1, <3>2
  <2>4. u[j] # p
    BY <1>0, <1>1, <2>2, <2>3 DEF Once
  <2>5. u[j] \in DOMAIN timer
    BY <1>0, <1>1, <2>2, <2>3 DEF Objects
  <2> QED
    BY <2>2, <2>3, <2>4, <2>5
<1>2. ASSUME NEW a \in 1 .. Len(s) + 1, NEW b \in 1 .. Len(s) + 1, a < b, a # k, b # k
      PROVE  Back(a, k) < Back(b, k)
  BY <1>0, <1>2 DEF Back
<1> QED
  BY <1>1, <1>2 DEF Shifted

\* A timer that moves up to its place leaves the array in order, also while its own entry and
\* those below it, which are not later, are still there.
LEMMA MovedRight ==
    ASSUME NEW s \in Seq(Objects), NEW u \in Seq(Objects), NEW i \in 1 .. Len(s), NEW k,
           NEW p \in DOMAIN timer, s[i] = p, p # NULL,
           NEW old, NEW tm, Timed(old), Timed(tm), \A q \in DOMAIN timer : q # p => tm[q] = old[q],
           Moved(s, u, i, k, p), Placed(s, tm, k, p), Once(s), Ordered(s, old),
           \A j \in 1 .. i - 1 : s[j] # NULL => old[s[j]].time <= tm[p].time
    PROVE  Once(u) /\ Ordered(u, tm)
<1>0. /\ Len(s) \in Nat /\ k \in i + 1 .. Len(s) + 1 /\ DOMAIN s = 1 .. Len(s) /\ k \in Nat /\ i \in Nat
      /\ Len(u) = Len(s) + 1 /\ DOMAIN u = 1 .. Len(s) + 1 /\ u[k] = p /\ u[i] = NULL
  BY DEF Moved
<1>1. /\ \A j \in 1 .. Len(s) + 1 :
            u[j] # NULL /\ j # k =>
               /\ Back(j, k) \in 1 .. Len(s) /\ Back(j, k) # i
               /\ u[j] = s[Back(j, k)] /\ u[j] # p /\ u[j] \in DOMAIN timer
      /\ \A a, b \in 1 .. Len(s) + 1 : a < b /\ a # k /\ b # k => Back(a, k) < Back(b, k)
  <2>1. Shifted(s, u, i, k, p)
    BY BackRight
  <2> QED
    BY <2>1 DEF Shifted
<1>2. ASSUME NEW a \in 1 .. Len(s) + 1, NEW b \in 1 .. Len(s) + 1, u[a] = u[b], u[a] # NULL
      PROVE  a = b
  <2>1. CASE a # k /\ b # k
    <3>1. /\ Back(a, k) \in 1 .. Len(s) /\ Back(b, k) \in 1 .. Len(s)
          /\ u[a] = s[Back(a, k)] /\ u[b] = s[Back(b, k)]
      BY <1>1, <1>2, <2>1
    <3>2. Back(a, k) = Back(b, k)
      BY <1>0, <1>2, <3>1 DEF Once
    <3>3. ~(Back(a, k) < Back(b, k)) /\ ~(Back(b, k) < Back(a, k))
      BY <3>1, <3>2
    <3>4. ~(a < b) /\ ~(b < a)
      BY <1>1, <2>1, <3>3
    <3> QED
      BY <3>4
  <2>2. CASE a = k \/ b = k
    BY <1>0, <1>1, <1>2, <2>2
  <2> QED
    BY <2>1, <2>2
<1>3. ASSUME NEW a \in 1 .. Len(s) + 1, NEW b \in 1 .. Len(s) + 1, a < b, u[a] # NULL, u[b] # NULL
      PROVE  tm[u[a]].time <= tm[u[b]].time
  <2>0. a # i /\ b # i
    BY <1>0, <1>3
  <2>1. CASE a # k /\ b # k
    <3>1. /\ Back(a, k) \in 1 .. Len(s) /\ Back(b, k) \in 1 .. Len(s) /\ Back(a, k) < Back(b, k)
          /\ u[a] = s[Back(a, k)] /\ u[b] = s[Back(b, k)]
      BY <1>1, <1>3, <2>1
    <3>2. old[u[a]].time <= old[u[b]].time
      BY <1>0, <1>3, <3>1 DEF Ordered
    <3>3. tm[u[a]] = old[u[a]] /\ tm[u[b]] = old[u[b]]
      BY <1>1, <1>3, <2>1
    <3> QED
      BY <3>2, <3>3
  <2>2. CASE b = k
    <3>1. a # k /\ a < k /\ u[b] = p
      BY <1>0, <1>3, <2>2
    <3>2. u[a] = s[a] /\ a \in 1 .. Len(s) /\ tm[u[a]] = old[u[a]] /\ u[a] \in DOMAIN timer
      <4>1. Back(a, k) = a
        BY <3>1 DEF Back
      <4> QED
        BY <1>1, <1>3, <3>1, <4>1
    <3>3. CASE a < i
      <4>1. a \in 1 .. i - 1
        BY <1>0, <3>2, <3>3
      <4> QED
        BY <1>3, <3>1, <3>2, <4>1
    <3>4. CASE a > i
      <4>1. k > 1 /\ k - 1 \in 1 .. Len(s) /\ a <= k - 1 /\ k - 1 # i /\ a \in Nat
        BY <1>0, <3>1, <3>2, <3>4
      <4>2. s[k - 1] # NULL /\ ~(tm[p].time < tm[s[k - 1]].time)
        BY <4>1 DEF Placed
      <4>3. s[k - 1] \in DOMAIN timer /\ s[k - 1] # p
        BY <1>0, <4>1, <4>2 DEF Objects, Once
      <4>4. tm[s[k - 1]] = old[s[k - 1]]
        BY <4>3
      <4>5. old[s[a]].time <= old[s[k - 1]].time
        <5>1. CASE a = k - 1
          <6>1. old[s[a]].time \in Nat
            BY <3>2 DEF Timed
          <6> QED
            BY <5>1, <6>1
        <5>2. CASE a # k - 1
          <6>1. a < k - 1
            BY <4>1, <5>2, <1>0
          <6> QED
            BY <1>0, <1>3, <3>2, <4>1, <4>2, <6>1 DEF Ordered
        <5> QED
          BY <5>1, <5>2
      <4>6. old[s[a]].time \in Nat /\ old[s[k - 1]].time \in Nat /\ tm[p].time \in Nat
        BY <3>2, <4>3 DEF Timed
      <4>7. old[s[a]].time <= tm[p].time
        <5>1. ~(tm[p].time < old[s[k - 1]].time)
          BY <4>2, <4>4
        <5>2. \A x, y, z \in Nat : x <= y /\ ~(z < y) => x <= z
          OBVIOUS
        <5> QED
          BY <4>5, <4>6, <5>1, <5>2
      <4> QED
        BY <3>1, <3>2, <4>7
    <3>5. a < i \/ a > i
      BY <1>0, <2>0, <3>2
    <3> QED
      BY <3>3, <3>4, <3>5
  <2>3. CASE a = k
    <3>1. b # k /\ ~(b < k) /\ u[a] = p
      BY <1>0, <1>3, <2>3
    <3>2. Back(b, k) = b - 1 /\ b - 1 \in k .. Len(s)
      <4>1. Back(b, k) = b - 1
        BY <3>1 DEF Back
      <4>2. b > k /\ b \in Nat
        BY <1>0, <1>3, <2>3
      <4> QED
        BY <1>0, <4>1, <4>2
    <3>3. u[b] = s[b - 1] /\ u[b] \in DOMAIN timer
      BY <1>1, <1>3, <3>1, <3>2
    <3>4. tm[p].time < tm[u[b]].time
      BY <1>3, <3>2, <3>3 DEF Placed
    <3>5. tm[p].time \in Nat /\ tm[u[b]].time \in Nat
      BY <3>3 DEF Timed
    <3>6. \A x, y \in Nat : x < y => x <= y
      OBVIOUS
    <3> QED
      BY <3>1, <3>4, <3>5, <3>6
  <2> QED
    BY <2>1, <2>2, <2>3
<1> QED
  BY <1>0, <1>2, <1>3 DEF Once, Ordered

\* The order of the array and what it rests on.
Sorted == TypeOK /\ Full(timers) /\ Once(timers) /\ Ordered(timers, timer)

\* While the loop is at entry i of n: the array is in order, the timers up to i have their old
\* times, those above are not due before now, and those that have fired and repeat are a
\* period away.
LoopRight(st, i, n) ==
    /\ Once(st.s) /\ Ordered(st.s, st.tm)
    /\ \A j \in 1 .. i : st.tm[timers[j]] = timer[timers[j]]
    /\ \A j \in i + 1 .. Len(st.s) : st.s[j] # NULL => now <= st.tm[st.s[j]].time
    /\ \A j \in i + 1 .. n :
          ~timer[timers[j]].one_time => st.tm[timers[j]].time = now + timer[timers[j]].delta
    /\ \A p \in DOMAIN timer :
          st.tm[p].delta = timer[p].delta /\ st.tm[p].one_time = timer[p].one_time

\* Below the highest due entry all are due.
LEMMA AllDue ==
    ASSUME Sorted, TimerAssumption, NEW n \in 1 .. Len(timers), Due(n)
    PROVE  \A j \in 1 .. n : /\ timers[j] \in DOMAIN timer
                             /\ timer[timers[j]].time \in Nat
                             /\ timer[timers[j]].time <= now
<1>0. /\ timers \in Seq(Objects) /\ timer \in Seq(Timer) /\ now \in Nat /\ Deltas \subseteq Nat
      /\ Len(timers) \in Nat /\ DOMAIN timers = 1 .. Len(timers)
  BY Typed DEF Sorted
<1>1. \A j \in 1 .. Len(timers) : timers[j] # NULL /\ timers[j] \in DOMAIN timer
  BY <1>0 DEF Sorted, Full, Objects
<1>2. \A p \in DOMAIN timer : timer[p].time \in Nat
  <2>1. \A p \in DOMAIN timer : timer[p] \in Timer
    BY <1>0
  <2> QED
    BY <2>1 DEF Timer
<1>3. ASSUME NEW j \in 1 .. n PROVE timer[timers[j]].time <= now
  <2>1. j \in 1 .. Len(timers) /\ n \in 1 .. Len(timers)
    BY <1>0
  <2>2. timer[timers[n]].time <= now
    BY DEF Due
  <2>3. CASE j = n
    BY <2>2, <2>3
  <2>4. CASE j # n
    <3>1. j < n
      BY <1>0, <2>4
    <3>2. timer[timers[j]].time <= timer[timers[n]].time
      BY <1>0, <1>1, <2>1, <3>1 DEF Sorted, Ordered
    <3>3. timer[timers[j]].time \in Nat /\ timer[timers[n]].time \in Nat
      BY <1>1, <1>2, <2>1
    <3> QED
      BY <1>0, <2>2, <3>2, <3>3
  <2> QED
    BY <2>3, <2>4
<1> QED
  BY <1>0, <1>1, <1>2, <1>3

\* An object type: times of timers are numbers.
LEMMA TimesRight ==
    ASSUME TypeOK, TimerAssumption, NEW tm \in Seq(Timer), Len(tm) = Len(timer)
    PROVE  Timed(tm) /\ DOMAIN tm = DOMAIN timer
<1>1. timer \in Seq(Timer)
  BY Typed
<1>2. DOMAIN tm = DOMAIN timer
  <2>1. \A a \in Seq(Timer) : DOMAIN a = 1 .. Len(a)
    OBVIOUS
  <2> QED
    BY <1>1, <2>1
<1>3. \A q \in DOMAIN tm : tm[q].time \in Nat
  <2>1. \A q \in DOMAIN tm : tm[q] \in Timer
    OBVIOUS
  <2> QED
    BY <2>1 DEF Timer
<1> QED
  BY <1>2, <1>3 DEF Timed

LEMMA FireOnceRight ==
    ASSUME Sorted, TimerAssumption, NEW n \in 1 .. Len(timers), Due(n), NEW i \in 1 .. n,
           NEW st, LoopType(st, i), LoopRight(st, i, n), timer[timers[i]].one_time
    PROVE  LoopRight(Fire(st, i), i - 1, n)
<1>0. /\ Len(timers) \in Nat /\ n \in Nat /\ i \in Nat /\ i \in 1 .. Len(timers) /\ i \in 1 .. i
      /\ NULL \notin DOMAIN timer
  BY Typed DEF Sorted
<1>1. /\ st \in States /\ st.s \in Seq(Objects) /\ Len(timers) <= Len(st.s) /\ Len(st.s) \in Nat
      /\ DOMAIN st.s = 1 .. Len(st.s)
      /\ \A j \in 1 .. i : st.s[j] = timers[j]
  BY DEF LoopType, States
<1>2. timers[i] \in DOMAIN timer /\ st.s[i] = timers[i]
  BY <1>0, <1>1, AllDue
<1>3. st.tm[st.s[i]].one_time
  BY <1>2 DEF LoopRight
<1>4. i \in 1 .. Len(st.s)
  BY <1>0, <1>1
<1> DEFINE u == Fire(st, i).s
<1>5. /\ Fire(st, i) \in States /\ Fire(st, i).tm = st.tm
      /\ Len(u) = Len(st.s) /\ u[i] = NULL
      /\ \A j \in 1 .. Len(st.s) : j # i => u[j] = st.s[j]
  BY <1>0, <1>1, <1>2, <1>3, <1>4, FireOnce
<1>6. u \in Seq(Objects) /\ DOMAIN u = 1 .. Len(st.s)
  BY <1>5 DEF States
<1> HIDE DEF u
<1>7. Once(u) /\ Ordered(u, st.tm)
  <2>1. Once(u)
    BY <1>1, <1>5, <1>6 DEF LoopRight, Once
  <2>2. ASSUME NEW a \in 1 .. Len(st.s), NEW b \in 1 .. Len(st.s), a < b, u[a] # NULL, u[b] # NULL
        PROVE  st.tm[u[a]].time <= st.tm[u[b]].time
    <3>1. u[a] = st.s[a] /\ u[b] = st.s[b]
      BY <1>5, <2>2
    <3> QED
      BY <1>1, <2>2, <3>1 DEF LoopRight, Ordered
  <2> QED
    BY <1>6, <2>1, <2>2 DEF Ordered
<1>8. \A j \in 1 .. i - 1 : st.tm[timers[j]] = timer[timers[j]]
  <2>1. \A j \in 1 .. i - 1 : j \in 1 .. i
    BY <1>0
  <2> QED
    BY <2>1 DEF LoopRight
<1>9. ASSUME NEW j \in (i - 1) + 1 .. Len(u), u[j] # NULL PROVE now <= st.tm[u[j]].time
  <2>1. j # i /\ j \in i + 1 .. Len(st.s) /\ j \in 1 .. Len(st.s)
    BY <1>0, <1>1, <1>5, <1>9
  <2>2. u[j] = st.s[j]
    BY <1>5, <2>1
  <2> QED
    BY <1>9, <2>1, <2>2 DEF LoopRight
<1>10. ASSUME NEW j \in (i - 1) + 1 .. n, ~timer[timers[j]].one_time
       PROVE  st.tm[timers[j]].time = now + timer[timers[j]].delta
  <2>1. j # i /\ j \in i + 1 .. n
    BY <1>0, <1>10
  <2> QED
    BY <1>10, <2>1 DEF LoopRight
<1>11. \A p \in DOMAIN timer : st.tm[p].delta = timer[p].delta /\ st.tm[p].one_time = timer[p].one_time
  BY DEF LoopRight
<1> QED
  BY <1>5, <1>7, <1>8, <1>9, <1>10, <1>11 DEF LoopRight, u

LEMMA FireAgainRight ==
    ASSUME Sorted, TimerAssumption, NEW n \in 1 .. Len(timers), Due(n), NEW i \in 1 .. n,
           NEW st, LoopType(st, i), LoopRight(st, i, n), ~timer[timers[i]].one_time
    PROVE  LoopRight(Fire(st, i), i - 1, n)
<1> DEFINE p == timers[i]
           u == Fire(st, i).s
           tm == Ticked(st.tm, p)
<1>0. /\ Len(timers) \in Nat /\ n \in Nat /\ i \in Nat /\ i \in 1 .. Len(timers) /\ i \in 1 .. i
      /\ timers \in Seq(Objects) /\ DOMAIN timers = 1 .. Len(timers)
      /\ timer \in Seq(Timer) /\ now \in Nat /\ Deltas \subseteq Nat /\ NULL \notin DOMAIN timer
  BY Typed DEF Sorted
<1>1. /\ st \in States /\ st.s \in Seq(Objects) /\ Len(timers) <= Len(st.s) /\ Len(st.s) \in Nat
      /\ DOMAIN st.s = 1 .. Len(st.s) /\ st.tm \in Seq(Timer) /\ Len(st.tm) = Len(timer)
      /\ \A j \in 1 .. i : st.s[j] = timers[j]
  BY DEF LoopType, States
<1>2. p \in DOMAIN timer /\ p # NULL /\ st.s[i] = p
  BY <1>0, <1>1, AllDue
<1>3. ~st.tm[st.s[i]].one_time /\ i \in 1 .. Len(st.s)
  BY <1>0, <1>1, <1>2 DEF LoopRight
<1>4. /\ Fire(st, i) \in States /\ Fire(st, i).tm = tm
      /\ \E k : Moved(st.s, u, i, k, p) /\ Placed(st.s, tm, k, p)
  <2>1. st.s[i] \in DOMAIN timer
    BY <1>2
  <2>2. /\ Fire(st, i) \in States
        /\ Fire(st, i).tm = Ticked(st.tm, st.s[i])
        /\ \E k : /\ Moved(st.s, Fire(st, i).s, i, k, st.s[i])
                  /\ Placed(st.s, Ticked(st.tm, st.s[i]), k, st.s[i])
    BY <1>0, <1>1, <1>3, <2>1, FireAgain
  <2> QED
    BY <1>2, <2>2
<1>5. PICK k : Moved(st.s, u, i, k, p) /\ Placed(st.s, tm, k, p)
  BY <1>4
<1>6. Timed(st.tm) /\ DOMAIN st.tm = DOMAIN timer
  BY <1>1, TimesRight DEF Sorted
<1>7. /\ tm \in Seq(Timer) /\ Len(tm) = Len(timer)
      /\ tm[p].time = now + timer[p].delta
      /\ \A q \in DOMAIN timer : /\ tm[q].delta = timer[q].delta
                                 /\ tm[q].one_time = timer[q].one_time
                                 /\ q # p => tm[q] = st.tm[q]
  <2>1. /\ tm \in Seq(Timer) /\ Len(tm) = Len(st.tm)
        /\ tm[p].time = now + st.tm[p].delta
        /\ \A q \in DOMAIN st.tm : /\ tm[q].delta = st.tm[q].delta
                                   /\ tm[q].one_time = st.tm[q].one_time
                                   /\ q # p => tm[q] = st.tm[q]
    <3> HIDE DEF p
    <3>1. p \in DOMAIN st.tm
      BY <1>2, <1>6
    <3> QED
      BY <1>0, <1>1, <3>1, TickedRight
  <2> HIDE DEF tm, p
  <2> QED
    BY <1>1, <1>2, <1>6, <2>1 DEF LoopRight
<1>8. Timed(tm)
  BY <1>7, TimesRight DEF Sorted
<1>9. u \in Seq(Objects)
  BY <1>4 DEF States
<1>10. timer[p].delta \in Nat /\ tm[p].time \in Nat /\ now <= tm[p].time
  <2>1. timer[p] \in Timer
    BY <1>0, <1>2
  <2>2. timer[p].delta \in Nat
    BY <1>0, <2>1 DEF Timer
  <2> HIDE DEF tm, p
  <2> QED
    BY <1>0, <1>7, <2>2
<1>11. \A j \in 1 .. i - 1 : st.tm[timers[j]] = timer[timers[j]] /\ st.s[j] = timers[j]
                            /\ timer[timers[j]].time <= tm[p].time
  <2>1. ASSUME NEW j \in 1 .. i - 1 PROVE timer[timers[j]].time <= tm[p].time
    <3>1. j \in 1 .. n
      BY <1>0
    <3>2. timer[timers[j]].time \in Nat /\ timer[timers[j]].time <= now
      BY <3>1, AllDue
    <3> HIDE DEF tm, p
    <3> QED
      BY <1>0, <1>10, <3>2
  <2>2. \A j \in 1 .. i - 1 : j \in 1 .. i
    BY <1>0
  <2> QED
    BY <1>1, <2>1, <2>2 DEF LoopRight
<1> HIDE DEF u, tm
<1>12. Once(u) /\ Ordered(u, tm)
  <2>1. Once(st.s) /\ Ordered(st.s, st.tm)
    BY DEF LoopRight
  <2>2. \A j \in 1 .. i - 1 : st.s[j] # NULL => st.tm[st.s[j]].time <= tm[p].time
    BY <1>11
  <2>3. \A q \in DOMAIN timer : q # p => tm[q] = st.tm[q]
    BY <1>7
  <2> HIDE DEF p
  <2> QED
    BY <1>1, <1>2, <1>3, <1>5, <1>6, <1>8, <1>9, <2>1, <2>2, <2>3, MovedRight
<1>13. \A j \in 1 .. i - 1 : tm[timers[j]] = timer[timers[j]]
  <2>1. ASSUME NEW j \in 1 .. i - 1 PROVE tm[timers[j]] = timer[timers[j]]
    <3>1. j \in 1 .. n /\ j \in 1 .. Len(timers) /\ j # i
      BY <1>0
    <3>2. timers[j] \in DOMAIN timer /\ timers[j] # NULL
      BY <1>0, <3>1, AllDue
    <3>3. timers[j] # p
      BY <1>0, <1>2, <3>1, <3>2 DEF Sorted, Once
    <3> QED
      BY <1>7, <1>11, <3>2, <3>3
  <2> QED
    BY <2>1
<1>14. ASSUME NEW j \in (i - 1) + 1 .. Len(u), u[j] # NULL PROVE now <= tm[u[j]].time
  <2>1. CASE j = k
    BY <1>5, <1>10, <2>1 DEF Moved
  <2>2. CASE j # k
    <3>1. Shifted(st.s, u, i, k, p)
      <4>1. Once(st.s)
        BY DEF LoopRight
      <4> HIDE DEF p
      <4> QED
        BY <1>1, <1>2, <1>3, <1>5, <1>9, <4>1, BackRight
    <3>2. Len(u) = Len(st.s) + 1 /\ u[i] = NULL /\ k \in i + 1 .. Len(st.s) + 1
      BY <1>5 DEF Moved
    <3>3. j \in 1 .. Len(st.s) + 1 /\ j # i /\ j \in Nat /\ i < j
      BY <1>0, <1>1, <1>14, <3>2
    <3>4. /\ Back(j, k) \in 1 .. Len(st.s) /\ Back(j, k) # i
          /\ u[j] = st.s[Back(j, k)] /\ u[j] # p /\ u[j] \in DOMAIN timer
      BY <1>14, <2>2, <3>1, <3>3 DEF Shifted
    <3>5. Back(j, k) \in i + 1 .. Len(st.s)
      BY <1>0, <1>1, <3>2, <3>3, <3>4 DEF Back
    <3>6. now <= st.tm[u[j]].time
      BY <1>14, <3>4, <3>5 DEF LoopRight
    <3>7. tm[u[j]] = st.tm[u[j]]
      BY <1>7, <3>4
    <3> QED
      BY <3>6, <3>7
  <2> QED
    BY <2>1, <2>2
<1>15. ASSUME NEW j \in (i - 1) + 1 .. n, ~timer[timers[j]].one_time
       PROVE  tm[timers[j]].time = now + timer[timers[j]].delta
  <2>1. CASE j = i
    BY <1>7, <2>1
  <2>2. CASE j # i
    <3>1. j \in i + 1 .. n /\ j \in 1 .. n /\ j \in 1 .. Len(timers)
      BY <1>0, <2>2
    <3>2. st.tm[timers[j]].time = now + timer[timers[j]].delta
      BY <1>15, <3>1 DEF LoopRight
    <3>3. timers[j] \in DOMAIN timer /\ timers[j] # p
      BY <1>0, <1>2, <2>2, <3>1, AllDue DEF Sorted, Once
    <3> QED
      BY <1>7, <3>2, <3>3
  <2> QED
    BY <2>1, <2>2
<1> QED
  BY <1>4, <1>7, <1>12, <1>13, <1>14, <1>15 DEF LoopRight, u

LEMMA LoopSorted ==
    ASSUME Sorted, TimerAssumption, NEW n, n = HighestDue, n > 0, NEW f, Loop(f, n)
    PROVE  \A i \in 0 .. n : LoopType(f[i], n - i) /\ LoopRight(f[i], n - i, n)
<1>0. /\ Len(timers) \in Nat /\ n \in 1 .. Len(timers) /\ Due(n) /\ n \in Nat /\ now \in Nat
      /\ DOMAIN timers = 1 .. Len(timers) /\ timers \in Seq(Objects) /\ timer \in Seq(Timer)
      /\ TypeOK
  <2>1. Len(timers) \in Nat /\ timers \in Seq(Objects) /\ timer \in Seq(Timer) /\ now \in Nat
        /\ DOMAIN timers = 1 .. Len(timers)
    BY Typed DEF Sorted
  <2>2. n \in 0 .. Len(timers) /\ Due(n)
    BY DueRight DEF Sorted
  <2> QED
    BY <2>1, <2>2 DEF Sorted
<1>1. \A i \in 1 .. n : timers[i] # NULL
  BY <1>0 DEF Sorted, Full
<1>2. \A i \in 0 .. n : LoopType(f[i], n - i)
  BY <1>0, <1>1, LoopTyped
<1>3. \A i \in 0 .. n : LoopRight(f[i], n - i, n)
  <2> DEFINE bad == {i \in 0 .. n : ~LoopRight(f[i], n - i, n)}
  <2> SUFFICES ASSUME bad # {} PROVE FALSE
    OBVIOUS
  <2>1. PICK m \in bad : \A k \in bad : m <= k
    <3>1. bad \in SUBSET Nat
      BY <1>0
    <3> QED
      BY <3>1, LeastElement
  <2>2. CASE m = 0
    <3>1. f[0] = Start /\ Start.s = timers /\ Start.tm = timer
      BY DEF Loop, Start
    <3>2. ASSUME NEW j \in n + 1 .. Len(timers) PROVE now <= timer[timers[j]].time
      <4>1. j \in DOMAIN timers /\ ~(j <= n)
        BY <1>0
      <4>2. ~Due(j) /\ timers[j] # NULL
        BY <1>0, <4>1, DueRight DEF Sorted, Full
      <4>3. ~(timer[timers[j]].time <= now)
        BY <4>2 DEF Due
      <4>4. timer[timers[j]].time \in Nat
        <5>1. timers[j] \in DOMAIN timer
          BY <1>0, <4>1, <4>2 DEF Objects
        <5>2. Timed(timer)
          BY <1>0, TimesRight
        <5> QED
          BY <5>1, <5>2 DEF Timed
      <4> QED
        BY <1>0, <4>3, <4>4
    <3>3. \A j \in n + 1 .. n : FALSE
      BY <1>0
    <3>4. LoopRight(Start, n, n)
      BY <3>1, <3>2, <3>3 DEF LoopRight, Sorted
    <3>5. n - m = n
      BY <1>0, <2>2
    <3> QED
      BY <2>1, <2>2, <3>1, <3>4, <3>5
  <2>3. CASE m # 0
    <3>1. m - 1 \in 0 .. n /\ m \in 1 .. n /\ ~(m <= m - 1)
      BY <1>0, <2>1, <2>3
    <3>2. LoopType(f[m - 1], n - (m - 1)) /\ LoopRight(f[m - 1], n - (m - 1), n)
      BY <1>2, <2>1, <3>1
    <3> DEFINE i == n - m + 1
    <3>3. i \in 1 .. n /\ i = n - (m - 1) /\ i - 1 = n - m
      BY <1>0, <3>1
    <3>4. f[m] = Fire(f[m - 1], i)
      BY <3>1 DEF Loop
    <3> HIDE DEF i
    <3>5. LoopType(f[m - 1], i) /\ LoopRight(f[m - 1], i, n)
      BY <3>2, <3>3
    <3>6. LoopRight(Fire(f[m - 1], i), i - 1, n)
      <4>1. CASE timer[timers[i]].one_time
        BY <1>0, <3>3, <3>5, <4>1, FireOnceRight
      <4>2. CASE ~timer[timers[i]].one_time
        BY <1>0, <3>3, <3>5, <4>2, FireAgainRight
      <4> QED
        BY <4>1, <4>2
    <3>7. LoopRight(f[m], n - m, n)
      BY <3>3, <3>4, <3>6
    <3> QED
      BY <2>1, <3>7
  <2> QED
    BY <2>2, <2>3
<1> QED
  BY <1>2, <1>3

\* What is left out of an array in order leaves it in order.
LEMMA KeepSorted ==
    ASSUME NEW S, NEW s \in Seq(S), NEW V, NEW tm, NULL \notin V, Once(s), Ordered(s, tm)
    PROVE  Full(Keep(s, V)) /\ Once(Keep(s, V)) /\ Ordered(Keep(s, V), tm)
<1> DEFINE k == Keep(s, V)
<1>1. k \in Seq(S) /\ \A i \in DOMAIN k : k[i] \in V
  BY KeepType
<1>2. \A i, j \in DOMAIN k :
          i < j => \E a, b \in DOMAIN s : a < b /\ k[i] = s[a] /\ k[j] = s[b]
  BY KeepOrder
<1> HIDE DEF k
<1>3. DOMAIN k = 1 .. Len(k) /\ Len(k) \in Nat /\ DOMAIN s = 1 .. Len(s) /\ Len(s) \in Nat
  BY <1>1
<1>4. Full(k)
  BY <1>1 DEF Full
<1>5. \A i, j \in DOMAIN k : i < j => k[i] # k[j]
  <2>1. ASSUME NEW i \in DOMAIN k, NEW j \in DOMAIN k, i < j, k[i] = k[j] PROVE FALSE
    <3>1. PICK a, b \in DOMAIN s : a < b /\ k[i] = s[a] /\ k[j] = s[b]
      BY <1>2, <2>1
    <3>2. s[a] # NULL
      BY <1>1, <3>1
    <3>3. a = b
      BY <2>1, <3>1, <3>2 DEF Once
    <3> QED
      BY <1>3, <3>1, <3>3
  <2> QED
    BY <2>1
<1>6. Once(k)
  <2>1. ASSUME NEW i \in DOMAIN k, NEW j \in DOMAIN k, k[i] = k[j] PROVE i = j
    <3>1. ~(i < j) /\ ~(j < i)
      BY <1>5, <2>1
    <3> QED
      BY <1>3, <3>1
  <2> QED
    BY <2>1 DEF Once
<1>7. Ordered(k, tm)
  <2>1. ASSUME NEW i \in DOMAIN k, NEW j \in DOMAIN k, i < j
        PROVE  tm[k[i]].time <= tm[k[j]].time
    <3>1. PICK a, b \in DOMAIN s : a < b /\ k[i] = s[a] /\ k[j] = s[b]
      BY <1>2, <2>1
    <3>2. s[a] # NULL /\ s[b] # NULL
      BY <1>1, <3>1
    <3> QED
      BY <3>1, <3>2 DEF Ordered
  <2> QED
    BY <2>1 DEF Ordered
<1> QED
  BY <1>4, <1>6, <1>7 DEF k

\* A new timer comes in at its place.
LEMMA CreateSorted ==
    ASSUME Sorted, TimerAssumption, NEW th \in Threads, NEW d \in Deltas, NEW ot \in OneTimeFlags,
           psi_create_timer(th, d, ot)
    PROVE  Full(timers') /\ Once(timers') /\ Ordered(timers', timer')
<1> DEFINE it == next_id + 1
           tm == timer'
           u == timers'
           k == InsertPoint(timers, tm, it)
<1>0. /\ timers \in Seq(Objects) /\ Len(timers) \in Nat /\ DOMAIN timers = 1 .. Len(timers)
      /\ timer \in Seq(Timer) /\ Len(timer) \in Nat /\ DOMAIN timer = 1 .. Len(timer)
      /\ NULL \notin Nat
  <2>1. timer \in Seq(Timer) /\ timers \in Seq(Objects) /\ NULL \notin Nat
    BY Typed DEF Sorted
  <2> QED
    BY <2>1
<1>1. TypeOK'
  BY CreateType DEF Sorted
<1>2. /\ timer' = Append(timer, [thread |-> th, time |-> now + d, delta |-> d, one_time |-> ot])
      /\ u = insert_timer(timers, tm, it)
  BY DEF psi_create_timer
<1>3. /\ Len(tm) = Len(timer) + 1 /\ tm \in Seq(Timer)
      /\ \A q \in DOMAIN timer : tm[q] = timer[q]
  <2>1. tm \in Seq(Timer)
    BY <1>1 DEF TypeOK
  <2> QED
    BY <1>0, <1>2, <2>1
<1>4. it \in DOMAIN tm /\ it \notin DOMAIN timer /\ it # NULL /\ DOMAIN timer \subseteq DOMAIN tm
  BY <1>0, <1>3 DEF next_id
<1>5. \A q \in DOMAIN tm : tm[q].time \in Nat
  <2>1. \A q \in DOMAIN tm : tm[q] \in Timer
    BY <1>3
  <2> QED
    BY <2>1 DEF Timer
<1>6. \A j \in 1 .. Len(timers) : timers[j] \in DOMAIN timer /\ timers[j] # NULL
  BY <1>0 DEF Sorted, Full, Objects
<1>7. k \in 1 .. Len(timers) + 1 /\ Placed(timers, tm, k, it)
  BY <1>0, PointRight DEF Placed
<1>8. /\ Len(u) = Len(timers) + 1 /\ u[k] = it /\ DOMAIN u = 1 .. Len(timers) + 1
      /\ \A j \in 1 .. k - 1 : u[j] = timers[j]
      /\ \A j \in k + 1 .. Len(timers) + 1 : u[j] = timers[j - 1]
  <2> DEFINE O == Objects \union {it}
  <2>1. timers \in Seq(O) /\ it \in O
    BY <1>0, SeqMonotonic
  <2> HIDE DEF O, k, it, tm, u
  <2>2. u = InsertAt(timers, k, it)
    BY <1>2 DEF insert_timer, k
  <2>3. k \in 1 .. Len(timers) + 1
    BY <1>7
  <2>4. u \in Seq(O) /\ Inserted(timers, u, k, it)
    BY <2>1, <2>2, <2>3, InsertRight
  <2>5. u \in Seq(O) /\ Len(u) = Len(timers) + 1
    BY <2>4 DEF Inserted
  <2>6. DOMAIN u = 1 .. Len(timers) + 1
    BY <2>5
  <2> QED
    BY <2>4, <2>5, <2>6 DEF Inserted
<1> HIDE DEF u, k, it, tm
<1>9. /\ \A j \in 1 .. Len(timers) + 1 :
            j # k => Back(j, k) \in 1 .. Len(timers) /\ u[j] = timers[Back(j, k)]
      /\ \A a, b \in 1 .. Len(timers) + 1 : a < b /\ a # k /\ b # k => Back(a, k) < Back(b, k)
  <2>1. ASSUME NEW j \in 1 .. Len(timers) + 1, j # k
        PROVE  Back(j, k) \in 1 .. Len(timers) /\ u[j] = timers[Back(j, k)]
    <3>1. CASE j < k
      <4>1. j \in 1 .. k - 1 /\ j \in 1 .. Len(timers)
        BY <1>0, <1>7, <3>1
      <4> QED
        BY <1>8, <3>1, <4>1 DEF Back
    <3>2. CASE ~(j < k)
      <4>1. j \in k + 1 .. Len(timers) + 1 /\ j - 1 \in 1 .. Len(timers)
        BY <1>0, <1>7, <2>1, <3>2
      <4> QED
        BY <1>8, <3>2, <4>1 DEF Back
    <3> QED
      BY <3>1, <3>2
  <2>2. ASSUME NEW a \in 1 .. Len(timers) + 1, NEW b \in 1 .. Len(timers) + 1, a < b, a # k, b # k
        PROVE  Back(a, k) < Back(b, k)
    BY <1>0, <1>7, <2>2 DEF Back
  <2> QED
    BY <2>1, <2>2
<1>10. \A j \in 1 .. Len(timers) + 1 : u[j] # NULL
  BY <1>4, <1>6, <1>8, <1>9
<1>11. ASSUME NEW a \in 1 .. Len(timers) + 1, NEW b \in 1 .. Len(timers) + 1, a < b
       PROVE  u[a] # u[b] /\ tm[u[a]].time <= tm[u[b]].time
  <2>1. CASE a # k /\ b # k
    <3>1. /\ Back(a, k) \in 1 .. Len(timers) /\ Back(b, k) \in 1 .. Len(timers)
          /\ Back(a, k) < Back(b, k)
          /\ u[a] = timers[Back(a, k)] /\ u[b] = timers[Back(b, k)]
      BY <1>9, <1>11, <2>1
    <3>2. u[a] \in DOMAIN timer /\ u[b] \in DOMAIN timer /\ u[a] # NULL /\ u[b] # NULL
      BY <1>6, <3>1
    <3>3. timer[u[a]].time <= timer[u[b]].time
      BY <1>0, <3>1, <3>2 DEF Sorted, Ordered
    <3>4. u[a] # u[b]
      <4>1. Back(a, k) # Back(b, k)
        BY <3>1
      <4> QED
        BY <1>0, <3>1, <3>2, <4>1 DEF Sorted, Once
    <3> QED
      BY <1>3, <3>2, <3>3, <3>4
  <2>2. CASE b = k
    <3>1. a # k /\ a < k
      BY <1>0, <1>7, <1>11, <2>2
    <3>2. a \in 1 .. Len(timers) /\ a <= k - 1 /\ k - 1 \in 1 .. Len(timers) /\ k > 1 /\ Back(a, k) = a
      BY <1>0, <1>7, <3>1 DEF Back
    <3>3. u[a] = timers[a] /\ u[b] = it
      BY <1>8, <1>9, <2>2, <3>1, <3>2
    <3>4. timers[a] \in DOMAIN timer /\ timers[k - 1] \in DOMAIN timer
          /\ timers[a] # NULL /\ timers[k - 1] # NULL
      BY <1>6, <3>2
    <3>5. tm[timers[a]].time <= tm[timers[k - 1]].time
      <4>1. CASE a = k - 1
        <5>1. tm[timers[a]].time \in Nat
          BY <1>4, <1>5, <3>4
        <5> QED
          BY <4>1, <5>1
      <4>2. CASE a # k - 1
        <5>1. a < k - 1
          BY <1>0, <1>7, <3>2, <4>2
        <5>2. timer[timers[a]].time <= timer[timers[k - 1]].time
          BY <1>0, <3>2, <3>4, <5>1 DEF Sorted, Ordered
        <5> QED
          BY <1>3, <3>4, <5>2
      <4> QED
        BY <4>1, <4>2
    <3>6. ~(tm[it].time < tm[timers[k - 1]].time)
      BY <1>7, <3>2 DEF Placed
    <3>7. tm[timers[a]].time \in Nat /\ tm[timers[k - 1]].time \in Nat /\ tm[it].time \in Nat
      BY <1>4, <1>5, <3>4
    <3>8. \A x, y, z \in Nat : x <= y /\ ~(z < y) => x <= z
      OBVIOUS
    <3>9. tm[timers[a]].time <= tm[it].time
      BY <3>5, <3>6, <3>7, <3>8
    <3> QED
      BY <1>4, <3>3, <3>4, <3>9
  <2>3. CASE a = k
    <3>1. b # k /\ ~(b < k) /\ b - 1 \in k .. Len(timers) /\ b - 1 \in 1 .. Len(timers) /\ Back(b, k) = b - 1
      BY <1>0, <1>7, <1>11, <2>3 DEF Back
    <3>2. u[a] = it /\ u[b] = timers[b - 1]
      BY <1>8, <1>9, <2>3, <3>1
    <3>3. timers[b - 1] \in DOMAIN timer /\ timers[b - 1] # NULL
      BY <1>6, <3>1
    <3>4. tm[it].time < tm[timers[b - 1]].time
      BY <1>7, <3>1, <3>3 DEF Placed
    <3>5. tm[timers[b - 1]].time \in Nat /\ tm[it].time \in Nat
      BY <1>4, <1>5, <3>3
    <3>6. \A x, y \in Nat : x < y => x <= y
      OBVIOUS
    <3>7. tm[it].time <= tm[timers[b - 1]].time
      BY <3>4, <3>5, <3>6
    <3> QED
      BY <1>4, <3>2, <3>3, <3>7
  <2> QED
    BY <2>1, <2>2, <2>3
<1>12. Once(u)
  <2>1. ASSUME NEW a \in 1 .. Len(timers) + 1, NEW b \in 1 .. Len(timers) + 1, u[a] = u[b]
        PROVE  a = b
    <3>1. ~(a < b) /\ ~(b < a)
      BY <1>11, <2>1
    <3> QED
      BY <3>1
  <2> QED
    BY <1>8, <2>1 DEF Once
<1>13. Full(u) /\ Ordered(u, tm)
  BY <1>8, <1>10, <1>11 DEF Full, Ordered
<1> QED
  BY <1>12, <1>13 DEF u, tm

\* What is kept and what is left out are the whole.
LEMMA KeepCount ==
    ASSUME NEW S, NEW s \in Seq(S), NEW V, NEW W, \A c \in S : (c \in V) <=> ~(c \in W)
    PROVE  Len(Keep(s, V)) + Len(Keep(s, W)) = Len(s)
<1> DEFINE G == {t \in Seq(S) : Len(Keep(t, V)) + Len(Keep(t, W)) = Len(t)}
<1>1. <<>> \in G
  <2>1. PICK e \in Seq(S) : e = <<>> /\ Len(e) = 0
    BY EmptyExists
  <2>2. Keep(e, V) = e /\ Keep(e, W) = e
    BY <2>1, KeepEmpty, Zenon
  <2>3. e \in G
    BY <2>1, <2>2
  <2> QED
    BY <2>1, <2>3
<1>2. ASSUME NEW t \in Seq(S), NEW c \in S, t \in G PROVE Append(t, c) \in G
  <2> DEFINE a == Keep(t, V)
             b == Keep(t, W)
             u == Append(t, c)
  <2>1. a \in Seq(S) /\ b \in Seq(S) /\ Len(a) \in Nat /\ Len(b) \in Nat
        /\ Len(a) + Len(b) = Len(t)
    BY <1>2, KeepType
  <2>2. u \in Seq(S) /\ Len(u) = Len(t) + 1 /\ Len(t) \in Nat
    OBVIOUS
  <2>3. /\ Keep(u, V) = IF c \in V THEN Append(a, c) ELSE a
        /\ Keep(u, W) = IF c \in W THEN Append(b, c) ELSE b
    BY KeepAppend
  <2>4. Len(Append(a, c)) = Len(a) + 1 /\ Len(Append(b, c)) = Len(b) + 1
    BY <2>1
  <2> DEFINE x == Len(a)
             y == Len(b)
             z == Len(t)
  <2>6. x \in Nat /\ y \in Nat /\ z \in Nat /\ x + y = z /\ Len(u) = z + 1
    BY <2>1, <2>2
  <2>7. /\ c \in V => Len(Keep(u, V)) = x + 1
        /\ ~(c \in V) => Len(Keep(u, V)) = x
        /\ c \in W => Len(Keep(u, W)) = y + 1
        /\ ~(c \in W) => Len(Keep(u, W)) = y
    BY <2>3, <2>4, Zenon
  <2> HIDE DEF x, y, z, u
  <2>8. (c \in V) <=> ~(c \in W)
    OBVIOUS
  <2>5. Len(Keep(u, V)) + Len(Keep(u, W)) = Len(u)
    BY <2>6, <2>7, <2>8
  <2> QED
    BY <2>2, <2>5 DEF u
<1> HIDE DEF G
<1>3. Seq(S) \subseteq G
  BY <1>1, <1>2, AllSequences
<1> QED
  BY <1>3 DEF G

\* Without a NULL in the array an exit leaves the timers of the other threads.
LEMMA ExitSorted ==
    ASSUME Sorted, TimerAssumption, NEW th, psi_thread_exit(th)
    PROVE  /\ Full(timers') /\ Once(timers') /\ Ordered(timers', timer')
           /\ timers' = Keep(timers, Nat \ {p \in DOMAIN timer : timer[p].thread = th})
<1> DEFINE mine == {p \in DOMAIN timer : timer[p].thread = th}
           kept == Keep(timers, Nat \ mine)
           gone == Keep(timers, mine)
           Old(i) == IF timers[i] \in mine \/ (i = Len(kept) + 1 /\ Last(timers) \in mine \union {NULL})
                     THEN NULL ELSE timers[i]
           d == [i \in 1 .. Len(timers) - Len(gone) |-> IF i <= Len(kept) THEN kept[i] ELSE Old(i)]
<1>0. /\ timers \in Seq(Objects) /\ Len(timers) \in Nat /\ DOMAIN timers = 1 .. Len(timers)
      /\ DOMAIN timer \subseteq Nat /\ NULL \notin Nat
  BY Typed DEF Sorted
<1>1. timers' = d /\ timer' = timer
  BY DEF psi_thread_exit, delete_all_timers
<1>2. timers \in Seq(DOMAIN timer)
  <2>1. \A j \in 1 .. Len(timers) : timers[j] \in DOMAIN timer
    BY <1>0 DEF Sorted, Full, Objects
  <2>2. timers \in [1 .. Len(timers) -> Objects]
    BY <1>0
  <2>3. timers \in [1 .. Len(timers) -> DOMAIN timer]
    BY <2>1, <2>2
  <2> QED
    BY <1>0, <2>3
<1>3. kept \in Seq(DOMAIN timer) /\ gone \in Seq(DOMAIN timer)
  BY <1>2, KeepType
<1>4. Len(kept) + Len(gone) = Len(timers)
  <2> DEFINE V == Nat \ mine
  <2>1. \A c \in DOMAIN timer : (c \in V) <=> ~(c \in mine)
    BY <1>0
  <2> HIDE DEF mine, V
  <2>2. Len(Keep(timers, V)) + Len(Keep(timers, mine)) = Len(timers)
    BY <1>2, <2>1, KeepCount
  <2> QED
    BY <2>2 DEF V
<1> HIDE DEF kept, gone
<1>5. Len(timers) - Len(gone) = Len(kept) /\ Len(kept) \in Nat /\ DOMAIN kept = 1 .. Len(kept)
  <2>1. Len(kept) \in Nat /\ Len(gone) \in Nat /\ DOMAIN kept = 1 .. Len(kept)
    BY <1>3
  <2>2. \A x, y, z \in Nat : x + y = z => z - y = x
    OBVIOUS
  <2> QED
    BY <1>0, <1>4, <2>1, <2>2
<1>6. d = kept
  <2>1. d = [i \in 1 .. Len(kept) |-> IF i <= Len(kept) THEN kept[i] ELSE Old(i)]
    BY <1>5
  <2>2. \A i \in 1 .. Len(kept) : i <= Len(kept)
    BY <1>5
  <2> HIDE DEF Old
  <2>3. d = [i \in 1 .. Len(kept) |-> kept[i]]
    BY <2>1, <2>2
  <2>4. kept = [i \in 1 .. Len(kept) |-> kept[i]]
    BY <1>3, <1>5
  <2> QED
    BY <2>3, <2>4
<1>7. Full(kept) /\ Once(kept) /\ Ordered(kept, timer)
  <2> DEFINE V == Nat \ mine
  <2>1. NULL \notin V /\ Once(timers) /\ Ordered(timers, timer)
    BY <1>0 DEF Sorted
  <2> HIDE DEF V, mine
  <2>2. Full(Keep(timers, V)) /\ Once(Keep(timers, V)) /\ Ordered(Keep(timers, V), timer)
    BY <1>2, <2>1, KeepSorted
  <2> QED
    BY <2>2 DEF V, kept
<1> HIDE DEF d
<1> QED
  BY <1>1, <1>6, <1>7 DEF kept

\* make_timer_goal leaves the array in order, and calls no goal early.
LEMMA GoalsSorted ==
    ASSUME Sorted, TimerAssumption, psi_timer_goals
    PROVE  /\ Full(timers') /\ Once(timers') /\ Ordered(timers', timer')
           /\ \A i \in DOMAIN goal' :
                 /\ timer[goal'[i]].time <= now
                 /\ ~timer[goal'[i]].one_time => timer'[goal'[i]].time = now + timer[goal'[i]].delta
<1> DEFINE n == HighestDue
<1>0. /\ timers \in Seq(Objects) /\ Len(timers) \in Nat /\ DOMAIN timers = 1 .. Len(timers)
      /\ NULL \notin Nat /\ TypeOK
  BY Typed DEF Sorted
<1>1. /\ timers' = make_timer_goal(n).s /\ timer' = make_timer_goal(n).tm
      /\ goal' = SubSeq(timers, 1, n) /\ n > 0
  BY DEF psi_timer_goals
<1>2. n \in 1 .. Len(timers) /\ Due(n) /\ n \in Nat
  BY <1>0, <1>1, DueRight
<1>3. PICK f : Loop(f, n)
  BY <1>2, GoalLoop DEF Loop
<1>4. LoopType(f[n], n - n) /\ LoopRight(f[n], n - n, n) /\ n - n = 0
  <2>1. \A i \in 0 .. n : LoopType(f[i], n - i) /\ LoopRight(f[i], n - i, n)
    BY <1>1, <1>3, LoopSorted
  <2> HIDE DEF n
  <2> QED
    BY <1>2, <2>1
<1> HIDE DEF n
<1> DEFINE st == f[n]
           rest == SubSeq(st.s, n + 1, Len(st.s))
<1>5. /\ st.s \in Seq(Objects) /\ Len(timers) <= Len(st.s)
      /\ st = [s |-> st.s, tm |-> st.tm, freed |-> st.freed]
      /\ Once(st.s) /\ Ordered(st.s, st.tm)
      /\ \A j \in 0 + 1 .. n :
            ~timer[timers[j]].one_time => st.tm[timers[j]].time = now + timer[timers[j]].delta
  BY <1>4 DEF LoopType, LoopRight, States
<1>6. make_timer_goal(n) = [st EXCEPT !.s = Compress(rest)]
  BY <1>3 DEF Loop
<1>7. /\ rest \in Seq(Objects) /\ DOMAIN st.s = 1 .. Len(st.s) /\ Len(st.s) \in Nat
      /\ \A i \in DOMAIN rest : i \in Nat /\ n + i \in DOMAIN st.s /\ rest[i] = st.s[n + i]
  <2>1. Len(st.s) \in Nat /\ DOMAIN st.s = 1 .. Len(st.s)
    BY <1>5
  <2>2. n + 1 \in Int /\ Len(st.s) \in Int /\ \A i \in n + 1 .. Len(st.s) : st.s[i] \in Objects
    BY <1>2, <1>5, <2>1
  <2>3. /\ rest \in Seq(Objects)
        /\ Len(rest) = IF n + 1 <= Len(st.s) THEN Len(st.s) - (n + 1) + 1 ELSE 0
        /\ \A i \in 1 .. Len(st.s) - (n + 1) + 1 : rest[i] = st.s[(n + 1) + i - 1]
    BY <2>2, SubSeqProperties
  <2> HIDE DEF rest, st
  <2>4. ASSUME NEW i \in DOMAIN rest PROVE i \in Nat /\ n + i \in DOMAIN st.s /\ rest[i] = st.s[n + i]
    <3>1. i \in 1 .. Len(rest)
      BY <2>3
    <3>2. i \in 1 .. Len(st.s) - (n + 1) + 1
      <4>1. CASE n + 1 <= Len(st.s)
        <5>1. Len(rest) = Len(st.s) - (n + 1) + 1
          BY <2>3, <4>1
        <5> QED
          BY <3>1, <5>1
      <4>2. CASE ~(n + 1 <= Len(st.s))
        <5>1. Len(rest) = 0
          BY <2>3, <4>2
        <5> QED
          BY <3>1, <5>1
      <4> QED
        BY <4>1, <4>2
    <3>3. rest[i] = st.s[(n + 1) + i - 1]
      BY <2>3, <3>2
    <3>4. (n + 1) + i - 1 = n + i /\ n + i \in DOMAIN st.s /\ i \in Nat
      BY <1>2, <2>1, <3>2
    <3> QED
      BY <3>3, <3>4
  <2> QED
    BY <2>1, <2>3, <2>4
<1> HIDE DEF rest, st
<1>8. timers' = Compress(rest) /\ timer' = st.tm
  BY <1>1, <1>5, <1>6
<1>9. Once(rest) /\ Ordered(rest, st.tm)
  <2>1. Once(rest)
    <3>1. ASSUME NEW i \in DOMAIN rest, NEW j \in DOMAIN rest, rest[i] = rest[j], rest[i] # NULL
          PROVE  i = j
      <4>1. n + i = n + j
        BY <1>5, <1>7, <3>1 DEF Once
      <4>2. i \in Nat /\ j \in Nat
        BY <1>7
      <4> QED
        BY <1>2, <4>1, <4>2
    <3> QED
      BY <3>1 DEF Once
  <2>2. Ordered(rest, st.tm)
    <3>1. ASSUME NEW i \in DOMAIN rest, NEW j \in DOMAIN rest, i < j, rest[i] # NULL, rest[j] # NULL
          PROVE  st.tm[rest[i]].time <= st.tm[rest[j]].time
      <4>1. i \in Nat /\ j \in Nat
        BY <1>7
      <4>2. n + i < n + j
        BY <1>2, <3>1, <4>1
      <4> QED
        BY <1>5, <1>7, <3>1, <4>2 DEF Ordered
    <3> QED
      BY <3>1 DEF Ordered
  <2> QED
    BY <2>1, <2>2
<1>10. Full(timers') /\ Once(timers') /\ Ordered(timers', timer')
  <2>1. Full(Keep(rest, Nat)) /\ Once(Keep(rest, Nat)) /\ Ordered(Keep(rest, Nat), st.tm)
    BY <1>0, <1>7, <1>9, KeepSorted
  <2> QED
    BY <1>8, <2>1 DEF Compress
<1>11. ASSUME NEW i \in DOMAIN goal'
       PROVE  /\ timer[goal'[i]].time <= now
              /\ ~timer[goal'[i]].one_time => timer'[goal'[i]].time = now + timer[goal'[i]].delta
  <2>1. i \in 1 .. n /\ goal'[i] = timers[i]
    BY <1>0, <1>1, <1>2
  <2>2. timer[timers[i]].time <= now
    BY <1>2, <2>1, AllDue
  <2>3. i \in 0 + 1 .. n
    BY <1>2, <2>1
  <2>4. ~timer[timers[i]].one_time => st.tm[timers[i]].time = now + timer[timers[i]].delta
    BY <1>5, <2>3
  <2> QED
    BY <1>8, <2>1, <2>2, <2>4
<1> QED
  BY <1>10, <1>11

NoDeletes == DeleteCallers = {}

LEMMA SortedStep ==
    ASSUME Sorted, TimerAssumption, NoDeletes, [Next]_vars
    PROVE  Sorted'
<1>1. TypeOK'
  BY TypeStep DEF Sorted
<1>2. Full(timers') /\ Once(timers') /\ Ordered(timers', timer')
  <2>1. CASE \E th \in Threads, d \in Deltas, ot \in OneTimeFlags : psi_create_timer(th, d, ot)
    BY <2>1, CreateSorted
  <2>2. CASE \E th \in DeleteCallers, id \in 1 .. MaxTimers : psi_delete_timer(th, id)
    BY <2>2 DEF NoDeletes
  <2>3. CASE \E th \in Threads : psi_thread_exit(th)
    BY <2>3, ExitSorted
  <2>4. CASE psi_timer_goals
    BY <2>4, GoalsSorted
  <2>5. CASE run_timer_goal
    BY <2>5, GoalsSorted DEF run_timer_goal
  <2>6. CASE UNCHANGED <<timers, timer>>
    BY <2>6 DEF Sorted
  <2> QED
    BY <2>1, <2>2, <2>3, <2>4, <2>5, <2>6 DEF Next, Undefined, Tick, vars
<1> QED
  BY <1>1, <1>2 DEF Sorted

LEMMA SortedAlways == ASSUME NoDeletes PROVE Spec => []Sorted
<1>1. Init /\ TypeOK => Sorted
  BY DEF Init, Sorted, Full, Once, Ordered
<1>2. Sorted /\ [Next]_vars => Sorted'
  BY SortedStep, TimerAssumption
<1>3. Spec => []TypeOK
  BY TypeCorrect
<1> QED
  BY <1>1, <1>2, <1>3, PTL DEF Spec

\* If delete_timer is not called the entries are sorted by expiry after each
\* operation, although a timer that repeats may have been lost (insert_timer,
\* make_timer_goal, delete_all_timers).
THEOREM StackOrdered == ASSUME NoDeletes PROVE Spec => []StackRight
<1>1. Sorted => StackRight
  BY DEF Sorted, StackRight, StackSorted, Ordered
<1> QED
  BY <1>1, SortedAlways, PTL

\* If delete_timer is not called no goal is called before its time, and a timer that
\* repeats is then a period away (make_timer_goal).
THEOREM GoalsNotEarly == ASSUME NoDeletes PROVE Spec => NeverEarly
<1> DEFINE A == goal' # goal =>
                  \A i \in DOMAIN goal' :
                     /\ timer[goal'[i]].time <= now
                     /\ ~timer[goal'[i]].one_time => timer'[goal'[i]].time = now + timer[goal'[i]].delta
<1>1. Sorted /\ [Next]_vars => A
  <2> SUFFICES ASSUME Sorted, [Next]_vars, goal' # goal
               PROVE  \A i \in DOMAIN goal' :
                         /\ timer[goal'[i]].time <= now
                         /\ ~timer[goal'[i]].one_time => timer'[goal'[i]].time = now + timer[goal'[i]].delta
    OBVIOUS
  <2>1. psi_timer_goals
    BY DEF Next, psi_create_timer, psi_delete_timer, psi_thread_exit, run_timer_goal, Undefined,
           Tick, vars
  <2> QED
    BY <2>1, GoalsSorted, TimerAssumption
<1>2. Spec => [][A]_vars
  BY <1>1, SortedAlways, PTL DEF Spec
<1> QED
  BY <1>2 DEF NeverEarly

-----------------------------------------------------------------------------
(* The service.  make_timer_goal loses a repeating timer that it inserts   *)
(* at or below the highest due entry: it does not where all timers are     *)
(* one-time ones, nor where all repeat with one delay, so that each is     *)
(* inserted on top.                                                        *)

Regular ==
    /\ NoDeletes
    /\ \/ OneTimeFlags \subseteq {TRUE}
       \/ OneTimeFlags \subseteq {FALSE} /\ \A d, e \in Deltas : d = e

\* No timer is further away than its delay.
Near == \A q \in DOMAIN timer : timer[q].time <= now + timer[q].delta

Again(q) == [timer[q] EXCEPT !.time = now + timer[q].delta]

\* The repeating timers that fire between entries i and n.
Repeats(q, i, n) == \E j \in i + 1 .. n : timers[j] = q /\ ~timer[q].one_time

Above(s, q, n) == \E j \in n + 1 .. Len(s) : s[j] = q

\* While the loop is at entry i of n: above n are the timers that were there and those that
\* have fired and repeat, the others are as they were, and the last entry is not empty
\* where timers repeat.
LoopKept(st, i, n) ==
    /\ \A q \in DOMAIN timer : Above(st.s, q, n) <=> Above(timers, q, n) \/ Repeats(q, i, n)
    /\ \A q \in DOMAIN timer : st.tm[q] = IF Repeats(q, i, n) THEN Again(q) ELSE timer[q]
    /\ OneTimeFlags \subseteq {FALSE} => st.s[Len(st.s)] # NULL

LEMMA FlagsRight ==
    ASSUME TypeOK, NEW q \in DOMAIN timer
    PROVE  /\ timer[q] \in Timer
           /\ OneTimeFlags \subseteq {TRUE} => timer[q].one_time
           /\ OneTimeFlags \subseteq {FALSE} => ~timer[q].one_time
<1>1. timer[q] \in Timer
  BY DEF TypeOK
<1>2. timer[q].one_time \in OneTimeFlags
  BY <1>1 DEF Timer
<1> QED
  BY <1>1, <1>2

LEMMA FireOnceKept ==
    ASSUME Sorted, TimerAssumption, Regular, NEW n \in 1 .. Len(timers), Due(n),
           NEW i \in 1 .. n, NEW st, LoopType(st, i), LoopRight(st, i, n), LoopKept(st, i, n),
           timer[timers[i]].one_time
    PROVE  LoopKept(Fire(st, i), i - 1, n)
<1>0. /\ Len(timers) \in Nat /\ n \in Nat /\ i \in Nat /\ i \in 1 .. Len(timers) /\ i \in 1 .. i
      /\ NULL \notin DOMAIN timer /\ TypeOK
  BY Typed DEF Sorted
<1>1. /\ st \in States /\ st.s \in Seq(Objects) /\ Len(timers) <= Len(st.s) /\ Len(st.s) \in Nat
      /\ \A j \in 1 .. i : st.s[j] = timers[j]
  BY DEF LoopType, States
<1>2. timers[i] \in DOMAIN timer /\ st.s[i] = timers[i]
  BY <1>0, <1>1, AllDue
<1>3. st.tm[st.s[i]].one_time /\ i \in 1 .. Len(st.s)
  BY <1>0, <1>1, <1>2 DEF LoopRight
<1> DEFINE u == Fire(st, i).s
<1>4. /\ Fire(st, i).tm = st.tm /\ Len(u) = Len(st.s)
      /\ \A j \in 1 .. Len(st.s) : j # i => u[j] = st.s[j]
  BY <1>0, <1>1, <1>2, <1>3, FireOnce
<1>5. ~(OneTimeFlags \subseteq {FALSE})
  BY <1>0, <1>2, FlagsRight
<1> HIDE DEF u
<1>6. ASSUME NEW q \in DOMAIN timer PROVE Repeats(q, i - 1, n) <=> Repeats(q, i, n)
  <2>1. ASSUME Repeats(q, i - 1, n) PROVE Repeats(q, i, n)
    <3>1. PICK j \in (i - 1) + 1 .. n : timers[j] = q /\ ~timer[q].one_time
      BY <2>1 DEF Repeats
    <3>2. j # i
      BY <3>1
    <3>3. j \in i + 1 .. n
      BY <1>0, <3>2
    <3> QED
      BY <3>1, <3>3 DEF Repeats
  <2>2. \A j \in i + 1 .. n : j \in (i - 1) + 1 .. n
    BY <1>0
  <2> QED
    BY <2>1, <2>2 DEF Repeats
<1>7. ASSUME NEW q PROVE Above(u, q, n) <=> Above(st.s, q, n)
  <2>1. \A j \in n + 1 .. Len(st.s) : j # i /\ j \in 1 .. Len(st.s)
    BY <1>0
  <2> QED
    BY <1>4, <2>1 DEF Above
<1> QED
  BY <1>4, <1>5, <1>6, <1>7 DEF LoopKept, u

LEMMA FireAgainKept ==
    ASSUME Sorted, TimerAssumption, Regular, Near, NEW n \in 1 .. Len(timers), Due(n),
           NEW i \in 1 .. n, NEW st, LoopType(st, i), LoopRight(st, i, n), LoopKept(st, i, n),
           ~timer[timers[i]].one_time
    PROVE  LoopKept(Fire(st, i), i - 1, n)
<1> DEFINE p == timers[i]
           u == Fire(st, i).s
           tm == Ticked(st.tm, p)
<1>0. /\ Len(timers) \in Nat /\ n \in Nat /\ i \in Nat /\ i \in 1 .. Len(timers) /\ i \in 1 .. i
      /\ timers \in Seq(Objects) /\ DOMAIN timers = 1 .. Len(timers)
      /\ timer \in Seq(Timer) /\ now \in Nat /\ Deltas \subseteq Nat /\ NULL \notin DOMAIN timer
      /\ TypeOK
  BY Typed DEF Sorted
<1>1. /\ st \in States /\ st.s \in Seq(Objects) /\ Len(timers) <= Len(st.s) /\ Len(st.s) \in Nat
      /\ DOMAIN st.s = 1 .. Len(st.s) /\ st.tm \in Seq(Timer) /\ Len(st.tm) = Len(timer)
      /\ \A j \in 1 .. i : st.s[j] = timers[j]
  BY DEF LoopType, States
<1>2. p \in DOMAIN timer /\ p # NULL /\ st.s[i] = p
  BY <1>0, <1>1, AllDue
<1>3. ~st.tm[st.s[i]].one_time /\ i \in 1 .. Len(st.s)
  BY <1>0, <1>1, <1>2 DEF LoopRight
<1>4. /\ Fire(st, i).tm = tm
      /\ \E k : Moved(st.s, u, i, k, p) /\ Placed(st.s, tm, k, p)
  <2>1. st.s[i] \in DOMAIN timer
    BY <1>2
  <2>2. /\ Fire(st, i).tm = Ticked(st.tm, st.s[i])
        /\ \E k : /\ Moved(st.s, Fire(st, i).s, i, k, st.s[i])
                  /\ Placed(st.s, Ticked(st.tm, st.s[i]), k, st.s[i])
    BY <1>0, <1>1, <1>3, <2>1, FireAgain
  <2> QED
    BY <1>2, <2>2
<1>5. PICK k : Moved(st.s, u, i, k, p) /\ Placed(st.s, tm, k, p)
  BY <1>4
<1>6. /\ ~(OneTimeFlags \subseteq {TRUE}) /\ OneTimeFlags \subseteq {FALSE}
      /\ \A d, e \in Deltas : d = e
  <2>1. ~(OneTimeFlags \subseteq {TRUE})
    BY <1>0, <1>2, FlagsRight
  <2> QED
    BY <2>1 DEF Regular
<1>7. Timed(st.tm) /\ DOMAIN st.tm = DOMAIN timer
  BY <1>1, TimesRight DEF Sorted
<1>8. /\ tm[p] = Again(p) /\ \A q \in DOMAIN timer : q # p => tm[q] = st.tm[q]
  <2>1. ~Repeats(p, i, n)
    <3>1. ASSUME NEW j \in i + 1 .. n, timers[j] = p PROVE FALSE
      <4>1. j \in DOMAIN timers /\ i \in DOMAIN timers /\ j # i
        BY <1>0
      <4> QED
        BY <1>2, <3>1, <4>1 DEF Sorted, Once
    <3> QED
      BY <3>1 DEF Repeats
  <2>2. st.tm[p] = timer[p]
    BY <1>2, <2>1 DEF LoopKept
  <2>3. p \in DOMAIN st.tm
    BY <1>2, <1>7
  <2>4. tm[p] = [st.tm[p] EXCEPT !.time = now + st.tm[p].delta]
    BY <2>3 DEF Ticked
  <2>5. \A q \in DOMAIN timer : q # p => tm[q] = st.tm[q]
    BY <1>7 DEF Ticked
  <2> HIDE DEF tm, p
  <2> QED
    BY <2>2, <2>4, <2>5 DEF Again
<1> HIDE DEF u, tm
\* Everything is due within the delay, so the timer comes in on top.
<1>9. k = Len(st.s) + 1
  <2> DEFINE q == st.s[Len(st.s)]
  <2>1. q \in DOMAIN timer
    <3>1. q # NULL
      BY <1>6 DEF LoopKept
    <3>2. Len(st.s) \in 1 .. Len(st.s)
      BY <1>0, <1>1
    <3>3. q \in Objects
      BY <1>1, <3>2
    <3> QED
      BY <3>1, <3>3 DEF Objects
  <2>2. timer[p].delta = timer[q].delta /\ timer[q].delta \in Nat /\ timer[q].time \in Nat
    <3>1. timer[p] \in Timer /\ timer[q] \in Timer
      BY <1>0, <1>2, <2>1
    <3>2. timer[p].delta \in Deltas /\ timer[q].delta \in Deltas /\ timer[q].time \in Nat
      BY <3>1 DEF Timer
    <3> QED
      BY <1>0, <1>6, <3>2
  <2>3. tm[p].time = now + timer[p].delta
    <3>1. timer[p] \in Timer
      BY <1>0, <1>2
    <3> QED
      BY <1>8, <3>1 DEF Again, Timer
  <2>4. tm[q].time <= now + timer[q].delta
    <3>1. CASE q = p
      BY <1>0, <2>2, <2>3, <3>1
    <3>2. CASE q # p
      <4>1. tm[q] = st.tm[q]
        BY <1>8, <2>1, <3>2
      <4>2. st.tm[q] = Again(q) \/ st.tm[q] = timer[q]
        BY <2>1 DEF LoopKept
      <4>3. CASE st.tm[q] = timer[q]
        BY <2>1, <4>1, <4>3 DEF Near
      <4>4. CASE st.tm[q] = Again(q)
        <5>1. timer[q] \in Timer
          BY <1>0, <2>1
        <5>2. Again(q).time = now + timer[q].delta
          BY <5>1 DEF Again, Timer
        <5> QED
          BY <1>0, <2>2, <4>1, <4>4, <5>2
      <4> QED
        BY <4>2, <4>3, <4>4
    <3> QED
      BY <3>1, <3>2
  <2>5. ~(tm[p].time < tm[q].time)
    <3>1. tm[q].time \in Nat
      <4>1. tm[q] = Again(q) \/ tm[q] = timer[q]
        <5>1. CASE q = p
          BY <1>8, <5>1
        <5>2. CASE q # p
          <6>1. tm[q] = st.tm[q]
            BY <1>8, <2>1, <5>2
          <6> QED
            BY <2>1, <6>1 DEF LoopKept
        <5> QED
          BY <5>1, <5>2
      <4>2. timer[q] \in Timer
        BY <1>0, <2>1
      <4>3. Again(q).time = now + timer[q].delta
        BY <4>2 DEF Again, Timer
      <4>4. now + timer[q].delta \in Nat
        BY <1>0, <2>2
      <4> HIDE DEF q
      <4> QED
        BY <2>2, <4>1, <4>3, <4>4, Zenon
    <3>2. tm[q].time <= tm[p].time /\ tm[p].time \in Nat
      <4> HIDE DEF q, p
      <4>1. now + timer[p].delta = now + timer[q].delta /\ now + timer[p].delta \in Nat
        BY <1>0, <2>2
      <4> QED
        BY <2>3, <2>4, <4>1, Zenon
    <3>3. \A x, y \in Nat : x <= y => ~(y < x)
      OBVIOUS
    <3> QED
      BY <3>1, <3>2, <3>3
  <2>6. ~(Len(st.s) \in k .. Len(st.s))
    <3>1. q # NULL
      BY <1>0, <2>1
    <3> QED
      BY <1>5, <2>5, <3>1 DEF Placed
  <2>7. k \in i + 1 .. Len(st.s) + 1
    BY <1>5 DEF Moved
  <2>8. \A l, m \in Nat : \A h \in m + 1 .. l + 1 : ~(l \in h .. l) => h = l + 1
    OBVIOUS
  <2> QED
    BY <1>0, <1>1, <2>6, <2>7, <2>8
<1>10. /\ Len(u) = Len(st.s) + 1 /\ u[Len(st.s) + 1] = p
       /\ \A j \in 1 .. Len(st.s) : j # i => u[j] = st.s[j]
  <2>1. (Len(st.s) + 1) - 1 = Len(st.s)
    BY <1>1
  <2> QED
    BY <1>5, <1>9, <2>1 DEF Moved
<1>11. ASSUME NEW q \in DOMAIN timer
       PROVE  Repeats(q, i - 1, n) <=> (Repeats(q, i, n) \/ q = p)
  <2>1. \A j \in (i - 1) + 1 .. n : j = i \/ j \in i + 1 .. n
    BY <1>0
  <2>2. \A j \in i + 1 .. n : j \in (i - 1) + 1 .. n
    BY <1>0
  <2>3. i \in (i - 1) + 1 .. n
    BY <1>0
  <2> QED
    BY <2>1, <2>2, <2>3 DEF Repeats
<1>12. ASSUME NEW q \in DOMAIN timer PROVE Above(u, q, n) <=> Above(st.s, q, n) \/ q = p
  <2> DEFINE l == Len(st.s)
  <2>0. l \in Nat /\ n \in Nat /\ i \in Nat /\ i <= n /\ n <= l
    BY <1>0, <1>1
  <2> HIDE DEF l
  <2>1. \A j \in n + 1 .. l + 1 : j = l + 1 \/ (j \in n + 1 .. l /\ j # i /\ j \in 1 .. l)
    BY <2>0
  <2>2. \A j \in n + 1 .. l : j \in n + 1 .. l + 1 /\ j # i /\ j \in 1 .. l
    BY <2>0
  <2>3. l + 1 \in n + 1 .. l + 1
    BY <2>0
  <2> HIDE DEF p
  <2> QED
    BY <1>10, <2>1, <2>2, <2>3 DEF Above, l
<1>13. \A q \in DOMAIN timer : Above(u, q, n) <=> Above(timers, q, n) \/ Repeats(q, i - 1, n)
  BY <1>11, <1>12 DEF LoopKept
<1>14. \A q \in DOMAIN timer : tm[q] = IF Repeats(q, i - 1, n) THEN Again(q) ELSE timer[q]
  <2>1. ASSUME NEW q \in DOMAIN timer
        PROVE  tm[q] = IF Repeats(q, i - 1, n) THEN Again(q) ELSE timer[q]
    <3> HIDE DEF p
    <3>1. CASE q = p
      BY <1>8, <1>11, <3>1
    <3>2. CASE q # p
      BY <1>8, <1>11, <3>2 DEF LoopKept
    <3> QED
      BY <3>1, <3>2
  <2> QED
    BY <2>1
<1>15. u[Len(u)] # NULL
  BY <1>2, <1>10
<1> QED
  BY <1>4, <1>13, <1>14, <1>15 DEF LoopKept, u

LEMMA LoopAll ==
    ASSUME Sorted, TimerAssumption, Regular, Near, NEW n, n = HighestDue, n > 0,
           NEW f, Loop(f, n)
    PROVE  LoopKept(f[n], 0, n)
<1>0. /\ Len(timers) \in Nat /\ n \in 1 .. Len(timers) /\ Due(n) /\ n \in Nat /\ TypeOK
      /\ DOMAIN timers = 1 .. Len(timers)
  <2>1. Len(timers) \in Nat /\ DOMAIN timers = 1 .. Len(timers)
    BY Typed DEF Sorted
  <2>2. n \in 0 .. Len(timers) /\ Due(n)
    BY DueRight DEF Sorted
  <2> QED
    BY <2>1, <2>2 DEF Sorted
<1>1. \A i \in 0 .. n : LoopType(f[i], n - i) /\ LoopRight(f[i], n - i, n)
  BY LoopSorted
<1>2. \A i \in 0 .. n : LoopKept(f[i], n - i, n)
  <2> DEFINE bad == {i \in 0 .. n : ~LoopKept(f[i], n - i, n)}
  <2> SUFFICES ASSUME bad # {} PROVE FALSE
    OBVIOUS
  <2>1. PICK m \in bad : \A k \in bad : m <= k
    <3>1. bad \in SUBSET Nat
      BY <1>0
    <3> QED
      BY <3>1, LeastElement
  <2>2. CASE m = 0
    <3>1. f[0] = Start /\ Start.s = timers /\ Start.tm = timer
      BY DEF Loop, Start
    <3>2. \A q : ~Repeats(q, n, n)
      <4>1. \A j \in n + 1 .. n : FALSE
        BY <1>0
      <4> QED
        BY <4>1 DEF Repeats
    <3>3. timers[Len(timers)] # NULL
      <4>1. Len(timers) \in DOMAIN timers
        BY <1>0
      <4> QED
        BY <4>1 DEF Sorted, Full
    <3>4. LoopKept(Start, n, n)
      BY <3>1, <3>2, <3>3 DEF LoopKept
    <3>5. n - m = n
      BY <1>0, <2>2
    <3> QED
      BY <2>1, <2>2, <3>1, <3>4, <3>5
  <2>3. CASE m # 0
    <3>1. m - 1 \in 0 .. n /\ m \in 1 .. n /\ ~(m <= m - 1)
      BY <1>0, <2>1, <2>3
    <3>2. /\ LoopType(f[m - 1], n - (m - 1)) /\ LoopRight(f[m - 1], n - (m - 1), n)
          /\ LoopKept(f[m - 1], n - (m - 1), n)
      BY <1>1, <2>1, <3>1
    <3> DEFINE i == n - m + 1
    <3>3. i \in 1 .. n /\ i = n - (m - 1) /\ i - 1 = n - m
      BY <1>0, <3>1
    <3>4. f[m] = Fire(f[m - 1], i)
      BY <3>1 DEF Loop
    <3> HIDE DEF i
    <3>5. LoopType(f[m - 1], i) /\ LoopRight(f[m - 1], i, n) /\ LoopKept(f[m - 1], i, n)
      BY <3>2, <3>3
    <3>6. LoopKept(Fire(f[m - 1], i), i - 1, n)
      <4>1. CASE timer[timers[i]].one_time
        BY <1>0, <3>3, <3>5, <4>1, FireOnceKept
      <4>2. CASE ~timer[timers[i]].one_time
        BY <1>0, <3>3, <3>5, <4>2, FireAgainKept
      <4> QED
        BY <4>1, <4>2
    <3>7. LoopKept(f[m], n - m, n)
      BY <3>3, <3>4, <3>6
    <3> QED
      BY <2>1, <3>7
  <2> QED
    BY <2>2, <2>3
<1>3. n \in 0 .. n /\ n - n = 0
  BY <1>0
<1> QED
  BY <1>2, <1>3

\* What is in the array from an entry on.
LEMMA RestRight ==
    ASSUME NEW S, NEW s \in Seq(S), NEW n \in Nat, NEW q
    PROVE  /\ SubSeq(s, n + 1, Len(s)) \in Seq(S)
           /\ q \in Pointers(SubSeq(s, n + 1, Len(s))) <=> Above(s, q, n)
<1> DEFINE r == SubSeq(s, n + 1, Len(s))
<1>0. Len(s) \in Nat /\ DOMAIN s = 1 .. Len(s)
  OBVIOUS
<1>1. /\ r \in Seq(S)
      /\ Len(r) = IF n + 1 <= Len(s) THEN Len(s) - (n + 1) + 1 ELSE 0
      /\ \A i \in 1 .. Len(s) - (n + 1) + 1 : r[i] = s[(n + 1) + i - 1]
  <2>1. n + 1 \in Int /\ Len(s) \in Int /\ \A i \in n + 1 .. Len(s) : s[i] \in S
    BY <1>0
  <2> QED
    BY <2>1, SubSeqProperties
<1> HIDE DEF r
<1>2. DOMAIN r = 1 .. Len(r)
  BY <1>1
<1>3. ASSUME NEW i \in DOMAIN r PROVE n + i \in n + 1 .. Len(s) /\ r[i] = s[n + i]
  <2>1. i \in 1 .. Len(s) - (n + 1) + 1
    <3>1. CASE n + 1 <= Len(s)
      BY <1>1, <1>2, <3>1
    <3>2. CASE ~(n + 1 <= Len(s))
      BY <1>1, <1>2, <3>2
    <3> QED
      BY <3>1, <3>2
  <2>2. (n + 1) + i - 1 = n + i /\ n + i \in n + 1 .. Len(s)
    BY <1>0, <2>1
  <2> QED
    BY <1>1, <2>1, <2>2
<1>4. ASSUME NEW j \in n + 1 .. Len(s) PROVE j - n \in DOMAIN r /\ r[j - n] = s[j]
  <2>1. n + 1 <= Len(s)
    BY <1>0
  <2>2. Len(r) = Len(s) - (n + 1) + 1
    BY <1>1, <2>1
  <2>3. j - n \in 1 .. Len(s) - (n + 1) + 1 /\ (n + 1) + (j - n) - 1 = j
    BY <1>0, <2>1
  <2> QED
    BY <1>1, <1>2, <2>2, <2>3
<1>5. q \in Pointers(r) <=> Above(s, q, n)
  <2>1. ASSUME q \in Pointers(r) PROVE Above(s, q, n)
    <3>1. PICK i \in DOMAIN r : q = r[i]
      BY <2>1 DEF Pointers
    <3> QED
      BY <1>3, <3>1 DEF Above
  <2>2. ASSUME Above(s, q, n) PROVE q \in Pointers(r)
    <3>1. PICK j \in n + 1 .. Len(s) : s[j] = q
      BY <2>2 DEF Above
    <3>2. j - n \in DOMAIN r /\ r[j - n] = q
      BY <1>4, <3>1
    <3> QED
      BY <3>2 DEF Pointers
  <2> QED
    BY <2>1, <2>2
<1> QED
  BY <1>1, <1>5 DEF r

\* A compress leaves every timer in the array.
LEMMA CompressPointers ==
    ASSUME NEW S, NEW s \in Seq(S), NEW q \in Nat
    PROVE  q \in Pointers(Compress(s)) <=> q \in Pointers(s)
<1>1. ASSUME q \in Pointers(s) PROVE q \in Pointers(Keep(s, Nat))
  <2>1. PICK b \in DOMAIN s : s[b] = q
    BY <1>1 DEF Pointers
  <2>2. \E j \in DOMAIN Keep(s, Nat) : Keep(s, Nat)[j] = s[b]
    BY <2>1, KeepAll
  <2> QED
    BY <2>1, <2>2 DEF Pointers
<1>2. ASSUME q \in Pointers(Keep(s, Nat)) PROVE q \in Pointers(s)
  <2>1. PICK j \in DOMAIN Keep(s, Nat) : Keep(s, Nat)[j] = q
    BY <1>2 DEF Pointers
  <2>2. \E b \in DOMAIN s : Keep(s, Nat)[j] = s[b]
    BY <2>1, KeepOrder
  <2> QED
    BY <2>1, <2>2 DEF Pointers
<1> QED
  BY <1>1, <1>2 DEF Compress

\* What a call of make_timer_goal keeps: the timers above the highest due entry as they
\* were, and those of the others that repeat with their next time.
LEMMA GoalsKept ==
    ASSUME Sorted, TimerAssumption, Regular, Near, psi_timer_goals, NEW q \in DOMAIN timer
    PROVE  /\ q \in Pointers(timers') <=> Above(timers, q, HighestDue) \/ Repeats(q, 0, HighestDue)
           /\ timer'[q] = IF Repeats(q, 0, HighestDue) THEN Again(q) ELSE timer[q]
<1> DEFINE n == HighestDue
<1>0. /\ timers \in Seq(Objects) /\ Len(timers) \in Nat /\ TypeOK /\ q \in Nat
  BY Typed DEF Sorted
<1>1. /\ timers' = make_timer_goal(n).s /\ timer' = make_timer_goal(n).tm /\ n > 0
  BY DEF psi_timer_goals
<1>2. n \in 1 .. Len(timers) /\ n \in Nat
  BY <1>0, <1>1, DueRight
<1>3. PICK f : Loop(f, n)
  BY <1>2, GoalLoop DEF Loop
<1>4. LoopType(f[n], 0) /\ LoopKept(f[n], 0, n)
  <2>1. \A i \in 0 .. n : LoopType(f[i], n - i)
    BY <1>1, <1>3, LoopSorted
  <2>2. LoopKept(f[n], 0, n)
    BY <1>1, <1>3, LoopAll
  <2> HIDE DEF n
  <2>3. n \in 0 .. n /\ n - n = 0
    BY <1>2
  <2> QED
    BY <2>1, <2>2, <2>3
<1> HIDE DEF n
<1> DEFINE st == f[n]
           rest == SubSeq(st.s, n + 1, Len(st.s))
<1>5. /\ st.s \in Seq(Objects)
      /\ st = [s |-> st.s, tm |-> st.tm, freed |-> st.freed]
  BY <1>4 DEF LoopType, States
<1>6. make_timer_goal(n) = [st EXCEPT !.s = Compress(rest)]
  BY <1>3 DEF Loop
<1>7. rest \in Seq(Objects) /\ (q \in Pointers(rest) <=> Above(st.s, q, n))
  BY <1>2, <1>5, RestRight
<1> HIDE DEF rest, st
<1>8. timers' = Compress(rest) /\ timer' = st.tm
  BY <1>1, <1>5, <1>6
<1>9. q \in Pointers(timers') <=> Above(st.s, q, n)
  BY <1>0, <1>7, <1>8, CompressPointers
<1>10. /\ Above(st.s, q, n) <=> Above(timers, q, n) \/ Repeats(q, 0, n)
       /\ st.tm[q] = IF Repeats(q, 0, n) THEN Again(q) ELSE timer[q]
  BY <1>4 DEF LoopKept, st
<1> QED
  BY <1>8, <1>9, <1>10 DEF n

\* No timer gets further away than its delay.
LEMMA NearStep ==
    ASSUME Sorted, TimerAssumption, Regular, Near, [Next]_vars
    PROVE  Near'
<1>0. /\ timer \in Seq(Timer) /\ Len(timer) \in Nat /\ DOMAIN timer = 1 .. Len(timer)
      /\ now \in Nat /\ Deltas \subseteq Nat /\ TypeOK
  BY Typed DEF Sorted
<1>1. \A q \in DOMAIN timer : timer[q].time \in Nat /\ timer[q].delta \in Nat
  <2>1. \A q \in DOMAIN timer : timer[q] \in Timer
    BY <1>0
  <2> QED
    BY <1>0, <2>1 DEF Timer
<1>2. CASE \E th \in Threads, d \in Deltas, ot \in OneTimeFlags : psi_create_timer(th, d, ot)
  <2>1. PICK th \in Threads, d \in Deltas, ot \in OneTimeFlags : psi_create_timer(th, d, ot)
    BY <1>2
  <2> DEFINE e == [thread |-> th, time |-> now + d, delta |-> d, one_time |-> ot]
  <2>2. timer' = Append(timer, e) /\ now' = now
    BY <2>1 DEF psi_create_timer
  <2>3. e.time = now + e.delta /\ e.time \in Nat
    BY <1>0
  <2> HIDE DEF e
  <2>4. ASSUME NEW q \in DOMAIN timer' PROVE timer'[q].time <= now + timer'[q].delta
    <3>1. CASE q \in DOMAIN timer
      <4>1. timer'[q] = timer[q]
        BY <1>0, <2>2, <3>1
      <4> QED
        BY <3>1, <4>1 DEF Near
    <3>2. CASE q \notin DOMAIN timer
      <4>1. timer'[q] = e
        BY <1>0, <2>2, <3>2
      <4>2. \A x \in Nat : x <= x
        OBVIOUS
      <4>3. e.time <= e.time
        BY <2>3, <4>2
      <4> QED
        BY <2>3, <4>1, <4>3
    <3> QED
      BY <3>1, <3>2
  <2> QED
    BY <2>2, <2>4 DEF Near
<1>3. CASE psi_timer_goals
  <2>1. DOMAIN timer' = DOMAIN timer /\ now' = now
    BY <1>0, <1>3, GoalsType DEF psi_timer_goals
  <2>2. ASSUME NEW q \in DOMAIN timer PROVE timer'[q].time <= now + timer'[q].delta
    <3>1. timer'[q] = Again(q) \/ timer'[q] = timer[q]
      BY <1>3, GoalsKept
    <3>2. CASE timer'[q] = timer[q]
      BY <3>2 DEF Near
    <3>3. CASE timer'[q] = Again(q)
      <4>1. timer[q] \in Timer
        BY <1>0
      <4>2. Again(q).time = now + timer[q].delta /\ Again(q).delta = timer[q].delta
        BY <4>1 DEF Again, Timer
      <4> QED
        BY <1>0, <1>1, <3>3, <4>2
    <3> QED
      BY <3>1, <3>2, <3>3
  <2> QED
    BY <2>1, <2>2 DEF Near
<1>4. CASE Tick
  <2>1. timer' = timer /\ now' = now + 1
    BY <1>4 DEF Tick
  <2> QED
    BY <1>0, <1>1, <2>1 DEF Near
<1>5. CASE UNCHANGED <<timer, now>>
  BY <1>5 DEF Near
<1>6. ~\E th \in DeleteCallers, id \in 1 .. MaxTimers : psi_delete_timer(th, id)
  BY DEF Regular, NoDeletes
<1> QED
  BY <1>2, <1>3, <1>4, <1>5, <1>6 DEF Next, psi_thread_exit, run_timer_goal, Undefined, vars

NearSorted == Sorted /\ Near

LEMMA NearAlways == ASSUME Regular PROVE Spec => []NearSorted
<1>0. NoDeletes
  BY DEF Regular
<1>1. Init => Near
  <2>1. \A q \in DOMAIN <<>> : FALSE
    OBVIOUS
  <2> QED
    BY <2>1 DEF Init, Near
<1>2. Sorted /\ Near /\ [Next]_vars => Near'
  BY NearStep, TimerAssumption
<1>3. Spec => []Sorted
  BY <1>0, SortedAlways
<1>4. NearSorted <=> Sorted /\ Near
  BY DEF NearSorted
<1> QED
  BY <1>1, <1>2, <1>3, <1>4, PTL DEF Spec

\* The armed timers, and each of them.
Item(t, p) == [thread |-> t.thread, time |-> t.time, id |-> p, delta |-> t.delta, one_time |-> t.one_time]
Armed == {Item(timer[p], p) : p \in Stacked}

LEMMA ServiceNames ==
    /\ Service!Due = {t \in Armed : t.time <= now}
    /\ \A t : Service!Rearmed(t) = [t EXCEPT !.time = now + t.delta]
    /\ Service!Create <=> \E th \in Threads, d \in Deltas, ot \in OneTimeFlags, id \in 1 .. MaxTimers :
            /\ \A t \in Armed : t.id # id
            /\ Armed' = Armed \union {[thread |-> th, time |-> now + d, id |-> id,
                                       delta |-> d, one_time |-> ot]}
            /\ UNCHANGED now
    /\ Service!Exit <=> \E th \in Threads : Armed' = {t \in Armed : t.thread # th} /\ UNCHANGED now
    /\ Service!Deliver <=>
            /\ Service!Due # {}
            /\ Armed' = (Armed \ Service!Due)
                          \union {Service!Rearmed(t) : t \in {u \in Service!Due : ~u.one_time}}
            /\ UNCHANGED now
    /\ Service!Tick <=> now' > now /\ Armed' = Armed
    /\ Service!Init <=> Armed = {} /\ now = 0
    /\ UNCHANGED Service!vars <=> Armed' = Armed /\ now' = now
BY DEF Service!Due, Service!Rearmed, Service!Create, Service!Exit, Service!Deliver, Service!Tick,
       Service!Init, Service!vars, Armed, Item

\* A new element of a sequence is added to its elements.
LEMMA InsertPointers ==
    ASSUME NEW S, NEW s \in Seq(S), NEW k \in 1 .. Len(s) + 1, NEW it \in S
    PROVE  Pointers(InsertAt(s, k, it)) = Pointers(s) \union {it}
<1>1. Len(s) \in Nat /\ DOMAIN s = 1 .. Len(s)
  OBVIOUS
<1> DEFINE u == InsertAt(s, k, it)
<1>2. u \in Seq(S) /\ Inserted(s, u, k, it)
  BY InsertRight
<1> HIDE DEF u
<1>3. /\ u \in Seq(S) /\ Len(u) = Len(s) + 1 /\ u[k] = it
      /\ \A j \in 1 .. k - 1 : u[j] = s[j]
      /\ \A j \in k + 1 .. Len(s) + 1 : u[j] = s[j - 1]
  BY <1>2 DEF Inserted
<1>4. DOMAIN u = 1 .. Len(s) + 1
  BY <1>3
<1>5. ASSUME NEW q \in Pointers(u) PROVE q \in Pointers(s) \union {it}
  <2>1. PICK j \in DOMAIN u : q = u[j]
    BY DEF Pointers
  <2>2. CASE j < k
    <3>1. j \in 1 .. k - 1 /\ j \in DOMAIN s
      BY <1>1, <1>4, <2>2
    <3> QED
      BY <1>3, <2>1, <3>1 DEF Pointers
  <2>3. CASE j = k
    BY <1>3, <2>1, <2>3
  <2>4. CASE j > k
    <3>1. j \in k + 1 .. Len(s) + 1 /\ j - 1 \in DOMAIN s
      BY <1>1, <1>4, <2>4
    <3> QED
      BY <1>3, <2>1, <3>1 DEF Pointers
  <2> QED
    BY <1>1, <1>4, <2>2, <2>3, <2>4
<1>6. it \in Pointers(u)
  BY <1>1, <1>3, <1>4 DEF Pointers
<1>7. ASSUME NEW q \in Pointers(s) PROVE q \in Pointers(u)
  <2>1. PICK j \in DOMAIN s : q = s[j]
    BY DEF Pointers
  <2>2. CASE j < k
    <3>1. j \in 1 .. k - 1 /\ j \in DOMAIN u
      BY <1>1, <1>4, <2>2
    <3> QED
      BY <1>3, <2>1, <3>1 DEF Pointers
  <2>3. CASE ~(j < k)
    <3>1. j + 1 \in k + 1 .. Len(s) + 1 /\ j + 1 \in DOMAIN u /\ (j + 1) - 1 = j
      BY <1>1, <1>4, <2>3
    <3>2. u[j + 1] = s[j]
      BY <1>3, <3>1
    <3> QED
      BY <2>1, <3>1, <3>2 DEF Pointers
  <2> QED
    BY <2>2, <2>3
<1> QED
  BY <1>5, <1>6, <1>7 DEF u

LEMMA ServiceCreate ==
    ASSUME Sorted, TimerAssumption, NEW th \in Threads, NEW d \in Deltas, NEW ot \in OneTimeFlags,
           psi_create_timer(th, d, ot)
    PROVE  Service!Create /\ Stacked \subseteq Stacked'
<1> DEFINE it == next_id + 1
           e == [thread |-> th, time |-> now + d, delta |-> d, one_time |-> ot]
           k == InsertPoint(timers, timer', it)
<1>0. /\ timers \in Seq(Objects) /\ timer \in Seq(Timer) /\ Len(timer) \in Nat
      /\ DOMAIN timer = 1 .. Len(timer) /\ NULL \notin Nat
  BY Typed DEF Sorted
<1>1. /\ timer' = Append(timer, e) /\ timers' = InsertAt(timers, k, it) /\ now' = now
      /\ next_id < MaxTimers
  BY DEF psi_create_timer, insert_timer
<1>2. k \in 1 .. Len(timers) + 1
  BY <1>0, PointRight
<1> HIDE DEF k, e
<1>3. it \in 1 .. MaxTimers /\ it \notin DOMAIN timer /\ it \in Nat /\ it # NULL
  BY <1>0, <1>1, TimerAssumption DEF next_id, TimerAssumption
<1>4. timer'[it] = e /\ \A q \in DOMAIN timer : timer'[q] = timer[q]
  BY <1>0, <1>1 DEF next_id
<1> HIDE DEF it
<1>5. Stacked' = Stacked \union {it}
  <2> DEFINE O == Objects \union {it}
  <2>1. timers \in Seq(O) /\ it \in O
    BY <1>0, SeqMonotonic
  <2> HIDE DEF O
  <2>2. Pointers(timers') = Pointers(timers) \union {it}
    BY <1>1, <1>2, <2>1, InsertPointers
  <2> QED
    BY <1>3, <2>2 DEF Stacked
<1>6. Stacked \subseteq DOMAIN timer
  BY DEF Sorted, TypeOK
<1>7. Item(e, it) = [thread |-> th, time |-> now + d, id |-> it, delta |-> d, one_time |-> ot]
  BY DEF Item, e
<1>8. Armed' = Armed \union {Item(e, it)}
  <2>1. Armed' = {Item(timer'[p], p) : p \in Stacked'}
    BY DEF Armed, Item
  <2>2. \A p \in Stacked : timer'[p] = timer[p]
    BY <1>4, <1>6
  <2> QED
    BY <1>4, <1>5, <2>1, <2>2 DEF Armed
<1>9. \A t \in Armed : t.id # it
  <2>1. \A p \in Stacked : Item(timer[p], p).id = p /\ p # it
    BY <1>3, <1>6 DEF Item
  <2> QED
    BY <2>1 DEF Armed
<1> QED
  BY <1>1, <1>3, <1>5, <1>7, <1>8, <1>9, ServiceNames

LEMMA ServiceExit ==
    ASSUME Sorted, TimerAssumption, NEW th \in Threads, psi_thread_exit(th)
    PROVE  Service!Exit /\ \A p \in Stacked : p \in Stacked' \/ timer[p].thread = th
<1> DEFINE V == Nat \ {p \in DOMAIN timer : timer[p].thread = th}
<1>0. timers \in Seq(Objects) /\ DOMAIN timer \subseteq Nat /\ NULL \notin Nat
  BY Typed DEF Sorted
<1>1. timers' = Keep(timers, V) /\ timer' = timer /\ now' = now
  BY ExitSorted DEF psi_thread_exit
<1>2. Stacked \subseteq DOMAIN timer
  BY DEF Sorted, TypeOK
<1>3. \A p : p \in Stacked' <=> p \in Stacked /\ timer[p].thread # th
  <2>1. ASSUME NEW p \in Stacked' PROVE p \in Stacked /\ timer[p].thread # th
    <3>1. PICK j \in DOMAIN Keep(timers, V) : Keep(timers, V)[j] = p
      BY <1>1 DEF Stacked, Pointers
    <3> HIDE DEF V
    <3>2. (\A i \in DOMAIN Keep(timers, V) : Keep(timers, V)[i] \in V)
      BY <1>0, KeepType
    <3>3. \E b \in DOMAIN timers : Keep(timers, V)[j] = timers[b]
      BY <1>0, <3>1, KeepOrder
    <3>4. p \in Pointers(timers) /\ p \in V
      BY <3>1, <3>2, <3>3 DEF Pointers
    <3> USE DEF V
    <3>5. p \in Stacked
      BY <1>0, <3>4 DEF Stacked
    <3> QED
      BY <1>2, <3>4, <3>5
  <2>2. ASSUME NEW p \in Stacked, timer[p].thread # th PROVE p \in Stacked'
    <3>1. p \in V
      BY <1>0, <1>2, <2>2
    <3> HIDE DEF V
    <3>2. PICK b \in DOMAIN timers : timers[b] = p
      BY DEF Stacked, Pointers
    <3>3. \E j \in DOMAIN Keep(timers, V) : Keep(timers, V)[j] = timers[b]
      BY <1>0, <3>1, <3>2, KeepAll
    <3>4. p \in Pointers(timers') /\ p # NULL
      BY <1>1, <3>2, <3>3 DEF Pointers, Stacked
    <3> QED
      BY <3>4 DEF Stacked
  <2> QED
    BY <2>1, <2>2
<1>4. Armed' = {t \in Armed : t.thread # th}
  <2>1. Armed' = {Item(timer[p], p) : p \in Stacked'}
    BY <1>1 DEF Armed, Item
  <2>2. \A p : Item(timer[p], p).thread = timer[p].thread
    BY DEF Item
  <2> QED
    BY <1>3, <2>1, <2>2 DEF Armed
<1> QED
  BY <1>1, <1>3, <1>4, ServiceNames

LEMMA ServiceDeliver ==
    ASSUME Sorted, Near, Regular, TimerAssumption, psi_timer_goals
    PROVE  /\ Service!Deliver
           /\ \A p \in Stacked : p \in Stacked' \/ (timer[p].one_time /\ timer[p].time <= now)
<1> DEFINE n == HighestDue
<1>0. /\ timers \in Seq(Objects) /\ timer \in Seq(Timer) /\ Len(timers) \in Nat
      /\ DOMAIN timers = 1 .. Len(timers) /\ now \in Nat /\ NULL \notin DOMAIN timer /\ TypeOK
  BY Typed DEF Sorted
<1>1. n > 0 /\ now' = now /\ DOMAIN timer' = DOMAIN timer
  BY <1>0, GoalsType DEF psi_timer_goals
<1>2. /\ n \in 1 .. Len(timers) /\ Due(n) /\ n \in Nat
      /\ \A j \in DOMAIN timers : Due(j) => j <= n
  BY <1>0, <1>1, DueRight
<1>3. \A j \in DOMAIN timers : timers[j] \in DOMAIN timer /\ timers[j] # NULL
  BY <1>0 DEF Sorted, Full, Objects
<1>4. \A p : p \in Stacked <=> \E j \in DOMAIN timers : timers[j] = p
  BY <1>3 DEF Stacked, Pointers
<1>5. \A q \in DOMAIN timer :
         /\ q \in Pointers(timers') <=> Above(timers, q, n) \/ Repeats(q, 0, n)
         /\ timer'[q] = IF Repeats(q, 0, n) THEN Again(q) ELSE timer[q]
  BY GoalsKept
<1>6. Stacked' \subseteq DOMAIN timer
  <2>1. TypeOK'
    BY <1>0, GoalsType
  <2> QED
    BY <1>1, <2>1 DEF TypeOK
<1>7. \A p : p \in Stacked' <=> p \in DOMAIN timer /\ (Above(timers, p, n) \/ Repeats(p, 0, n))
  BY <1>0, <1>5, <1>6 DEF Stacked
<1>8. \A j \in 1 .. n : timer[timers[j]].time <= now
  BY <1>2, AllDue
<1> HIDE DEF n
\* Which timers are due, and which are above.
<1>9. ASSUME NEW p
      PROVE  /\ p \in Stacked /\ timer[p].time <= now <=> \E j \in 1 .. n : timers[j] = p
             /\ p \in Stacked /\ ~(timer[p].time <= now) <=> Above(timers, p, n)
  <2>1. \A j \in DOMAIN timers : j \in 1 .. n \/ j \in n + 1 .. Len(timers)
    BY <1>0, <1>2
  <2>2. /\ \A j \in 1 .. n : j \in DOMAIN timers
        /\ \A j \in n + 1 .. Len(timers) : j \in DOMAIN timers /\ ~(j <= n)
    BY <1>0, <1>2
  <2>3. \A j \in n + 1 .. Len(timers) : ~(timer[timers[j]].time <= now)
    BY <1>2, <1>3, <2>2 DEF Due
  <2> QED
    BY <1>4, <1>8, <2>1, <2>2, <2>3 DEF Above
<1>10. ASSUME NEW p
       PROVE  Repeats(p, 0, n) <=> p \in Stacked /\ timer[p].time <= now /\ ~timer[p].one_time
  <2>1. \A j : j \in 0 + 1 .. n <=> j \in 1 .. n
    BY <1>2
  <2>2. Repeats(p, 0, n) <=> (\E j \in 1 .. n : timers[j] = p) /\ ~timer[p].one_time
    BY <2>1 DEF Repeats
  <2> QED
    BY <1>9, <2>2
<1> DEFINE Late(p) == timer[p].time <= now
<1>11. Stacked \subseteq DOMAIN timer
  BY <1>0 DEF TypeOK
<1>12. \A p : p \in Stacked' <=> p \in Stacked /\ (~Late(p) \/ ~timer[p].one_time)
  BY <1>7, <1>9, <1>10, <1>11
<1>13. \A p \in Stacked : timer'[p] = IF Late(p) /\ ~timer[p].one_time THEN Again(p) ELSE timer[p]
  BY <1>5, <1>10, <1>11
<1> DEFINE I(p) == Item(timer[p], p)
           R(p) == Item(Again(p), p)
<1>14. Armed' = {I(p) : p \in {q \in Stacked : ~Late(q)}}
                  \union {R(p) : p \in {q \in Stacked : Late(q) /\ ~timer[q].one_time}}
  <2>1. Armed' = {Item(timer'[p], p) : p \in Stacked'}
    BY DEF Armed, Item
  <2> HIDE DEF Late
  <2>2. \A p \in Stacked : ~Late(p) => Item(timer'[p], p) = I(p)
    BY <1>13
  <2>3. \A p \in Stacked : Late(p) /\ ~timer[p].one_time => Item(timer'[p], p) = R(p)
    BY <1>13
  <2> HIDE DEF I, R
  <2> QED
    BY <1>12, <2>1, <2>2, <2>3
<1>15. \A p : /\ I(p).time = timer[p].time /\ I(p).one_time = timer[p].one_time
              /\ I(p).id = p /\ I(p).delta = timer[p].delta
  BY DEF Item
<1>16. Service!Due = {I(p) : p \in {q \in Stacked : Late(q)}}
  <2>1. Service!Due = {t \in Armed : t.time <= now}
    BY ServiceNames
  <2>2. Armed = {I(p) : p \in Stacked}
    BY DEF Armed
  <2> HIDE DEF I
  <2> QED
    BY <1>15, <2>1, <2>2
<1>17. \A p \in Stacked : Service!Rearmed(I(p)) = R(p)
  <2>1. ASSUME NEW p \in Stacked PROVE Service!Rearmed(I(p)) = R(p)
    <3>1. timer[p] \in Timer
      BY <1>0, <1>11
    <3>2. Service!Rearmed(I(p)) = [I(p) EXCEPT !.time = now + timer[p].delta]
      BY <1>15, ServiceNames
    <3> QED
      BY <3>1, <3>2 DEF Item, Again, Timer
  <2> QED
    BY <2>1
<1>18. Service!Due # {}
  <2>1. timers[n] \in Stacked /\ Late(timers[n])
    BY <1>0, <1>2, <1>4 DEF Due
  <2> QED
    BY <1>16, <2>1
<1> HIDE DEF I, R, Late
<1>19. Armed \ Service!Due = {I(p) : p \in {q \in Stacked : ~Late(q)}}
  <2>1. Armed = {I(p) : p \in Stacked}
    BY DEF Armed, I
  <2>2. \A p, q : I(p) = I(q) => p = q
    BY <1>15
  <2> QED
    BY <1>16, <2>1, <2>2
<1>20. {Service!Rearmed(t) : t \in {u \in Service!Due : ~u.one_time}}
         = {R(p) : p \in {q \in Stacked : Late(q) /\ ~timer[q].one_time}}
  BY <1>15, <1>16, <1>17
<1>21. Armed' = (Armed \ Service!Due)
                  \union {Service!Rearmed(t) : t \in {u \in Service!Due : ~u.one_time}}
  BY <1>14, <1>19, <1>20
<1> QED
  BY <1>1, <1>12, <1>18, <1>21, ServiceNames DEF Late

LEMMA ServiceStep ==
    ASSUME NearSorted, TimerAssumption, Regular, [Next]_vars
    PROVE  [Service!Next]_(Service!vars)
<1>0. Sorted /\ Near
  BY DEF NearSorted
<1>1. CASE \E th \in Threads, d \in Deltas, ot \in OneTimeFlags : psi_create_timer(th, d, ot)
  BY <1>0, <1>1, ServiceCreate DEF Service!Next
<1>2. CASE \E th \in Threads : psi_thread_exit(th)
  BY <1>0, <1>2, ServiceExit DEF Service!Next
<1>3. CASE psi_timer_goals
  BY <1>0, <1>3, ServiceDeliver DEF Service!Next
<1>4. CASE Tick
  <2>1. now' = now + 1 /\ now \in Nat /\ timers' = timers /\ timer' = timer
    BY <1>0, <1>4 DEF Tick, Sorted, TypeOK
  <2>2. now' > now /\ Armed' = Armed
    BY <2>1 DEF Armed, Item, Stacked
  <2> QED
    BY <2>2, ServiceNames DEF Service!Next
<1>5. CASE UNCHANGED <<timers, timer, now>>
  <2>1. Armed' = Armed /\ now' = now
    BY <1>5 DEF Armed, Item, Stacked
  <2> QED
    BY <2>1, ServiceNames
<1>6. ~\E th \in DeleteCallers, id \in 1 .. MaxTimers : psi_delete_timer(th, id)
  BY DEF Regular, NoDeletes
<1> QED
  BY <1>1, <1>2, <1>3, <1>4, <1>5, <1>6 DEF Next, run_timer_goal, Undefined, vars

\* Under the same condition a timer leaves the array for no other reason than that it
\* fires and is a one-time timer, or that its thread exits (make_timer_goal,
\* delete_all_timers).
THEOREM NothingLost == ASSUME Regular PROVE Spec => NoTimerLost
<1> DEFINE A == \A p \in Stacked :
                   \/ p \in Pointers(timers')
                   \/ timer[p].one_time /\ timer[p].time <= now
                   \/ psi_delete_timer(timer[p].thread, p)
                   \/ psi_thread_exit(timer[p].thread)
<1>1. NearSorted /\ [Next]_vars => A
  <2> SUFFICES ASSUME NearSorted, [Next]_vars, NEW p \in Stacked
               PROVE  \/ p \in Stacked'
                      \/ timer[p].one_time /\ timer[p].time <= now
                      \/ psi_thread_exit(timer[p].thread)
    BY DEF Stacked
  <2>0. Sorted /\ Near /\ TimerAssumption
    BY TimerAssumption DEF NearSorted
  <2>1. CASE \E th \in Threads, d \in Deltas, ot \in OneTimeFlags : psi_create_timer(th, d, ot)
    BY <2>0, <2>1, ServiceCreate
  <2>2. CASE \E th \in Threads : psi_thread_exit(th)
    <3>1. PICK th \in Threads : psi_thread_exit(th)
      BY <2>2
    <3>2. p \in Stacked' \/ timer[p].thread = th
      BY <2>0, <3>1, ServiceExit
    <3> QED
      BY <3>1, <3>2
  <2>3. CASE psi_timer_goals
    BY <2>0, <2>3, ServiceDeliver
  <2>4. CASE timers' = timers
    BY <2>4 DEF Stacked
  <2>5. ~\E th \in DeleteCallers, id \in 1 .. MaxTimers : psi_delete_timer(th, id)
    BY DEF Regular, NoDeletes
  <2> QED
    BY <2>1, <2>2, <2>3, <2>4, <2>5 DEF Next, run_timer_goal, Undefined, Tick, vars
<1>2. Spec => [][A]_vars
  BY <1>1, NearAlways, PTL DEF Spec
<1> QED
  BY <1>2 DEF NoTimerLost

LEMMA ServiceInit == Init => Service!Init
<1>1. DOMAIN <<>> = {}
  OBVIOUS
<1>2. Init => Stacked = {}
  BY <1>1 DEF Init, Stacked, Pointers
<1> QED
  BY <1>2, ServiceNames DEF Init, Armed

\* Where all timers are one-time ones, or all repeat with one delay, and delete_timer is
\* not called, the array does what is promised of timers: each timer stays armed until it is due,
\* its goal is called and, if it repeats, it is armed again for its next period, and
\* only the exit of its thread takes it away (insert_timer, make_timer_goal,
\* delete_all_timers).
THEOREM ServiceImplemented == ASSUME Regular PROVE Spec => RefinesService
<1>1. Spec => Service!Init
  BY ServiceInit, PTL DEF Spec
<1>2. Spec => [][Service!Next]_(Service!vars)
  <2>1. NearSorted /\ [Next]_vars => [Service!Next]_(Service!vars)
    BY ServiceStep, TimerAssumption
  <2> QED
    BY <2>1, NearAlways, PTL DEF Spec
<1> QED
  BY <1>1, <1>2, PTL DEF RefinesService, Service!Spec
=============================================================================
