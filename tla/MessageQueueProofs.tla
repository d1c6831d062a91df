------------------------- MODULE MessageQueueProofs -------------------------
(***************************************************************************)
(* Proof that receives are sound (ReceivesSound) and that message queues   *)
(* are mailboxes (MailboxSpec), for timer goals that do not commit to      *)
(* messages.  The restriction is needed: a timer goal that does a receive  *)
(* between the test and the commit of the thread it interrupts can take    *)
(* the same message, and TLC shows that it does.                           *)
(***************************************************************************)
EXTENDS MessageQueue, SequenceTheorems, FiniteSetTheorems, WellFoundedInduction, TLAPS

GoalsOnlyPeek == "recv" \notin GoalModes

-----------------------------------------------------------------------------
(* The inductive invariant.                                                *)

\* What the thread is doing itself: while a timer goal runs in it, what it was
\* doing when the goal interrupted it.
Interrupted(t) == t = Console /\ goal # NoGoal
StatusOf(t)    == IF Interrupted(t) THEN goal.status ELSE mstatus[t]
Depth(t)       == IF Interrupted(t) THEN goal.depth ELSE Len(uses[t])

\* The receives of t that hold a reference to m.
Holders(t, m) == {i \in DOMAIN uses[t] : uses[t][i].st # "first" /\ uses[t][i].pos = m}

\* A message is in one queue, and is referred to and committed to, once, after
\* it has been sent.
QueuesInv ==
    /\ \A s, t \in Receivers : s # t => queue[s] \intersect queue[t] = {}
    /\ \A t \in Receivers : mstatus[t] = "dead" => queue[t] = {} /\ uses[t] = <<>>
    /\ \A m \in Messages : m > sent => ~committed[m] /\ refs[m] = 0
    /\ \A m \in Messages : taken[m] = IF committed[m] THEN 1 ELSE 0

\* A timer goal runs on top of the receives it interrupts, and does not block.
GoalInv ==
    goal # NoGoal =>
        /\ goal.status # "dead"
        /\ goal.depth <= Len(uses[Console])
        /\ mstatus[Console] = "running"
        /\ \A i \in DOMAIN uses[Console] : i > goal.depth =>
            uses[Console][i].timeout = "poll" /\ uses[Console][i].mode = "peek"

\* A receive within another is called after a peek, and only the innermost one
\* is scanning.
Stack(t) ==
    /\ StatusOf(t) \in {"blocked", "restart_msg", "restart_time"} =>
        Depth(t) > 0 /\ uses[t][Depth(t)].st # "match"
    /\ \A i \in DOMAIN uses[t] : i # Depth(t) /\ i # Len(uses[t]) =>
        uses[t][i].st = "match" /\ uses[t][i].mode = "peek"

\* What a receive knows of the message it is at, and of those it looked at.
Knows(t) ==
    \A i \in DOMAIN uses[t] :
        LET u == uses[t][i] IN
        /\ \A m \in u.seen : m <= sent
        /\ u.st = "match" => kind[u.pos] \in u.pattern
        /\ u.mode = "recv" =>
            \A m \in u.seen : kind[m] \in u.pattern => u.st = "match" /\ m = u.pos
        /\ u.mode = "recv" /\ u.st = "match" => ~committed[u.pos]
        /\ Stalled(t, i) => u.pos = End

\* As long as nothing has committed to a message, those that are at it hold
\* references to it: none is taken for the last by mistake.  (Of a message that
\* was committed to there may be fewer: a receive that blocks gives up none, and
\* when it goes on it gives up one to the message it was put back on.)
Held(t) ==
    \A m \in queue[t] : ~committed[m] => Cardinality(Holders(t, m)) <= refs[m]

\* old: the messages that were in the queue when t blocked.  It has looked at
\* all of them, and if it is put back on the last it has a reference to it.
Examined(t, old) ==
    LET u == uses[t][Depth(t)] IN
    /\ Cardinality(old) = size[t]
    /\ \A m \in old : \A k \in queue[t] \ old : m < k
    /\ \A m \in old : m \in u.seen \/ committed[m]
    /\ u.st = "next" => old # {}
    /\ u.st = "next" => \A m \in old : ~committed[m] /\ (\A k \in old : k <= m) =>
        Cardinality(Holders(t, m)) < refs[m]

Blocked(t) == StatusOf(t) = "blocked" => \E old \in SUBSET queue[t] : Examined(t, old)

\* What IteratorsValid and NoneSkipped say of one thread.
Valid(t) ==
    \A i \in DOMAIN uses[t] :
        uses[t][i].st # "first" /\ ~Stalled(t, i) => uses[t][i].pos \in queue[t]

Complete(t) ==
    \A i \in DOMAIN uses[t] :
        LET u == uses[t][i] IN
        u.st # "first" /\ u.pos # End =>
            \A m \in queue[t] : m <= u.pos => m \in u.seen \/ committed[m]

Sound(t) == Stack(t) /\ Knows(t) /\ Held(t) /\ Blocked(t) /\ Valid(t) /\ Complete(t)

Receiving == MessageTypeOK /\ QueuesInv /\ GoalInv /\ \A t \in Receivers : Sound(t)

LEMMA StalledProperty ==
    ASSUME NEW t, NEW i
    PROVE  Stalled(t, i) <=> i = Depth(t) /\ StatusOf(t) \in {"blocked", "restart_time"}
BY DEF Stalled, Depth, StatusOf, Interrupted

-----------------------------------------------------------------------------
(* Lemmas about queues and receives.                                       *)

LEMMA LeastElement ==
    ASSUME NEW S \in SUBSET Nat, S # {}
    PROVE  \E m \in S : \A n \in S : m <= n
<1>1. \E m \in S : \A n \in S : ~(<<n, m>> \in OpToRel(<, Nat))
  BY NatLessThanWellFounded, WFMin
<1>2. PICK m \in S : \A n \in S : ~(n < m)
  BY <1>1 DEF OpToRel
<1>3. \A n \in S : m <= n
  BY <1>2
<1> QED
  BY <1>3

LEMMA LeastProperty ==
    ASSUME NEW S \in SUBSET Nat
    PROVE  /\ S = {} => Least(S) = End
           /\ S # {} => Least(S) \in S /\ \A k \in S : Least(S) <= k
BY LeastElement DEF Least

\* The numbers of a queue that are bounded by one of Nat have a greatest.
LEMMA GreatestElement ==
    ASSUME NEW n \in Nat, NEW S \in SUBSET (1 .. n), S # {}
    PROVE  \E m \in S : \A k \in S : k <= m
<1> DEFINE bounds == {b \in Nat : \A k \in S : k <= b}
<1>1. n \in bounds /\ bounds \in SUBSET Nat
  OBVIOUS
<1>2. PICK b \in bounds : \A c \in bounds : b <= c
  BY <1>1, LeastElement
<1>3. b \in S
  <2>1. CASE b = 0
    <3>1. PICK k \in S : k <= b
      BY <1>2
    <3> QED
      BY <2>1, <3>1
  <2>2. CASE b # 0 /\ b \notin S
    <3>1. b - 1 \in bounds
      BY <2>2
    <3> QED
      BY <3>1, <1>2
  <2> QED
    BY <2>1, <2>2
<1> QED
  BY <1>3

LEMMA OneMore ==
    ASSUME NEW S, IsFiniteSet(S), NEW x
    PROVE  /\ IsFiniteSet(S \union {x})
           /\ Cardinality(S) \in Nat /\ Cardinality(S \union {x}) \in Nat
           /\ Cardinality(S \union {x}) <= Cardinality(S) + 1
           /\ x \notin S => Cardinality(S \union {x}) = Cardinality(S) + 1
<1>1. Cardinality(S) \in Nat
  BY FS_CardinalityType
<1>2. IsFiniteSet(S \union {x})
  BY FS_AddElement
<1>3. Cardinality(S \union {x}) = IF x \in S THEN Cardinality(S) ELSE Cardinality(S) + 1
  BY FS_AddElement, Zenon
<1> QED
  BY <1>1, <1>2, <1>3

LEMMA NumbersFinite ==
    ASSUME NEW n \in Int, NEW S, S \in SUBSET (1 .. n)
    PROVE  IsFiniteSet(S) /\ Cardinality(S) \in Nat
<1> DEFINE I == 1 .. n
<1>1. IsFiniteSet(I) /\ S \in SUBSET I
  BY FS_Interval
<1> HIDE DEF I
<1>2. IsFiniteSet(S)
  BY <1>1, FS_Subset
<1> QED
  BY <1>2, FS_CardinalityType

\* The types of what belongs to a thread.
LEMMA ThreadTypes ==
    ASSUME MessageTypeOK, MessageAssumption, NEW t \in Receivers
    PROVE  /\ uses[t] \in Seq(Use)
           /\ Len(uses[t]) \in Nat
           /\ DOMAIN uses[t] = 1 .. Len(uses[t])
           /\ \A i \in DOMAIN uses[t] : uses[t][i] \in Use
           /\ queue[t] \in SUBSET Messages /\ queue[t] \in SUBSET (1 .. sent)
           /\ queue[t] \in SUBSET Nat
           /\ IsFiniteSet(queue[t]) /\ Cardinality(queue[t]) \in Nat
           /\ sent \in Nat /\ sent <= MaxMessages /\ MaxMessages \in Nat /\ sent \in Int
           /\ Depth(t) \in Nat
           /\ mstatus[t] \in Statuses /\ size[t] \in Nat
           /\ End \notin Messages
<1>1. uses[t] \in Seq(Use)
  BY DEF MessageTypeOK
<1>2. Len(uses[t]) \in Nat /\ DOMAIN uses[t] = 1 .. Len(uses[t])
  BY <1>1
<1>3. \A i \in DOMAIN uses[t] : uses[t][i] \in Use
  BY <1>1, <1>2, ElementOfSeq
<1>4. sent \in Nat /\ sent <= MaxMessages /\ MaxMessages \in Nat /\ sent \in Int
  BY DEF MessageTypeOK, MessageAssumption
<1>5. queue[t] \in SUBSET (1 .. sent)
  BY DEF MessageTypeOK
<1>7. IsFiniteSet(queue[t]) /\ Cardinality(queue[t]) \in Nat
  BY <1>4, <1>5, NumbersFinite
<1>8. Depth(t) \in Nat
  BY <1>2 DEF MessageTypeOK, Depth
<1>9. mstatus[t] \in Statuses /\ size[t] \in Nat
  BY DEF MessageTypeOK
<1>10. queue[t] \in SUBSET Messages /\ queue[t] \in SUBSET Nat /\ End \notin Messages
  BY <1>4, <1>5 DEF Messages, End
<1> QED
  BY <1>1, <1>2, <1>3, <1>4, <1>5, <1>7, <1>8, <1>9, <1>10

\* What a receive is made of.
LEMMA UseTypes ==
    ASSUME NEW u \in Use
    PROVE  /\ u.mode \in AllModes /\ u.pattern \in SUBSET MessageKinds /\ u.timeout \in AllTimeouts
           /\ u.st \in {"first", "next", "match"} /\ u.pos \in 1 .. End /\ u.seen \in SUBSET Messages
BY DEF Use

LEMMA HoldersFinite ==
    ASSUME MessageTypeOK, MessageAssumption, NEW t \in Receivers, NEW m
    PROVE  IsFiniteSet(Holders(t, m)) /\ Cardinality(Holders(t, m)) \in Nat
<1>1. Len(uses[t]) \in Int /\ DOMAIN uses[t] = 1 .. Len(uses[t])
  BY ThreadTypes
<1>2. Holders(t, m) \in SUBSET (1 .. Len(uses[t]))
  BY <1>1 DEF Holders
<1> QED
  BY <1>1, <1>2, NumbersFinite

\* The invariant says what ReceivesSound does.
LEMMA ReceivingIsSound ==
    ASSUME MessageAssumption, Receiving
    PROVE  ReceivesSound
<1>1. MessageTypeOK
  BY DEF Receiving
<1>2. IteratorsValid /\ NoneSkipped
  BY DEF Receiving, Sound, Valid, Complete, IteratorsValid, NoneSkipped
<1>3. ASSUME NEW t \in Receivers, mstatus[t] = "blocked", size[t] = Cardinality(queue[t])
      PROVE  \A m \in queue[t] : m \in Top(t).seen \/ committed[m]
  <2>1. StatusOf(t) = "blocked" /\ Depth(t) = Len(uses[t])
    BY <1>3 DEF Receiving, GoalInv, StatusOf, Depth, Interrupted
  <2>2. PICK old \in SUBSET queue[t] : Examined(t, old)
    BY <2>1 DEF Receiving, Sound, Blocked
  <2>3. Cardinality(old) = Cardinality(queue[t])
    BY <1>3, <2>2 DEF Examined
  <2>4. IsFiniteSet(queue[t])
    BY <1>1, ThreadTypes
  <2>5. old = queue[t]
    BY <2>3, <2>4, FS_Subset
  <2> QED
    BY <2>1, <2>2, <2>5 DEF Examined, Top
<1>4. NoneMissed
  BY <1>3 DEF NoneMissed
<1>5. TakenOnce
  BY DEF Receiving, QueuesInv, TakenOnce
<1> QED
  BY <1>1, <1>2, <1>4, <1>5 DEF ReceivesSound

LEMMA InitReceiving == MessageAssumption /\ MessageInit => Receiving
<1> SUFFICES ASSUME MessageAssumption, MessageInit PROVE Receiving
  OBVIOUS
<1>1. MessageTypeOK
  BY DEF MessageAssumption, MessageInit, MessageTypeOK, Statuses, NoGoal, Messages
<1>2. QueuesInv /\ GoalInv
  BY DEF MessageInit, QueuesInv, GoalInv, NoGoal, Messages
<1>3. \A t \in Receivers : Sound(t)
  BY DEF MessageInit, Sound, Stack, Knows, Held, Blocked, Valid, Complete, StatusOf, Depth,
     Interrupted, Stalled
<1> QED
  BY <1>1, <1>2, <1>3 DEF Receiving


-----------------------------------------------------------------------------
(* Threads that an action leaves alone.                                    *)

\* A thread stays sound when at most new messages are pushed back on its queue.
LEMMA OtherSound ==
    ASSUME MessageAssumption, Receiving, NEW s \in Receivers,
           sent' \in Nat, sent <= sent',
           queue[s] \subseteq queue'[s],
           \A m \in queue'[s] \ queue[s] : m \in Messages /\ m > sent /\ refs'[m] = 0,
           \A m \in queue[s] : refs'[m] = refs[m] /\ (committed'[m] <=> committed[m]),
           \A m \in Messages : m <= sent => kind'[m] = kind[m],
           uses'[s] = uses[s], StatusOf(s)' = StatusOf(s), Depth(s)' = Depth(s),
           StatusOf(s) = "blocked" => size'[s] = size[s]
    PROVE  Sound(s)'
<1> DEFINE U == uses[s]
<1>1. Sound(s) /\ MessageTypeOK
  BY DEF Receiving
<1>2. /\ U \in Seq(Use) /\ DOMAIN U = 1 .. Len(U) /\ Len(U) \in Nat
      /\ \A i \in DOMAIN U : U[i] \in Use
      /\ queue[s] \in SUBSET Messages /\ queue[s] \in SUBSET (1 .. sent) /\ sent \in Nat
      /\ End \notin Messages /\ Depth(s) \in Nat
  BY <1>1, ThreadTypes
<1>3. \A m : Holders(s, m)' = Holders(s, m)
  BY DEF Holders
<1>4. \A i : Stalled(s, i)' <=> Stalled(s, i)
  BY DEF Stalled, StatusOf, Depth, Interrupted
<1>5. ASSUME NEW i \in DOMAIN U, U[i].st # "first"
      PROVE  U[i].pos \in queue[s] \/ U[i].pos = End
  BY <1>1, <1>5 DEF Sound, Valid, Knows
<1>6. ASSUME NEW i \in DOMAIN U, U[i].st = "match"
      PROVE  U[i].pos \in queue[s]
  BY <1>1, <1>6, StalledProperty DEF Sound, Valid, Stack
<1>7. Stack(s)'
  BY <1>1 DEF Sound, Stack
<1>8. Knows(s)'
  <2> SUFFICES ASSUME NEW i \in DOMAIN U
               PROVE  /\ \A m \in U[i].seen : m <= sent'
                      /\ U[i].st = "match" => kind'[U[i].pos] \in U[i].pattern
                      /\ U[i].mode = "recv" =>
                          \A m \in U[i].seen : kind'[m] \in U[i].pattern =>
                            U[i].st = "match" /\ m = U[i].pos
                      /\ U[i].mode = "recv" /\ U[i].st = "match" => ~committed'[U[i].pos]
                      /\ Stalled(s, i)' => U[i].pos = End
    BY DEF Knows
  <2>1. /\ \A m \in U[i].seen : m <= sent
        /\ U[i].st = "match" => kind[U[i].pos] \in U[i].pattern
        /\ U[i].mode = "recv" =>
            \A m \in U[i].seen : kind[m] \in U[i].pattern => U[i].st = "match" /\ m = U[i].pos
        /\ U[i].mode = "recv" /\ U[i].st = "match" => ~committed[U[i].pos]
        /\ Stalled(s, i) => U[i].pos = End
    BY <1>1 DEF Sound, Knows
  <2>2. U[i].seen \in SUBSET Messages
    BY <1>2, UseTypes
  <2>3. \A m \in U[i].seen : kind'[m] = kind[m] /\ m <= sent'
    BY <2>1, <2>2, <1>2 DEF Messages
  <2>4. U[i].st = "match" => kind'[U[i].pos] = kind[U[i].pos]
    BY <1>2, <1>6
  <2>5. U[i].st = "match" => (committed'[U[i].pos] <=> committed[U[i].pos])
    BY <1>6
  <2> QED
    BY <2>1, <2>3, <2>4, <2>5, <1>4
<1>9. Held(s)'
  <2> SUFFICES ASSUME NEW m \in queue'[s], ~committed'[m]
               PROVE  Cardinality(Holders(s, m)) <= refs'[m]
    BY <1>3 DEF Held
  <2>1. CASE m \in queue[s]
    BY <2>1, <1>1 DEF Sound, Held
  <2>2. CASE m \notin queue[s]
    <3>1. Holders(s, m) = {}
      BY <2>2, <1>2, <1>5 DEF Holders
    <3> QED
      BY <2>2, <3>1, FS_EmptySet
  <2> QED
    BY <2>1, <2>2
<1>10. Blocked(s)'
  <2> SUFFICES ASSUME StatusOf(s) = "blocked"
               PROVE  \E old \in SUBSET queue'[s] : Examined(s, old)'
    BY DEF Blocked
  <2>1. PICK old \in SUBSET queue[s] : Examined(s, old)
    BY <1>1 DEF Sound, Blocked
  <2>2. \A m \in old : \A k \in queue'[s] \ old : m < k
    BY <2>1, <1>2 DEF Examined, Messages
  <2>3. \A m \in old : refs'[m] = refs[m] /\ (committed'[m] <=> committed[m])
    OBVIOUS
  <2>4. Examined(s, old)'
    BY <2>1, <2>2, <2>3, <1>3 DEF Examined
  <2> QED
    BY <2>4
<1>11. Valid(s)'
  BY <1>1, <1>4 DEF Sound, Valid
<1>12. Complete(s)'
  <2> SUFFICES ASSUME NEW i \in DOMAIN U, U[i].st # "first", U[i].pos # End,
                      NEW m \in queue'[s], m <= U[i].pos
               PROVE  m \in U[i].seen \/ committed'[m]
    BY DEF Complete
  <2>1. U[i].pos \in queue[s]
    BY <1>5
  <2>2. m \in queue[s]
    BY <2>1, <1>2 DEF Messages
  <2> QED
    BY <2>2, <1>1 DEF Sound, Complete
<1> QED
  BY <1>7, <1>8, <1>9, <1>10, <1>11, <1>12 DEF Sound

-----------------------------------------------------------------------------
(* What becomes of the receives of a thread.                               *)

LEMMA Pushed ==
    ASSUME MessageAssumption, MessageTypeOK, NEW t \in Receivers, NEW u, u \in Use, Push(t, u)
    PROVE  /\ uses' \in [Receivers -> Seq(Use)]
           /\ \A s \in Receivers \ {t} : uses'[s] = uses[s]
           /\ Len(uses'[t]) = Len(uses[t]) + 1
           /\ \A i \in DOMAIN uses[t] : uses'[t][i] = uses[t][i]
           /\ uses'[t][Len(uses[t]) + 1] = u
<1>1. uses \in [Receivers -> Seq(Use)] /\ uses[t] \in Seq(Use)
  BY DEF MessageTypeOK
<1>2. uses' = [uses EXCEPT ![t] = Append(uses[t], u)]
  BY DEF Push
<1>3. /\ Append(uses[t], u) \in Seq(Use)
      /\ Len(Append(uses[t], u)) = Len(uses[t]) + 1
      /\ \A i \in DOMAIN uses[t] : Append(uses[t], u)[i] = uses[t][i]
      /\ Append(uses[t], u)[Len(uses[t]) + 1] = u
  BY <1>1, AppendProperties
<1> QED
  BY <1>1, <1>2, <1>3

LEMMA Cut ==
    ASSUME MessageAssumption, MessageTypeOK, NEW t \in Receivers, NEW n \in 0 .. Len(uses[t]),
           uses' = [uses EXCEPT ![t] = SubSeq(@, 1, n)]
    PROVE  /\ uses' \in [Receivers -> Seq(Use)]
           /\ \A s \in Receivers \ {t} : uses'[s] = uses[s]
           /\ Len(uses'[t]) = n
           /\ DOMAIN uses'[t] = 1 .. n
           /\ \A i \in 1 .. n : uses'[t][i] = uses[t][i] /\ i \in DOMAIN uses[t]
<1>1. uses \in [Receivers -> Seq(Use)] /\ uses[t] \in Seq(Use) /\ DOMAIN uses[t] = 1 .. Len(uses[t])
      /\ Len(uses[t]) \in Nat /\ n \in Int /\ n \in Nat
  BY DEF MessageTypeOK
<1>2. uses' = [uses EXCEPT ![t] = SubSeq(uses[t], 1, n)]
  OBVIOUS
<1>3. \A i \in 1 .. n : uses[t][i] \in Use /\ i \in DOMAIN uses[t]
  BY <1>1, ElementOfSeq
<1>4. /\ SubSeq(uses[t], 1, n) \in Seq(Use)
      /\ Len(SubSeq(uses[t], 1, n)) = n
      /\ \A i \in 1 .. n : SubSeq(uses[t], 1, n)[i] = uses[t][i]
  BY <1>1, <1>3, SubSeqProperties
<1>5. uses' \in [Receivers -> Seq(Use)]
  BY <1>1, <1>2, <1>4
<1>6. uses'[t] = SubSeq(uses[t], 1, n) /\ \A s \in Receivers \ {t} : uses'[s] = uses[s]
  BY <1>1, <1>2
<1>7. DOMAIN uses'[t] = 1 .. n
  BY <1>4, <1>6
<1> QED
  BY <1>3, <1>4, <1>5, <1>6, <1>7

LEMMA TopSet ==
    ASSUME MessageAssumption, MessageTypeOK, NEW t \in Receivers, uses[t] # <<>>,
           NEW u, u \in Use, SetTop(t, u)
    PROVE  /\ uses' \in [Receivers -> Seq(Use)]
           /\ \A s \in Receivers \ {t} : uses'[s] = uses[s]
           /\ Len(uses'[t]) = Len(uses[t])
           /\ DOMAIN uses'[t] = DOMAIN uses[t]
           /\ Len(uses[t]) \in DOMAIN uses[t]
           /\ \A i \in DOMAIN uses[t] : i # Len(uses[t]) => uses'[t][i] = uses[t][i]
           /\ uses'[t][Len(uses[t])] = u
<1>1. uses \in [Receivers -> Seq(Use)] /\ uses[t] \in Seq(Use)
  BY DEF MessageTypeOK
<1>2. Len(uses[t]) \in 1 .. Len(uses[t]) /\ DOMAIN uses[t] = 1 .. Len(uses[t])
  BY <1>1, EmptySeq
<1> DEFINE n == Len(uses[t])
           q == [uses[t] EXCEPT ![n] = u]
<1>3. q \in Seq(Use) /\ Len(q) = n /\ \A i \in 1 .. n : q[i] = IF i = n THEN u ELSE uses[t][i]
  BY <1>1, <1>2, ExceptSeq
<1>4. uses' = [uses EXCEPT ![t] = q]
  BY DEF SetTop
<1>5. DOMAIN q = DOMAIN uses[t]
  OBVIOUS
<1> HIDE DEF q
<1>6. uses' \in [Receivers -> Seq(Use)]
  BY <1>1, <1>3, <1>4
<1>7. uses'[t] = q /\ \A s \in Receivers \ {t} : uses'[s] = uses[s]
  BY <1>1, <1>4
<1> QED
  BY <1>2, <1>3, <1>5, <1>6, <1>7

\* A thread whose newest receives are given up stays sound: either the call it
\* is in is not given up, or the thread runs on with what is left.
LEMMA CutSound ==
    ASSUME MessageAssumption, Receiving, NEW t \in Receivers, NEW n \in 0 .. Len(uses[t]),
           uses' = [uses EXCEPT ![t] = SubSeq(@, 1, n)],
           UNCHANGED <<sent, kind>>,
           \/ /\ Depth(t)' = Depth(t) /\ StatusOf(t)' = StatusOf(t) /\ Depth(t) <= n
              /\ UNCHANGED <<refs, committed, queue, size>>
           \/ /\ n < Depth(t) /\ Depth(t) = Len(uses[t])
              /\ Depth(t)' = n /\ StatusOf(t)' = "running",
           queue'[t] \subseteq queue[t],
           \A i \in 1 .. n : uses[t][i].st # "first" /\ uses[t][i].pos \in queue[t] =>
                                uses[t][i].pos \in queue'[t],
           \A m \in queue'[t] : committed[m] => committed'[m],
           \A m \in queue'[t] : ~committed'[m] => refs'[m] = refs[m],
           \A i \in 1 .. n : uses[t][i].mode = "recv" /\ uses[t][i].st = "match" =>
                                ~committed'[uses[t][i].pos]
    PROVE  Sound(t)'
<1> DEFINE U == uses[t]
<1>1. Sound(t) /\ MessageTypeOK
  BY DEF Receiving
<1>2. /\ U \in Seq(Use) /\ DOMAIN U = 1 .. Len(U) /\ Len(U) \in Nat
      /\ queue[t] \in SUBSET Messages /\ Depth(t) \in Nat /\ n \in Nat /\ n <= Len(U)
  BY <1>1, ThreadTypes
<1>3. /\ Len(uses'[t]) = n /\ DOMAIN uses'[t] = 1 .. n
      /\ \A i \in 1 .. n : uses'[t][i] = U[i] /\ i \in DOMAIN U
  BY <1>1, Cut
<1>4. \A m : Holders(t, m)' \in SUBSET Holders(t, m)
  BY <1>3 DEF Holders
<1>5. \A m : Cardinality(Holders(t, m)') <= Cardinality(Holders(t, m))
             /\ Cardinality(Holders(t, m)') \in Nat /\ Cardinality(Holders(t, m)) \in Nat
  <2> TAKE m
  <2>1. IsFiniteSet(Holders(t, m)) /\ Cardinality(Holders(t, m)) \in Nat
    BY <1>1, HoldersFinite
  <2>2. IsFiniteSet(Holders(t, m)') /\ Cardinality(Holders(t, m)') <= Cardinality(Holders(t, m))
    BY <2>1, <1>4, FS_Subset
  <2> QED
    BY <2>1, <2>2, FS_CardinalityType
<1>6. \A i \in 1 .. n : Stalled(t, i)' <=> Stalled(t, i)
  BY <1>2, StalledProperty DEF Stalled, StatusOf, Depth, Interrupted
<1>7. Stack(t)'
  <2>1. StatusOf(t)' \in {"blocked", "restart_msg", "restart_time"} =>
          Depth(t)' > 0 /\ uses'[t][Depth(t)'].st # "match"
    BY <1>1, <1>2, <1>3 DEF Sound, Stack
  <2>2. ASSUME NEW i \in 1 .. n, i # Depth(t)', i # n
        PROVE  U[i].st = "match" /\ U[i].mode = "peek"
    BY <2>2, <1>1, <1>2, <1>3 DEF Sound, Stack
  <2>3. \A i \in DOMAIN uses'[t] : i # Depth(t)' /\ i # Len(uses'[t]) =>
          uses'[t][i].st = "match" /\ uses'[t][i].mode = "peek"
    <3> TAKE i \in DOMAIN uses'[t]
    <3>1. i \in 1 .. n /\ uses'[t][i] = U[i] /\ Len(uses'[t]) = n
      BY <1>3
    <3> QED
      BY <2>2, <3>1
  <2> QED
    BY <2>1, <2>3 DEF Stack
<1>8. Knows(t)'
  <2> SUFFICES ASSUME NEW i \in 1 .. n
               PROVE  LET u == uses'[t][i] IN
                      /\ \A m \in u.seen : m <= sent
                      /\ u.st = "match" => kind[u.pos] \in u.pattern
                      /\ u.mode = "recv" =>
                          \A m \in u.seen : kind[m] \in u.pattern => u.st = "match" /\ m = u.pos
                      /\ u.mode = "recv" /\ u.st = "match" => ~committed'[u.pos]
                      /\ Stalled(t, i)' => u.pos = End
    BY <1>3 DEF Knows
  <2>1. uses'[t][i] = U[i] /\ i \in DOMAIN U
    BY <1>3
  <2> QED
    BY <2>1, <1>1, <1>6 DEF Sound, Knows
<1>9. Held(t)'
  <2> SUFFICES ASSUME NEW m \in queue'[t], ~committed'[m]
               PROVE  Cardinality(Holders(t, m)') <= refs'[m]
    BY DEF Held
  <2>1. m \in queue[t] /\ ~committed[m] /\ refs'[m] = refs[m] /\ refs[m] \in Int
    BY <1>1, <1>2 DEF MessageTypeOK
  <2>2. Cardinality(Holders(t, m)) <= refs[m]
    BY <2>1, <1>1 DEF Sound, Held
  <2> QED
    BY <2>1, <2>2, <1>5
<1>10. Blocked(t)'
  <2> SUFFICES ASSUME StatusOf(t)' = "blocked"
               PROVE  \E old \in SUBSET queue'[t] : Examined(t, old)'
    BY DEF Blocked
  <2>1. /\ Depth(t)' = Depth(t) /\ StatusOf(t) = "blocked" /\ Depth(t) <= n
        /\ UNCHANGED <<refs, committed, queue, size>>
    OBVIOUS
  <2>2. PICK old \in SUBSET queue[t] : Examined(t, old)
    BY <2>1, <1>1 DEF Sound, Blocked
  <2>3. Depth(t) \in 1 .. n
    BY <2>1, <1>1, <1>2 DEF Sound, Stack
  <2>4. uses'[t][Depth(t)'] = uses[t][Depth(t)]
    BY <2>1, <2>3, <1>3
  <2>5. \A m \in old : refs[m] \in Int
    BY <1>1, <1>2 DEF MessageTypeOK
  <2> DEFINE u == uses[t][Depth(t)]
  <2>6. ASSUME u.st = "next", NEW m \in old, ~committed[m], \A k \in old : k <= m
        PROVE  Cardinality(Holders(t, m)') < refs[m]
    <3>1. Cardinality(Holders(t, m)) < refs[m]
      BY <2>2, <2>6 DEF Examined
    <3> QED
      BY <3>1, <2>5, <1>5
  <2>7. Examined(t, old)'
    BY <2>1, <2>2, <2>4, <2>6 DEF Examined
  <2> QED
    BY <2>1, <2>7
<1>11. Valid(t)'
  BY <1>1, <1>3, <1>6 DEF Sound, Valid
<1>12. Complete(t)'
  BY <1>1, <1>3 DEF Sound, Complete
<1> QED
  BY <1>7, <1>8, <1>9, <1>10, <1>11, <1>12 DEF Sound

-----------------------------------------------------------------------------
(* The actions, one lemma each.                                            *)

\* A thread that executes a receive is in the innermost one, and is not blocked.
LEMMA ExecutingProperty ==
    ASSUME MessageAssumption, Receiving, NEW t \in Receivers, NEW st, Executes(t), HasUse(t, st)
    PROVE  /\ uses[t] # <<>> /\ Len(uses[t]) \in DOMAIN uses[t] /\ Top(t) \in Use
           /\ Top(t).st = st
           /\ Interrupted(t) =>
                /\ Depth(t) < Len(uses[t]) /\ mstatus[t] = "running"
                /\ Top(t).timeout = "poll" /\ Top(t).mode = "peek"
           /\ ~Interrupted(t) => goal = NoGoal /\ Depth(t) = Len(uses[t])
                                 /\ StatusOf(t) = mstatus[t]
           /\ mstatus[t] \in {"running", "restart_msg", "restart_time"}
           /\ st = "match" => mstatus[t] = "running"
<1>1. MessageTypeOK /\ GoalInv /\ Sound(t)
  BY DEF Receiving
<1>2. /\ uses[t] \in Seq(Use) /\ DOMAIN uses[t] = 1 .. Len(uses[t]) /\ Len(uses[t]) \in Nat
      /\ \A i \in DOMAIN uses[t] : uses[t][i] \in Use
  BY <1>1, ThreadTypes
<1>3. Len(uses[t]) > Base(t) /\ Base(t) \in Nat /\ Top(t).st = st
  BY <1>1 DEF HasUse, Base, MessageTypeOK
<1>4. uses[t] # <<>> /\ Len(uses[t]) \in DOMAIN uses[t] /\ Top(t) \in Use
  BY <1>2, <1>3 DEF Top
<1>5. ASSUME Interrupted(t)
      PROVE  /\ Depth(t) < Len(uses[t]) /\ mstatus[t] = "running"
             /\ Top(t).timeout = "poll" /\ Top(t).mode = "peek"
  BY <1>1, <1>3, <1>4, <1>5 DEF Interrupted, Depth, Base, GoalInv, Top
<1>6. ASSUME ~Interrupted(t)
      PROVE  goal = NoGoal /\ Depth(t) = Len(uses[t]) /\ StatusOf(t) = mstatus[t]
  BY <1>6 DEF Interrupted, Depth, StatusOf, Executes
<1>7. mstatus[t] \in {"running", "restart_msg", "restart_time"}
  BY <1>1 DEF MessageTypeOK, Executes, Statuses
<1>8. st = "match" => mstatus[t] = "running"
  BY <1>1, <1>3, <1>5, <1>6, <1>7 DEF Sound, Stack, Top
<1> QED
  BY <1>3, <1>4, <1>5, <1>6, <1>7, <1>8

LEMMA SendReceiving ==
    ASSUME MessageAssumption, Receiving, NEW t \in Receivers, NEW k \in MessageKinds, Send(t, k)
    PROVE  Receiving'
<1>1. MessageTypeOK /\ QueuesInv /\ GoalInv
  BY DEF Receiving
<1>2. /\ sent \in Nat /\ sent' = sent + 1 /\ sent' \in Nat /\ sent' <= MaxMessages
      /\ MaxMessages \in Nat /\ sent + 1 \in Messages
      /\ queue \in [Receivers -> SUBSET (1 .. sent)]
  BY <1>1, MessageAssumption DEF Send, MessageTypeOK, Messages
<1>3. \A s \in Receivers : /\ queue'[s] = IF s = t THEN queue[s] \union {sent + 1} ELSE queue[s]
                           /\ queue[s] \in SUBSET (1 .. sent) /\ queue[s] \subseteq queue'[s]
  BY <1>2 DEF Send
<1>4. MessageTypeOK'
  <2>1. sent' \in 0 .. MaxMessages
    BY <1>2
  <2>2. kind' \in [Messages -> MessageKinds \union {NoKind}]
    BY <1>1 DEF Send, MessageTypeOK
  <2>3. queue' \in [Receivers -> SUBSET (1 .. sent')]
    BY <1>2, <1>3 DEF Send
  <2> QED
    BY <1>1, <2>1, <2>2, <2>3 DEF Send, MessageTypeOK
<1>5. QueuesInv'
  BY <1>1, <1>2, <1>3 DEF QueuesInv, Send, Messages
<1>6. GoalInv'
  BY <1>1 DEF GoalInv, Send
<1>7. ASSUME NEW s \in Receivers
      PROVE  Sound(s)'
  <2>1. \A m \in queue'[s] \ queue[s] : m \in Messages /\ m > sent /\ refs'[m] = 0
    BY <1>1, <1>2, <1>3 DEF QueuesInv, Send
  <2>2. \A m \in Messages : m <= sent => kind'[m] = kind[m]
    BY <1>1, <1>2 DEF Send, MessageTypeOK
  <2>3. /\ uses'[s] = uses[s] /\ size'[s] = size[s]
        /\ Depth(s)' = Depth(s) /\ StatusOf(s)' = StatusOf(s)
        /\ \A m \in queue[s] : refs'[m] = refs[m] /\ (committed'[m] <=> committed[m])
    BY DEF Send, Depth, StatusOf, Interrupted
  <2> QED
    <3>1. sent <= sent'
      BY <1>2
    <3>2. queue[s] \subseteq queue'[s]
      BY <1>3
    <3> QED
      BY <3>1, <3>2, <1>2, <2>1, <2>2, <2>3, OtherSound
<1> QED
  BY <1>4, <1>5, <1>6, <1>7 DEF Receiving

LEMMA BroadcastReceiving ==
    ASSUME MessageAssumption, Receiving, NEW k \in MessageKinds, Broadcast(k)
    PROVE  Receiving'
<1> DEFINE live == {t \in Receivers : mstatus[t] # "dead"}
           c == Cardinality(live)
<1>1. MessageTypeOK /\ QueuesInv /\ GoalInv
  BY DEF Receiving
<1>2. c \in Nat
  <2>1. IsFiniteSet(live)
    <3>1. IsFiniteSet(Receivers) /\ live \in SUBSET Receivers
      BY DEF MessageAssumption
    <3> HIDE DEF live
    <3> QED
      BY <3>1, FS_Subset
  <2> HIDE DEF live
  <2> QED
    BY <2>1, FS_CardinalityType
<1>3. /\ sent' = sent + c
      /\ sent + c <= MaxMessages
      /\ kind' = [m \in Messages |-> IF m \in sent + 1 .. sent' THEN k ELSE kind[m]]
      /\ UNCHANGED <<refs, committed, uses, mstatus, size, goal, taken>>
  BY DEF Broadcast
<1>4. PICK order \in [live -> 1 .. c] :
        /\ \A s, t \in live : s # t => order[s] # order[t]
        /\ queue' = [t \in Receivers |-> IF t \in live
                                         THEN queue[t] \union {sent + order[t]} ELSE queue[t]]
  BY DEF Broadcast
<1>5. \A t \in Receivers : t \in live <=> mstatus[t] # "dead"
  OBVIOUS
<1> HIDE DEF live, c
<1>6. /\ sent \in Nat /\ sent' \in Nat /\ sent <= sent' /\ sent' <= MaxMessages
      /\ MaxMessages \in Nat
      /\ \A t \in Receivers : queue[t] \in SUBSET (1 .. sent)
  BY <1>1, <1>2, <1>3, MessageAssumption DEF MessageTypeOK
<1>7. \A t \in live : order[t] \in 1 .. c /\ sent + order[t] > sent /\ sent + order[t] <= sent'
                      /\ sent + order[t] \in Messages
  BY <1>2, <1>3, <1>4, <1>6 DEF Messages
<1>8. \A t \in Receivers : queue'[t] = IF t \in live THEN queue[t] \union {sent + order[t]}
                                       ELSE queue[t]
  BY <1>4
<1>13. \A t \in Receivers : \A m : m \in queue'[t] <=>
          m \in queue[t] \/ (t \in live /\ m = sent + order[t])
  BY <1>8
<1>9. MessageTypeOK'
  <2>1. sent' \in 0 .. MaxMessages
    BY <1>6
  <2>2. kind' \in [Messages -> MessageKinds \union {NoKind}]
    BY <1>1, <1>3 DEF MessageTypeOK
  <2>3. \A t \in Receivers : queue'[t] \in SUBSET (1 .. sent')
    <3> TAKE t \in Receivers
    <3>1. queue[t] \in SUBSET (1 .. sent')
      BY <1>6
    <3>2. t \in live => sent + order[t] \in 1 .. sent'
      BY <1>6, <1>7
    <3> QED
      BY <3>1, <3>2, <1>8
  <2>4. queue' \in [Receivers -> SUBSET (1 .. sent')]
    BY <2>3, <1>4
  <2> QED
    BY <1>1, <1>3, <2>1, <2>2, <2>4 DEF MessageTypeOK
<1>10. QueuesInv'
  <2>1. ASSUME NEW s \in Receivers, NEW t \in Receivers, s # t
        PROVE  queue'[s] \intersect queue'[t] = {}
    <3>1. queue[s] \intersect queue[t] = {}
      BY <1>1, <2>1 DEF QueuesInv
    <3>2. s \in live /\ t \in live => order[s] # order[t]
      BY <1>4, <2>1
    <3>3. s \in live /\ t \in live => sent + order[s] # sent + order[t]
      BY <3>2, <1>6, <1>7, <1>2
    <3>4. s \in live => sent + order[s] \notin queue[t]
      BY <1>6, <1>7
    <3>5. t \in live => sent + order[t] \notin queue[s]
      BY <1>6, <1>7
    <3> QED
      BY <3>1, <3>3, <3>4, <3>5, <1>13
  <2>2. ASSUME NEW t \in Receivers, mstatus'[t] = "dead"
        PROVE  queue'[t] = {} /\ uses'[t] = <<>>
    BY <2>2, <1>1, <1>3, <1>5, <1>8 DEF QueuesInv
  <2>3. \A m \in Messages : m > sent' => ~committed'[m] /\ refs'[m] = 0
    BY <1>1, <1>3, <1>6 DEF QueuesInv, Messages
  <2>4. \A m \in Messages : taken'[m] = IF committed'[m] THEN 1 ELSE 0
    BY <1>1, <1>3 DEF QueuesInv
  <2> QED
    BY <2>1, <2>2, <2>3, <2>4 DEF QueuesInv
<1>11. GoalInv'
  BY <1>1, <1>3 DEF GoalInv
<1>12. ASSUME NEW s \in Receivers
       PROVE  Sound(s)'
  <2>1. \A m \in queue'[s] \ queue[s] : m \in Messages /\ m > sent
    BY <1>7, <1>13
  <2>2. \A m \in queue'[s] \ queue[s] : refs'[m] = 0
    BY <2>1, <1>1, <1>3 DEF QueuesInv
  <2>3. \A m \in Messages : m <= sent => kind'[m] = kind[m]
    BY <1>3, <1>6 DEF Messages
  <2>4. queue[s] \subseteq queue'[s]
    BY <1>8
  <2>5. /\ uses'[s] = uses[s] /\ size'[s] = size[s]
        /\ Depth(s)' = Depth(s) /\ StatusOf(s)' = StatusOf(s)
        /\ \A m \in queue[s] : refs'[m] = refs[m] /\ (committed'[m] <=> committed[m])
    BY <1>3 DEF Depth, StatusOf, Interrupted
  <2> QED
    BY <1>6, <2>1, <2>2, <2>3, <2>4, <2>5, OtherSound
<1> QED
  BY <1>9, <1>10, <1>11, <1>12 DEF Receiving

\* An action of one thread that sends nothing keeps the rest of the invariant.
LEMMA OthersSound ==
    ASSUME MessageAssumption, Receiving, NEW t \in Receivers,
           UNCHANGED <<sent, kind>>,
           \A s \in Receivers \ {t} :
               /\ uses'[s] = uses[s] /\ queue'[s] = queue[s] /\ size'[s] = size[s]
               /\ StatusOf(s)' = StatusOf(s) /\ Depth(s)' = Depth(s),
           \A m \in Messages \ queue[t] : refs'[m] = refs[m] /\ (committed'[m] <=> committed[m])
    PROVE  \A s \in Receivers \ {t} : Sound(s)'
<1> TAKE s \in Receivers \ {t}
<1>1. sent' \in Nat /\ sent <= sent' /\ queue[s] \subseteq queue'[s] /\ queue'[s] \ queue[s] = {}
  BY DEF Receiving, MessageTypeOK
<1>2. queue[s] \in SUBSET Messages /\ queue[s] \intersect queue[t] = {}
  BY ThreadTypes DEF Receiving, QueuesInv
<1>3. \A m \in queue[s] : refs'[m] = refs[m] /\ (committed'[m] <=> committed[m])
  BY <1>2
<1> QED
  BY <1>1, <1>3, OtherSound

\* Where another thread than the console is, or the console without a change of
\* the timer goals, follows from its status and its receives.
LEMMA SameGoal ==
    ASSUME UNCHANGED goal, NEW s
    PROVE  /\ (Interrupted(s)' <=> Interrupted(s))
           /\ mstatus'[s] = mstatus[s] => StatusOf(s)' = StatusOf(s)
           /\ uses'[s] = uses[s] => Depth(s)' = Depth(s)
           /\ Interrupted(s) => StatusOf(s)' = StatusOf(s) /\ Depth(s)' = Depth(s)
           /\ ~Interrupted(s) => StatusOf(s)' = mstatus'[s] /\ Depth(s)' = Len(uses'[s])
                                 /\ StatusOf(s) = mstatus[s] /\ Depth(s) = Len(uses[s])
BY DEF Interrupted, StatusOf, Depth

LEMMA MakeIteratorReceiving ==
    ASSUME MessageAssumption, GoalsOnlyPeek, Receiving, NEW t \in Receivers, NEW mode \in AllModes,
           NEW pattern \in Patterns, NEW timeout \in AllTimeouts,
           MakeIterator(t, mode, pattern, timeout)
    PROVE  Receiving'
<1> DEFINE U == uses[t]
           new == [mode |-> mode, pattern |-> pattern, timeout |-> timeout,
                   st |-> "first", pos |-> End, seen |-> {}]
<1>1. MessageTypeOK /\ QueuesInv /\ GoalInv /\ Sound(t)
  BY DEF Receiving
<1>2. /\ U \in Seq(Use) /\ Len(U) \in Nat /\ DOMAIN U = 1 .. Len(U)
      /\ MaxMessages \in Nat /\ Depth(t) \in Nat /\ queue[t] \in SUBSET Messages
  BY <1>1, ThreadTypes
<1>3. new \in Use
  BY <1>2, MessageAssumption DEF Use, End
<1>4. /\ Push(t, new)
      /\ UNCHANGED <<sent, kind, refs, committed, queue, mstatus, size, goal, taken>>
  BY DEF MakeIterator
<1> HIDE DEF new
<1>5. /\ uses' \in [Receivers -> Seq(Use)]
      /\ \A s \in Receivers \ {t} : uses'[s] = uses[s]
      /\ Len(uses'[t]) = Len(U) + 1
      /\ \A i \in DOMAIN U : uses'[t][i] = U[i]
      /\ uses'[t][Len(U) + 1] = new
  BY <1>1, <1>3, <1>4, Pushed
<1>6. DOMAIN uses'[t] = 1 .. Len(U) + 1
  BY <1>5
<1>7. new.st = "first" /\ new.mode = mode /\ new.timeout = timeout /\ new.seen = {}
      /\ new.pos = End
  BY DEF new
<1>8. \A i \in 1 .. Len(U) + 1 : i \in DOMAIN U \/ i = Len(U) + 1
  BY <1>2
<1>9. /\ Executes(t) /\ (Len(U) = Base(t) \/ (HasUse(t, "match") /\ Top(t).mode = "peek"))
      /\ IF goal = NoGoal THEN timeout \in Timeouts ELSE mode \in GoalModes /\ timeout = "poll"
  BY DEF MakeIterator
<1>10. MessageTypeOK'
  BY <1>1, <1>4, <1>5 DEF MessageTypeOK
<1>11. QueuesInv'
  BY <1>1, <1>4, <1>5, <1>9 DEF QueuesInv, Executes
<1>12. goal # NoGoal => timeout = "poll" /\ mode = "peek" /\ t = Console
  BY <1>9 DEF GoalsOnlyPeek, AllModes, Executes
<1>13. GoalInv'
  <2> SUFFICES ASSUME goal # NoGoal PROVE GoalInv'
    BY <1>4 DEF GoalInv
  <2>1. t = Console /\ goal.depth <= Len(U) /\ goal.depth \in Nat
    BY <1>12, <1>1 DEF GoalInv, MessageTypeOK
  <2>2. goal.depth <= Len(uses'[Console])
    BY <2>1, <1>2, <1>5
  <2>3. \A i \in DOMAIN uses'[Console] : i > goal.depth =>
            uses'[Console][i].timeout = "poll" /\ uses'[Console][i].mode = "peek"
    BY <2>1, <1>1, <1>5, <1>6, <1>7, <1>8, <1>12 DEF GoalInv
  <2> QED
    BY <2>2, <2>3, <1>1, <1>4 DEF GoalInv
<1>14. /\ ~Interrupted(t) => StatusOf(t) \notin {"blocked", "restart_msg", "restart_time"}
       /\ Len(U) # 0 /\ Len(U) # Depth(t)' => U[Len(U)].st = "match" /\ U[Len(U)].mode = "peek"
       /\ StatusOf(t)' = StatusOf(t)
       /\ Depth(t)' = IF Interrupted(t) THEN Depth(t) ELSE Len(U) + 1
       /\ ~Interrupted(t) => Depth(t) = Len(U)
  <2>1. /\ StatusOf(t)' = StatusOf(t)
        /\ Depth(t)' = IF Interrupted(t) THEN Depth(t) ELSE Len(U) + 1
        /\ ~Interrupted(t) => Depth(t) = Len(U)
    BY <1>4, <1>5, SameGoal
  <2>2. CASE Len(U) = Base(t)
    <3>1. CASE Interrupted(t)
      BY <3>1, <2>1, <2>2 DEF Interrupted, Base, Depth
    <3>2. CASE ~Interrupted(t)
      <4>1. Base(t) = 0
        BY <3>2, <1>9 DEF Interrupted, Base, Executes, NoGoal
      <4> QED
        BY <4>1, <3>2, <2>1, <2>2, <1>1 DEF Sound, Stack
    <3> QED
      BY <3>1, <3>2
  <2>3. CASE HasUse(t, "match") /\ Top(t).mode = "peek"
    <3>1. Top(t).st = "match" /\ Top(t) = U[Len(U)]
      BY <2>3 DEF HasUse, Top
    <3> QED
      BY <3>1, <2>1, <2>3, <1>1 DEF Sound, Stack
  <2> QED
    BY <2>2, <2>3, <1>9
<1>15. \A m : Holders(t, m)' = Holders(t, m)
  <2> TAKE m
  <2>1. \A i : i \in DOMAIN uses'[t] /\ uses'[t][i].st # "first" <=>
               i \in DOMAIN U /\ U[i].st # "first"
    BY <1>2, <1>5, <1>6, <1>7, <1>8
  <2>2. Holders(t, m)' = {i \in DOMAIN uses'[t] : uses'[t][i].st # "first" /\ uses'[t][i].pos = m}
    BY DEF Holders
  <2> QED
    BY <2>1, <2>2, <1>5 DEF Holders
<1>16. \A i : Stalled(t, i)' <=> Interrupted(t) /\ Stalled(t, i)
  BY <1>14 DEF Stalled, Depth, StatusOf, Interrupted
<1>17. Stack(t)'
  <2>1. StatusOf(t)' \in {"blocked", "restart_msg", "restart_time"} =>
        Depth(t)' > 0 /\ uses'[t][Depth(t)'].st # "match"
    <3> SUFFICES ASSUME StatusOf(t) \in {"blocked", "restart_msg", "restart_time"}
                 PROVE  Depth(t)' > 0 /\ uses'[t][Depth(t)'].st # "match"
      BY <1>14
    <3>1. Interrupted(t) /\ Depth(t)' = Depth(t) /\ Depth(t) > 0 /\ U[Depth(t)].st # "match"
      BY <1>14, <1>1 DEF Sound, Stack
    <3>2. Depth(t) \in DOMAIN U
      BY <3>1, <1>1, <1>2 DEF GoalInv, Interrupted, Depth
    <3> QED
      BY <3>1, <3>2, <1>5
  <2>2. ASSUME NEW i \in DOMAIN uses'[t], i # Depth(t)', i # Len(uses'[t])
        PROVE  uses'[t][i].st = "match" /\ uses'[t][i].mode = "peek"
    <3>1. i \in DOMAIN U /\ i <= Len(U) /\ i >= 1
      BY <2>2, <1>2, <1>5, <1>6, <1>8
    <3>2. CASE i = Len(U)
      BY <3>1, <3>2, <2>2, <1>2, <1>5, <1>14
    <3>3. CASE i # Len(U)
      BY <3>1, <3>3, <2>2, <1>1, <1>5, <1>14 DEF Sound, Stack
    <3> QED
      BY <3>2, <3>3
  <2> QED
    BY <2>1, <2>2 DEF Stack
<1>18. Knows(t)'
  BY <1>1, <1>4, <1>5, <1>6, <1>7, <1>8, <1>16 DEF Sound, Knows
<1>19. Held(t)'
  BY <1>1, <1>4, <1>15 DEF Sound, Held
<1>20. Blocked(t)'
  <2> SUFFICES ASSUME StatusOf(t)' = "blocked"
               PROVE  \E old \in SUBSET queue'[t] : Examined(t, old)'
    BY DEF Blocked
  <2>1. Interrupted(t) /\ StatusOf(t) = "blocked" /\ Depth(t)' = Depth(t)
    BY <1>14
  <2>2. PICK old \in SUBSET queue[t] : Examined(t, old)
    BY <2>1, <1>1 DEF Sound, Blocked
  <2>3. Depth(t) \in DOMAIN U
    BY <2>1, <1>1, <1>2 DEF Sound, Stack, GoalInv, Interrupted, Depth
  <2>4. uses'[t][Depth(t)'] = U[Depth(t)]
    BY <2>1, <2>3, <1>5
  <2>5. Examined(t, old)'
    BY <2>2, <2>4, <1>4, <1>15 DEF Examined
  <2> QED
    BY <2>5, <1>4
<1>21. Valid(t)'
  <2> SUFFICES ASSUME NEW i \in DOMAIN uses'[t], uses'[t][i].st # "first", ~Stalled(t, i)'
               PROVE  uses'[t][i].pos \in queue[t]
    BY <1>4 DEF Valid
  <2>1. i \in DOMAIN U /\ uses'[t][i] = U[i]
    BY <1>5, <1>6, <1>7, <1>8
  <2>2. ~Stalled(t, i)
    BY <1>14, <1>16, StalledProperty
  <2> QED
    BY <2>1, <2>2, <1>1 DEF Sound, Valid
<1>22. Complete(t)'
  BY <1>1, <1>4, <1>5, <1>6, <1>7, <1>8 DEF Sound, Complete
<1>23. \A s \in Receivers \ {t} : Sound(s)'
  BY <1>4, <1>5, SameGoal, OthersSound
<1> QED
  BY <1>10, <1>11, <1>13, <1>17, <1>18, <1>19, <1>20, <1>21, <1>22, <1>23 DEF Receiving, Sound

\* The action leaves the timer goal and its receives as they are.
LEMMA SameGoalInv ==
    ASSUME MessageAssumption, Receiving, UNCHANGED goal, mstatus'[Console] = mstatus[Console],
           uses'[Console] = uses[Console]
    PROVE  GoalInv'
BY DEF Receiving, GoalInv

LEMMA FailBackReceiving ==
    ASSUME MessageAssumption, Receiving, NEW t \in Receivers, FailBack(t)
    PROVE  Receiving'
<1> DEFINE U == uses[t]
           n == Len(U)
           new == [Top(t) EXCEPT !.st = "next"]
<1>1. MessageTypeOK /\ QueuesInv /\ GoalInv /\ Sound(t)
  BY DEF Receiving
<1>2. /\ Executes(t) /\ HasUse(t, "match") /\ Top(t).mode = "peek" /\ SetTop(t, new)
      /\ UNCHANGED <<sent, kind, refs, committed, queue, mstatus, size, goal, taken>>
  BY DEF FailBack
<1>3. /\ U # <<>> /\ n \in DOMAIN U /\ Top(t) \in Use /\ Top(t).st = "match"
      /\ (Interrupted(t) => Depth(t) < n) /\ mstatus[t] = "running"
      /\ (~Interrupted(t) => Depth(t) = n /\ StatusOf(t) = mstatus[t])
  BY <1>2, ExecutingProperty
<1>4. /\ new \in Use /\ new.st = "next" /\ new.mode = U[n].mode /\ new.pattern = U[n].pattern
      /\ new.timeout = U[n].timeout /\ new.pos = U[n].pos /\ new.seen = U[n].seen
      /\ U[n].st = "match" /\ U[n].mode = "peek"
  BY <1>2, <1>3 DEF Use, Top
<1> HIDE DEF new
<1>5. /\ uses' \in [Receivers -> Seq(Use)] /\ \A s \in Receivers \ {t} : uses'[s] = uses[s]
      /\ Len(uses'[t]) = n /\ DOMAIN uses'[t] = DOMAIN U
      /\ \A i \in DOMAIN U : i # n => uses'[t][i] = U[i]
      /\ uses'[t][n] = new
  BY <1>1, <1>2, <1>3, <1>4, TopSet
<1>6. StatusOf(t)' = StatusOf(t) /\ Depth(t)' = Depth(t) /\ n \in Nat /\ Depth(t) \in Nat
      /\ DOMAIN U = 1 .. n
  BY <1>1, <1>2, <1>5, ThreadTypes DEF StatusOf, Depth, Interrupted
<1>7. \A i : Stalled(t, i)' <=> Stalled(t, i)
  BY <1>2, <1>5 DEF Stalled
<1>20. \A i \in DOMAIN U : /\ uses'[t][i].pos = U[i].pos
                            /\ (uses'[t][i].st # "first" <=> U[i].st # "first")
                            /\ uses'[t][i].timeout = U[i].timeout /\ uses'[t][i].mode = U[i].mode
  BY <1>4, <1>5
<1>8. \A m : Holders(t, m)' = Holders(t, m)
  <2> TAKE m
  <2>1. Holders(t, m)' = {i \in DOMAIN U : uses'[t][i].st # "first" /\ uses'[t][i].pos = m}
    BY <1>5 DEF Holders
  <2> QED
    BY <2>1, <1>20 DEF Holders
<1>9. MessageTypeOK' /\ QueuesInv'
  BY <1>1, <1>2, <1>3, <1>5 DEF MessageTypeOK, QueuesInv
<1>10. GoalInv'
  <2>1. CASE t = Console
    BY <2>1, <1>1, <1>2, <1>5, <1>20 DEF GoalInv
  <2>2. CASE t # Console
    BY <2>2, <1>2, <1>5, SameGoalInv DEF MessageAssumption
  <2> QED
    BY <2>1, <2>2
<1>11. StatusOf(t) \in {"blocked", "restart_msg", "restart_time"} => Depth(t) \in DOMAIN U /\ Depth(t) # n
  BY <1>1, <1>3, <1>4, <1>6 DEF Sound, Stack
<1>12. Stack(t)'
  BY <1>1, <1>5, <1>6, <1>11 DEF Sound, Stack
<1>13. Knows(t)'
  BY <1>1, <1>2, <1>4, <1>5, <1>7 DEF Sound, Knows
<1>14. Held(t)'
  BY <1>1, <1>2, <1>8 DEF Sound, Held
<1>15. Blocked(t)'
  <2> SUFFICES ASSUME StatusOf(t)' = "blocked"
               PROVE  \E old \in SUBSET queue'[t] : Examined(t, old)'
    BY DEF Blocked
  <2>1. PICK old \in SUBSET queue[t] : Examined(t, old)
    BY <1>1, <1>6 DEF Sound, Blocked
  <2>2. uses'[t][Depth(t)'] = U[Depth(t)]
    BY <1>5, <1>6, <1>11
  <2>3. Examined(t, old)'
    BY <2>1, <2>2, <1>2, <1>8 DEF Examined
  <2> QED
    BY <2>3, <1>2
<1>16. ~Stalled(t, n)
  BY <1>11, <1>3, StalledProperty
<1>17. Valid(t)'
  <2> SUFFICES ASSUME NEW i \in DOMAIN U, uses'[t][i].st # "first", ~Stalled(t, i)
               PROVE  uses'[t][i].pos \in queue[t]
    BY <1>2, <1>5, <1>7 DEF Valid
  <2>1. U[i].st # "first" /\ uses'[t][i].pos = U[i].pos
    BY <1>4, <1>5
  <2> QED
    BY <2>1, <1>1 DEF Sound, Valid
<1>18. Complete(t)'
  BY <1>1, <1>2, <1>4, <1>5 DEF Sound, Complete
<1>19. \A s \in Receivers \ {t} : Sound(s)'
  BY <1>2, <1>5, SameGoal, OthersSound
<1> QED
  BY <1>9, <1>10, <1>12, <1>13, <1>14, <1>15, <1>17, <1>18, <1>19 DEF Receiving, Sound

LEMMA CutPeekReceiving ==
    ASSUME MessageAssumption, Receiving, NEW t \in Receivers, CutPeek(t)
    PROVE  Receiving'
<1> DEFINE n == Len(uses[t]) - 1
<1>1. MessageTypeOK /\ QueuesInv /\ GoalInv /\ Sound(t)
  BY DEF Receiving
<1>2. /\ Executes(t) /\ HasUse(t, "match") /\ Pop(t)
      /\ UNCHANGED <<sent, kind, refs, committed, queue, mstatus, size, goal, taken>>
  BY DEF CutPeek
<1>3. /\ uses[t] # <<>> /\ Len(uses[t]) \in DOMAIN uses[t]
      /\ (Interrupted(t) => Depth(t) < Len(uses[t])) /\ mstatus[t] = "running"
      /\ (~Interrupted(t) => Depth(t) = Len(uses[t]) /\ StatusOf(t) = mstatus[t])
  BY <1>2, ExecutingProperty
<1>4. n \in 0 .. Len(uses[t]) /\ Len(uses[t]) \in Nat /\ Depth(t) \in Nat
  BY <1>1, <1>3, ThreadTypes
<1>5. uses' = [uses EXCEPT ![t] = SubSeq(@, 1, n)]
  BY <1>2 DEF Pop
<1>6. /\ uses' \in [Receivers -> Seq(Use)] /\ \A s \in Receivers \ {t} : uses'[s] = uses[s]
      /\ Len(uses'[t]) = n /\ DOMAIN uses'[t] = 1 .. n
      /\ \A i \in 1 .. n : uses'[t][i] = uses[t][i] /\ i \in DOMAIN uses[t]
  BY <1>1, <1>4, <1>5, Cut
<1>7. MessageTypeOK'
  BY <1>1, <1>2, <1>6 DEF MessageTypeOK
<1>8. QueuesInv'
  BY <1>1, <1>2, <1>3, <1>6 DEF QueuesInv
<1>9. GoalInv'
  BY <1>1, <1>2, <1>3, <1>4, <1>6 DEF GoalInv, Interrupted, Depth
<1>10. \/ Depth(t)' = Depth(t) /\ StatusOf(t)' = StatusOf(t) /\ Depth(t) <= n
       \/ n < Depth(t) /\ Depth(t) = Len(uses[t]) /\ Depth(t)' = n /\ StatusOf(t)' = "running"
  BY <1>2, <1>3, <1>4, <1>6, SameGoal
<1>11. \A i \in 1 .. n : uses[t][i].mode = "recv" /\ uses[t][i].st = "match" =>
                            ~committed'[uses[t][i].pos]
  BY <1>1, <1>2, <1>6 DEF Sound, Knows
<1>12. Sound(t)'
  BY <1>2, <1>4, <1>5, <1>10, <1>11, CutSound
<1>13. \A s \in Receivers \ {t} : Sound(s)'
  BY <1>2, <1>6, SameGoal, OthersSound
<1> QED
  BY <1>7, <1>8, <1>9, <1>12, <1>13 DEF Receiving

LEMMA ThrowReceiving ==
    ASSUME MessageAssumption, Receiving, NEW t \in Receivers, Throw(t)
    PROVE  Receiving'
<1>1. MessageTypeOK /\ QueuesInv /\ GoalInv /\ Sound(t)
  BY DEF Receiving
<1>2. /\ goal = NoGoal /\ mstatus[t] # "dead" /\ uses[t] # <<>>
      /\ mstatus' = [mstatus EXCEPT ![t] = "running"]
      /\ size' = [size EXCEPT ![t] = 0]
      /\ UNCHANGED <<sent, kind, refs, committed, queue, goal, taken>>
  BY DEF Throw
<1>3. PICK n \in 0 .. Len(uses[t]) - 1 : uses' = [uses EXCEPT ![t] = SubSeq(@, 1, n)]
  BY DEF Throw
<1>4. n \in 0 .. Len(uses[t]) /\ n < Len(uses[t]) /\ Len(uses[t]) \in Nat
  BY <1>1, ThreadTypes
<1>5. /\ uses' \in [Receivers -> Seq(Use)] /\ \A s \in Receivers \ {t} : uses'[s] = uses[s]
      /\ Len(uses'[t]) = n /\ DOMAIN uses'[t] = 1 .. n
      /\ \A i \in 1 .. n : uses'[t][i] = uses[t][i] /\ i \in DOMAIN uses[t]
  BY <1>1, <1>3, <1>4, Cut
<1>6. /\ mstatus'[t] = "running" /\ \A s \in Receivers \ {t} : mstatus'[s] = mstatus[s]
      /\ \A s \in Receivers \ {t} : size'[s] = size[s]
  BY <1>1, <1>2 DEF MessageTypeOK
<1>7. MessageTypeOK'
  BY <1>1, <1>2, <1>5 DEF MessageTypeOK, Statuses
<1>8. QueuesInv'
  BY <1>1, <1>2, <1>5, <1>6 DEF QueuesInv
<1>9. GoalInv'
  BY <1>2 DEF GoalInv
<1>10. n < Depth(t) /\ Depth(t) = Len(uses[t]) /\ Depth(t)' = n /\ StatusOf(t)' = "running"
  BY <1>2, <1>4, <1>5, <1>6 DEF Depth, StatusOf, Interrupted
<1>11. \A i \in 1 .. n : uses[t][i].mode = "recv" /\ uses[t][i].st = "match" =>
                            ~committed'[uses[t][i].pos]
  BY <1>1, <1>2, <1>5 DEF Sound, Knows
<1>12. Sound(t)'
  BY <1>2, <1>3, <1>4, <1>10, <1>11, CutSound
<1>13. \A s \in Receivers \ {t} : Sound(s)'
  BY <1>2, <1>5, <1>6, SameGoal, OthersSound
<1> QED
  BY <1>7, <1>8, <1>9, <1>12, <1>13 DEF Receiving

LEMMA ThreadEndsReceiving ==
    ASSUME MessageAssumption, Receiving, NEW t \in Receivers, ThreadEnds(t)
    PROVE  Receiving'
<1>1. MessageTypeOK /\ QueuesInv /\ GoalInv
  BY DEF Receiving
<1>2. /\ goal = NoGoal /\ t # Console /\ mstatus[t] # "dead"
      /\ queue' = [queue EXCEPT ![t] = {}]
      /\ uses' = [uses EXCEPT ![t] = <<>>]
      /\ mstatus' = [mstatus EXCEPT ![t] = "dead"]
      /\ size' = [size EXCEPT ![t] = 0]
      /\ UNCHANGED <<sent, kind, refs, committed, goal, taken>>
  BY DEF ThreadEnds
<1>3. /\ uses'[t] = <<>> /\ queue'[t] = {} /\ mstatus'[t] = "dead"
      /\ \A s \in Receivers \ {t} : /\ uses'[s] = uses[s] /\ queue'[s] = queue[s]
                                    /\ mstatus'[s] = mstatus[s] /\ size'[s] = size[s]
  BY <1>1, <1>2 DEF MessageTypeOK
<1>4. MessageTypeOK'
  <2>1. <<>> \in Seq(Use)
    OBVIOUS
  <2>2. uses' \in [Receivers -> Seq(Use)]
    BY <2>1, <1>1, <1>2 DEF MessageTypeOK
  <2> QED
    BY <2>2, <1>1, <1>2 DEF MessageTypeOK, Statuses
<1>5. QueuesInv'
  BY <1>1, <1>2, <1>3 DEF QueuesInv
<1>6. GoalInv'
  BY <1>2 DEF GoalInv
<1>7. Sound(t)'
  <2>1. StatusOf(t)' = "dead" /\ DOMAIN uses'[t] = {}
    BY <1>2, <1>3 DEF StatusOf, Interrupted
  <2> QED
    BY <2>1, <1>3 DEF Sound, Stack, Knows, Held, Blocked, Valid, Complete
<1>8. \A s \in Receivers \ {t} : Sound(s)'
  BY <1>2, <1>3, SameGoal, OthersSound
<1> QED
  BY <1>4, <1>5, <1>6, <1>7, <1>8 DEF Receiving

LEMMA GoalStartReceiving ==
    ASSUME MessageAssumption, Receiving, GoalStart
    PROVE  Receiving'
<1>1. MessageTypeOK /\ QueuesInv /\ Console \in Receivers
  BY DEF Receiving, MessageAssumption
<1>2. /\ goal = NoGoal /\ mstatus[Console] \in Statuses \ {"dead"}
      /\ goal' = [depth |-> Len(uses[Console]), status |-> mstatus[Console]]
      /\ mstatus' = [mstatus EXCEPT ![Console] = "running"]
      /\ UNCHANGED <<sent, kind, refs, committed, queue, uses, size, taken>>
  BY DEF GoalStart
<1>3. /\ mstatus'[Console] = "running" /\ \A s \in Receivers \ {Console} : mstatus'[s] = mstatus[s]
      /\ goal'.depth = Len(uses[Console]) /\ goal'.status = mstatus[Console] /\ goal' # NoGoal
      /\ Len(uses[Console]) \in Nat
  BY <1>1, <1>2, ThreadTypes DEF MessageTypeOK, NoGoal
<1>4. MessageTypeOK'
  BY <1>1, <1>2, <1>3 DEF MessageTypeOK, Statuses
<1>5. QueuesInv'
  BY <1>1, <1>2, <1>3 DEF QueuesInv
<1>6. GoalInv'
  <2>1. DOMAIN uses[Console] = 1 .. Len(uses[Console])
    BY <1>1, ThreadTypes
  <2> QED
    BY <2>1, <1>2, <1>3 DEF GoalInv
<1>7. ASSUME NEW s \in Receivers
      PROVE  Sound(s)'
  <2>1. StatusOf(s)' = StatusOf(s) /\ Depth(s)' = Depth(s)
    BY <1>2, <1>3 DEF StatusOf, Depth, Interrupted
  <2>2. sent' \in Nat /\ sent <= sent' /\ queue[s] \subseteq queue'[s] /\ queue'[s] \ queue[s] = {}
    BY <1>1, <1>2 DEF MessageTypeOK
  <2> QED
    BY <2>1, <2>2, <1>2, OtherSound
<1> QED
  BY <1>4, <1>5, <1>6, <1>7 DEF Receiving

LEMMA GoalEndReceiving ==
    ASSUME MessageAssumption, Receiving, GoalEnd
    PROVE  Receiving'
<1> DEFINE n == goal.depth
<1>1. MessageTypeOK /\ QueuesInv /\ GoalInv /\ Console \in Receivers /\ Sound(Console)
  BY DEF Receiving, MessageAssumption
<1>2. /\ goal # NoGoal
      /\ uses' = [uses EXCEPT ![Console] = SubSeq(@, 1, n)]
      /\ mstatus' = [mstatus EXCEPT ![Console] = goal.status]
      /\ goal' = NoGoal
      /\ UNCHANGED <<sent, kind, refs, committed, queue, size, taken>>
  BY DEF GoalEnd
<1>3. /\ n \in 0 .. Len(uses[Console]) /\ n \in Nat /\ goal.status \in Statuses
      /\ goal.status # "dead"
  BY <1>1, <1>2, ThreadTypes DEF GoalInv, MessageTypeOK
<1>4. /\ mstatus'[Console] = goal.status
      /\ \A s \in Receivers \ {Console} : mstatus'[s] = mstatus[s]
  BY <1>1, <1>2 DEF MessageTypeOK
<1>5. /\ uses' \in [Receivers -> Seq(Use)] /\ \A s \in Receivers \ {Console} : uses'[s] = uses[s]
      /\ Len(uses'[Console]) = n /\ DOMAIN uses'[Console] = 1 .. n
      /\ \A i \in 1 .. n : uses'[Console][i] = uses[Console][i] /\ i \in DOMAIN uses[Console]
  BY <1>1, <1>2, <1>3, Cut
<1>6. MessageTypeOK'
  BY <1>1, <1>2, <1>3, <1>5 DEF MessageTypeOK, NoGoal, Statuses
<1>7. QueuesInv'
  BY <1>1, <1>2, <1>3, <1>4, <1>5 DEF QueuesInv
<1>8. GoalInv'
  BY <1>2 DEF GoalInv
<1>9. StatusOf(Console)' = StatusOf(Console) /\ Depth(Console)' = Depth(Console)
      /\ Depth(Console) <= n
  BY <1>2, <1>3, <1>4, <1>5 DEF StatusOf, Depth, Interrupted
<1>10. \A i \in 1 .. n : uses[Console][i].mode = "recv" /\ uses[Console][i].st = "match" =>
                            ~committed'[uses[Console][i].pos]
  BY <1>1, <1>2, <1>5 DEF Sound, Knows
<1>11. Sound(Console)'
  BY <1>1, <1>2, <1>3, <1>9, <1>10, CutSound
<1>12. \A s \in Receivers \ {Console} : Sound(s)'
  <2>1. \A s \in Receivers \ {Console} : StatusOf(s)' = StatusOf(s) /\ Depth(s)' = Depth(s)
    BY <1>4, <1>5 DEF StatusOf, Depth, Interrupted
  <2> QED
    BY <2>1, <1>1, <1>2, <1>5, OthersSound
<1> QED
  BY <1>6, <1>7, <1>8, <1>11, <1>12 DEF Receiving

\* What ipc_commit relies on: nothing has committed to the message yet, and if
\* there is one reference to it, no other receive of the thread is at it.
LEMMA CommitProperty ==
    ASSUME MessageAssumption, Receiving, NEW t \in Receivers, IpcCommit(t)
    PROVE  /\ goal = NoGoal /\ Top(t).pos \in queue[t] /\ ~committed[Top(t).pos]
           /\ Top(t).pos \in Messages /\ mstatus[t] = "running"
           /\ \A i \in DOMAIN uses[t] : i # Len(uses[t]) => uses[t][i].mode = "peek"
           /\ Unreferenced(Top(t).pos) =>
                \A i \in DOMAIN uses[t] : i # Len(uses[t]) /\ uses[t][i].st # "first" =>
                    uses[t][i].pos # Top(t).pos
<1> DEFINE n == Len(uses[t])
           m == Top(t).pos
<1>1. MessageTypeOK /\ QueuesInv /\ GoalInv /\ Sound(t)
  BY DEF Receiving
<1>2. Executes(t) /\ HasUse(t, "match") /\ Top(t).mode = "recv"
  BY DEF IpcCommit
<1>3. /\ n \in DOMAIN uses[t] /\ Top(t).st = "match" /\ Top(t) = uses[t][n]
      /\ ~Interrupted(t) /\ goal = NoGoal /\ Depth(t) = n /\ StatusOf(t) = mstatus[t]
      /\ mstatus[t] = "running"
  BY <1>2, ExecutingProperty DEF Top
<1>4. m \in queue[t] /\ ~committed[m]
  BY <1>1, <1>2, <1>3, StalledProperty DEF Sound, Valid, Knows
<1>5. m \in Messages
  BY <1>1, <1>4, ThreadTypes
<1>6. \A i \in DOMAIN uses[t] : i # n => uses[t][i].mode = "peek"
  BY <1>1, <1>3 DEF Sound, Stack
<1>7. ASSUME Unreferenced(m), NEW i \in DOMAIN uses[t], i # n, uses[t][i].st # "first",
             uses[t][i].pos = m
      PROVE  FALSE
  <2>1. {n, i} \in SUBSET Holders(t, m)
    BY <1>3, <1>7 DEF Holders
  <2>2. IsFiniteSet(Holders(t, m)) /\ Cardinality(Holders(t, m)) \in Nat
    BY <1>1, HoldersFinite
  <2>3. Cardinality(Holders(t, m)) <= 1
    BY <1>1, <1>4, <1>7 DEF Sound, Held, Unreferenced
  <2>4. Cardinality({n, i}) = 2
    <3>1. IsFiniteSet({n}) /\ Cardinality({n}) = 1
      BY FS_Singleton
    <3>4. i \notin {n}
      BY <1>7
    <3> HIDE DEF n
    <3>5. Cardinality({n} \union {i}) = Cardinality({n}) + 1
      BY <3>1, <3>4, FS_AddElement, Zenon
    <3>2. Cardinality({n} \union {i}) = 2
      BY <3>1, <3>5
    <3>3. {n} \union {i} = {n, i}
      OBVIOUS
    <3> QED
      BY <3>2, <3>3
  <2>5. Cardinality({n, i}) <= Cardinality(Holders(t, m))
    BY <2>1, <2>2, FS_Subset
  <2> QED
    BY <2>2, <2>3, <2>4, <2>5
<1> QED
  BY <1>3, <1>4, <1>5, <1>6, <1>7

LEMMA IpcCommitReceiving ==
    ASSUME MessageAssumption, Receiving, NEW t \in Receivers, IpcCommit(t)
    PROVE  Receiving'
<1> DEFINE n == Len(uses[t]) - 1
           m == Top(t).pos
<1>1. MessageTypeOK /\ QueuesInv /\ GoalInv /\ Sound(t)
  BY DEF Receiving
<1>2. /\ Executes(t) /\ HasUse(t, "match") /\ Top(t).mode = "recv" /\ Pop(t)
      /\ committed' = [committed EXCEPT ![m] = TRUE]
      /\ refs' = [refs EXCEPT ![m] = @ - 1]
      /\ queue' = [queue EXCEPT ![t] = IF Unreferenced(m) THEN @ \ {m} ELSE @]
      /\ taken' = [taken EXCEPT ![m] = @ + 1]
      /\ UNCHANGED <<sent, kind, mstatus, size, goal>>
  BY DEF IpcCommit
<1>3. /\ uses[t] # <<>> /\ Len(uses[t]) \in DOMAIN uses[t] /\ ~Interrupted(t)
      /\ Depth(t) = Len(uses[t]) /\ StatusOf(t) = mstatus[t]
  BY <1>2, ExecutingProperty
<1>4. /\ goal = NoGoal /\ m \in queue[t] /\ ~committed[m]
      /\ m \in Messages /\ mstatus[t] = "running"
      /\ \A i \in DOMAIN uses[t] : i # Len(uses[t]) => uses[t][i].mode = "peek"
      /\ Unreferenced(m) =>
            \A i \in DOMAIN uses[t] : i # Len(uses[t]) /\ uses[t][i].st # "first" =>
                uses[t][i].pos # m
  BY CommitProperty
<1>5. n \in 0 .. Len(uses[t]) /\ n < Len(uses[t]) /\ Len(uses[t]) \in Nat /\ Depth(t) \in Nat
      /\ n \in Nat /\ DOMAIN uses[t] = 1 .. Len(uses[t]) /\ queue[t] \in SUBSET (1 .. sent) /\ sent \in Nat
  BY <1>1, <1>3, ThreadTypes
<1>6. uses' = [uses EXCEPT ![t] = SubSeq(@, 1, n)]
  BY <1>2 DEF Pop
<1>7. /\ uses' \in [Receivers -> Seq(Use)] /\ \A s \in Receivers \ {t} : uses'[s] = uses[s]
      /\ Len(uses'[t]) = n /\ DOMAIN uses'[t] = 1 .. n
      /\ \A i \in 1 .. n : uses'[t][i] = uses[t][i] /\ i \in DOMAIN uses[t]
  BY <1>1, <1>5, <1>6, Cut
<1>8. /\ \A s \in Receivers \ {t} : queue'[s] = queue[s]
      /\ queue'[t] = IF Unreferenced(m) THEN queue[t] \ {m} ELSE queue[t]
      /\ queue' \in [Receivers -> SUBSET (1 .. sent)]
  BY <1>1, <1>2, <1>5 DEF MessageTypeOK
<1> HIDE DEF n, m
<1>9. /\ committed'[m] /\ \A k \in Messages \ {m} : committed'[k] = committed[k]
      /\ \A k \in Messages \ {m} : refs'[k] = refs[k] /\ taken'[k] = taken[k]
      /\ taken'[m] = taken[m] + 1
      /\ committed' \in [Messages -> BOOLEAN] /\ refs' \in [Messages -> Int]
      /\ taken' \in [Messages -> Nat]
  <2>1. committed'[m] /\ \A k \in Messages \ {m} : committed'[k] = committed[k]
    BY <1>1, <1>2, <1>4 DEF MessageTypeOK
  <2>2. committed' \in [Messages -> BOOLEAN]
    BY <1>1, <1>2 DEF MessageTypeOK
  <2>3. \A k \in Messages \ {m} : refs'[k] = refs[k] /\ taken'[k] = taken[k]
    BY <1>1, <1>2 DEF MessageTypeOK
  <2>4. taken'[m] = taken[m] + 1
    BY <1>1, <1>2, <1>4 DEF MessageTypeOK
  <2>5. refs' \in [Messages -> Int] /\ taken' \in [Messages -> Nat]
    <3>1. refs[m] - 1 \in Int /\ taken[m] + 1 \in Nat
      BY <1>1, <1>4 DEF MessageTypeOK
    <3>2. refs' = [refs EXCEPT ![m] = refs[m] - 1] /\ taken' = [taken EXCEPT ![m] = taken[m] + 1]
      BY <1>2
    <3> QED
      BY <3>1, <3>2, <1>1 DEF MessageTypeOK
  <2> QED
    BY <2>1, <2>2, <2>3, <2>4, <2>5
<1>10. MessageTypeOK'
  BY <1>1, <1>2, <1>7, <1>8, <1>9 DEF MessageTypeOK
<1>11. QueuesInv'
  <2>1. \A s \in Receivers : queue'[s] \in SUBSET queue[s]
    BY <1>8
  <2>2. \A r, s \in Receivers : r # s => queue'[r] \intersect queue'[s] = {}
    BY <2>1, <1>1 DEF QueuesInv
  <2>3. \A s \in Receivers : mstatus'[s] = "dead" => queue'[s] = {} /\ uses'[s] = <<>>
    BY <1>1, <1>2, <1>4, <1>7, <1>8 DEF QueuesInv
  <2>4. \A k \in Messages : k > sent' => ~committed'[k] /\ refs'[k] = 0
    <3> TAKE k \in Messages
    <3> HAVE k > sent'
    <3>1. k > sent /\ m <= sent /\ k \in Int
      BY <1>2, <1>4, <1>5 DEF Messages
    <3>2. k # m
      BY <3>1, <1>5
    <3> QED
      BY <3>1, <3>2, <1>1, <1>9 DEF QueuesInv
  <2>5. \A k \in Messages : taken'[k] = IF committed'[k] THEN 1 ELSE 0
    BY <1>1, <1>4, <1>9 DEF QueuesInv
  <2> QED
    BY <2>2, <2>3, <2>4, <2>5 DEF QueuesInv
<1>12. GoalInv'
  BY <1>2, <1>4 DEF GoalInv
<1>13. Depth(t)' = n /\ StatusOf(t)' = "running"
  BY <1>2, <1>3, <1>4, <1>7, SameGoal
<1>14. \A i \in 1 .. n : uses[t][i].mode = "peek" /\ i # Len(uses[t])
  <2> TAKE i \in 1 .. n
  <2>1. i \in DOMAIN uses[t] /\ i # Len(uses[t])
    BY <1>5, <1>7
  <2> QED
    BY <2>1, <1>4
<1>15. \A i \in 1 .. n : uses[t][i].st # "first" /\ uses[t][i].pos \in queue[t] =>
                            uses[t][i].pos \in queue'[t]
  BY <1>4, <1>7, <1>8, <1>14
<1>16. Sound(t)'
  <2>1. queue'[t] \subseteq queue[t] /\ queue'[t] \subseteq Messages
    BY <1>1, <1>8, ThreadTypes
  <2>2. \A k \in queue'[t] : (committed[k] => committed'[k])
                             /\ (~committed'[k] => refs'[k] = refs[k])
    BY <2>1, <1>9
  <2> QED
    BY <2>1, <2>2, <1>2, <1>3, <1>5, <1>6, <1>13, <1>14, <1>15, CutSound
<1>17. \A s \in Receivers \ {t} : Sound(s)'
  <2>1. \A k \in Messages \ queue[t] : refs'[k] = refs[k] /\ (committed'[k] <=> committed[k])
    BY <1>4, <1>9
  <2> QED
    BY <2>1, <1>2, <1>7, <1>8, SameGoal, OthersSound
<1> QED
  BY <1>10, <1>11, <1>12, <1>16, <1>17 DEF Receiving

\* As many steps from the beginning as there were messages lead to the last of
\* those there were.
LEMMA AdvanceProperty ==
    ASSUME MessageAssumption, MessageTypeOK, NEW t \in Receivers, NEW old \in SUBSET queue[t],
           \A m \in old : \A k \in queue[t] \ old : m < k, NEW n \in Nat,
           n = IF Cardinality(old) = 0 THEN 0 ELSE Cardinality(old) - 1
    PROVE  /\ Advance(t, n) \in 1 .. End
           /\ old # {} => Advance(t, n) \in old /\ \A k \in old : k <= Advance(t, n)
<1> DEFINE ring == queue[t] \union {End}
           Below(x) == {k \in ring : k < x}
           c == Cardinality(ring)
<1>1. /\ queue[t] \in SUBSET (1 .. sent) /\ sent \in Nat /\ sent <= MaxMessages
      /\ MaxMessages \in Nat /\ IsFiniteSet(queue[t]) /\ Cardinality(queue[t]) \in Nat
  BY ThreadTypes
<1>2. End \in Nat /\ End \notin queue[t] /\ \A k \in queue[t] : k < End /\ k \in Nat /\ k >= 1
  BY <1>1 DEF End
<1>3. IsFiniteSet(ring) /\ c = Cardinality(queue[t]) + 1 /\ c \in Nat
  BY <1>1, <1>2, OneMore
<1>4. /\ IsFiniteSet(old) /\ Cardinality(old) \in Nat /\ Cardinality(old) <= Cardinality(queue[t])
      /\ (Cardinality(old) = 0 <=> old = {})
  <2>1. IsFiniteSet(old) /\ Cardinality(old) <= Cardinality(queue[t])
    BY <1>1, FS_Subset
  <2> QED
    BY <2>1, FS_CardinalityType, FS_EmptySet
<1>5. n % c = n
  BY <1>1, <1>3, <1>4
<1>6. \A x : IsFiniteSet(Below(x))
  BY <1>3, FS_Subset
<1>7. ASSUME NEW x \in ring, NEW y \in ring, Cardinality(Below(x)) = Cardinality(Below(y))
      PROVE  ~(x < y)
  <2> SUFFICES ASSUME x < y PROVE FALSE
    OBVIOUS
  <2>1. Below(x) \in SUBSET Below(y)
    BY <1>2
  <2>2. x \in Below(y) /\ x \notin Below(x)
    BY <1>2
  <2> HIDE DEF Below
  <2>3. Below(y) = Below(x)
    BY <2>1, <1>6, <1>7, FS_Subset
  <2> QED
    BY <2>2, <2>3
<1>8. ASSUME NEW m \in ring, Cardinality(Below(m)) = n
      PROVE  Advance(t, n) = m
  <2> DEFINE a == CHOOSE x \in ring : Cardinality(Below(x)) = n
             counts(x) == Cardinality(Below(x)) = n
  <2>3. \E x \in ring : counts(x)
    BY <1>8
  <2> HIDE DEF counts
  <2>4. (CHOOSE x \in ring : counts(x)) \in ring /\ counts(CHOOSE x \in ring : counts(x))
    BY <2>3
  <2>1. a \in ring /\ Cardinality(Below(a)) = n
    BY <2>4 DEF counts
  <2>2. Advance(t, n) = a
    BY <1>5 DEF Advance
  <2> HIDE DEF a
  <2>5. ~(a < m) /\ ~(m < a)
    BY <2>1, <1>7, <1>8
  <2> QED
    BY <2>1, <2>2, <2>5, <1>2
<1>9. CASE old = {}
  <2>1. ring \in SUBSET Nat /\ ring # {}
    BY <1>2
  <2>2. PICK m \in ring : \A k \in ring : m <= k
    BY <2>1, LeastElement
  <2>3. Below(m) = {}
    <3>1. \A k \in ring : m \in Nat /\ k \in Nat /\ m <= k
      BY <2>1, <2>2
    <3>2. \A k \in ring : ~(k < m)
      BY <3>1
    <3> QED
      BY <3>2
  <2>4. Cardinality(Below(m)) = n
    BY <2>3, <1>4, <1>9, FS_EmptySet
  <2>5. Advance(t, n) = m
    BY <2>2, <2>4, <1>8
  <2>6. m \in 1 .. End
    BY <2>2, <1>1, <1>2 DEF End
  <2> QED
    BY <2>5, <2>6, <1>9
<1>10. CASE old # {}
  <2>1. old \in SUBSET (1 .. sent)
    BY <1>1
  <2>2. PICK m \in old : \A k \in old : k <= m
    BY <2>1, <1>1, <1>10, GreatestElement
  <2>3. Below(m) = old \ {m}
    <3>1. \A k \in queue[t] \ old : m < k
      BY <2>2
    <3> QED
      BY <3>1, <2>2, <1>2
  <2>4. Cardinality(old \ {m}) = Cardinality(old) - 1
    BY <2>2, <1>4, FS_RemoveElement
  <2>5. Cardinality(Below(m)) = n
    BY <2>3, <2>4, <1>4, <1>10
  <2>6. m \in ring /\ m \in 1 .. End
    BY <2>2, <1>2
  <2>7. Advance(t, n) = m
    BY <2>5, <2>6, <1>8
  <2> QED
    BY <2>2, <2>6, <2>7
<1> QED
  BY <1>9, <1>10

LEMMA UnblockReceiving ==
    ASSUME MessageAssumption, Receiving, NEW t \in Receivers, Unblock(t)
    PROVE  Receiving'
<1> DEFINE U == uses[t]
           n == Len(U)
<1>1. MessageTypeOK /\ QueuesInv /\ GoalInv /\ Sound(t)
  BY DEF Receiving
<1>2. /\ mstatus[t] = "blocked" /\ goal = NoGoal /\ size' = [size EXCEPT ![t] = 0]
      /\ UNCHANGED <<sent, kind, refs, committed, queue, goal, taken>>
  BY DEF Unblock
<1>3. /\ StatusOf(t) = "blocked" /\ Depth(t) = n /\ n > 0 /\ U[n].st # "match" /\ n \in Nat
      /\ DOMAIN U = 1 .. n /\ n \in DOMAIN U /\ U # <<>> /\ U[n] \in Use /\ U[n] = Top(t)
      /\ ~Interrupted(t)
  <2>1. StatusOf(t) = "blocked" /\ Depth(t) = n /\ ~Interrupted(t)
    BY <1>2 DEF StatusOf, Depth, Interrupted
  <2>2. n > 0 /\ U[n].st # "match"
    BY <2>1, <1>1 DEF Sound, Stack
  <2>3. n \in Nat /\ DOMAIN U = 1 .. n /\ U \in Seq(Use)
    BY <1>1, ThreadTypes
  <2>4. n \in DOMAIN U /\ U # <<>> /\ U[n] \in Use
    BY <2>2, <2>3
  <2> QED
    BY <2>1, <2>2, <2>3, <2>4 DEF Top
<1>4. PICK old \in SUBSET queue[t] : Examined(t, old)
  BY <1>1, <1>3 DEF Sound, Blocked
<1>5. /\ Cardinality(old) = size[t] /\ size[t] \in Nat
      /\ \A m \in old : \A k \in queue[t] \ old : m < k
      /\ \A m \in old : m \in U[n].seen \/ committed[m]
      /\ U[n].st = "next" => old # {}
      /\ U[n].st = "next" => \A m \in old : ~committed[m] /\ (\A k \in old : k <= m) =>
            Cardinality(Holders(t, m)) < refs[m]
  BY <1>1, <1>3, <1>4 DEF Examined, MessageTypeOK
<1>6. \A s \in Receivers \ {t} : size'[s] = size[s]
  BY <1>1, <1>2 DEF MessageTypeOK
<1> HIDE DEF n
<1>7. CASE /\ SetTop(t, [Top(t) EXCEPT !.pos = Advance(t, IF size[t] = 0 THEN 0 ELSE size[t] - 1)])
           /\ mstatus' = [mstatus EXCEPT ![t] = "restart_msg"]
  <2> DEFINE p == Advance(t, IF size[t] = 0 THEN 0 ELSE size[t] - 1)
             new == [Top(t) EXCEPT !.pos = p]
  <2>1. p \in 1 .. End /\ (old # {} => p \in old /\ \A k \in old : k <= p)
    <3>1. (IF size[t] = 0 THEN 0 ELSE size[t] - 1) \in Nat
      BY <1>5
    <3> QED
      BY <3>1, <1>1, <1>5, AdvanceProperty
  <2> HIDE DEF p
  <2>2. /\ new \in Use /\ new.st = U[n].st /\ new.mode = U[n].mode /\ new.pattern = U[n].pattern
        /\ new.timeout = U[n].timeout /\ new.pos = p /\ new.seen = U[n].seen
    BY <2>1, <1>3 DEF Use
  <2>3. SetTop(t, new)
    BY <1>7 DEF p
  <2> HIDE DEF new
  <2>4. /\ uses' \in [Receivers -> Seq(Use)] /\ \A s \in Receivers \ {t} : uses'[s] = uses[s]
        /\ Len(uses'[t]) = n /\ DOMAIN uses'[t] = DOMAIN U
        /\ \A i \in DOMAIN U : i # n => uses'[t][i] = U[i]
        /\ uses'[t][n] = new
    BY <2>2, <2>3, <1>1, <1>3, TopSet DEF n
  <2>5. /\ mstatus'[t] = "restart_msg" /\ \A s \in Receivers \ {t} : mstatus'[s] = mstatus[s]
        /\ mstatus' \in [Receivers -> Statuses]
    BY <1>1, <1>7 DEF MessageTypeOK, Statuses
  <2>6. StatusOf(t)' = "restart_msg" /\ Depth(t)' = n
    BY <2>4, <2>5, <1>2, <1>3, SameGoal
  <2>7. \A i : ~Stalled(t, i)'
    BY <2>5, <1>2 DEF Stalled
  <2>8. U[n].st = "first" \/ U[n].st = "next"
    BY <1>3, UseTypes
  <2>9. MessageTypeOK'
    BY <2>4, <2>5, <1>1, <1>2 DEF MessageTypeOK
  <2>10. QueuesInv'
    BY <2>4, <2>5, <1>1, <1>2 DEF QueuesInv
  <2>11. GoalInv'
    BY <1>2 DEF GoalInv
  <2>12. Stack(t)'
    <3>1. Depth(t)' > 0 /\ uses'[t][Depth(t)'].st # "match"
      BY <2>2, <2>4, <2>6, <1>3
    <3>2. \A i \in DOMAIN uses'[t] : i # n =>
            uses'[t][i].st = "match" /\ uses'[t][i].mode = "peek"
      BY <2>4, <1>1, <1>3 DEF Sound, Stack, n
    <3> QED
      BY <3>1, <3>2, <2>6 DEF Stack
  <2>13. Knows(t)'
    <3> SUFFICES ASSUME NEW i \in DOMAIN U
                 PROVE  LET u == uses'[t][i] IN
                        /\ \A m \in u.seen : m <= sent
                        /\ u.st = "match" => kind[u.pos] \in u.pattern
                        /\ u.mode = "recv" =>
                            \A m \in u.seen : kind[m] \in u.pattern => u.st = "match" /\ m = u.pos
                        /\ u.mode = "recv" /\ u.st = "match" => ~committed[u.pos]
                        /\ Stalled(t, i)' => u.pos = End
      BY <2>4, <1>2 DEF Knows
    <3>1. CASE i = n
      BY <3>1, <2>2, <2>4, <2>7, <2>8, <1>1, <1>3 DEF Sound, Knows
    <3>2. CASE i # n
      BY <3>2, <2>4, <2>7, <1>1 DEF Sound, Knows
    <3> QED
      BY <3>1, <3>2
  <2>14. Held(t)'
    <3> SUFFICES ASSUME NEW m \in queue[t], ~committed[m]
                 PROVE  Cardinality(Holders(t, m)') <= refs[m]
      BY <1>2 DEF Held
    <3>1. IsFiniteSet(Holders(t, m)) /\ Cardinality(Holders(t, m)) \in Nat /\ refs[m] \in Int
      BY <1>1, HoldersFinite, ThreadTypes DEF MessageTypeOK
    <3>2. Cardinality(Holders(t, m)) <= refs[m]
      BY <1>1 DEF Sound, Held
    <3>3. CASE U[n].st = "next" /\ m = p
      <4>1. Cardinality(Holders(t, m)) < refs[m]
        BY <3>3, <2>1, <1>5
      <4>2. Holders(t, m)' \in SUBSET (Holders(t, m) \union {n})
        BY <2>4 DEF Holders
      <4>3. /\ IsFiniteSet(Holders(t, m) \union {n})
            /\ Cardinality(Holders(t, m) \union {n}) <= Cardinality(Holders(t, m)) + 1
            /\ Cardinality(Holders(t, m) \union {n}) \in Nat
        BY <3>1, OneMore
      <4>4. /\ Cardinality(Holders(t, m)') <= Cardinality(Holders(t, m) \union {n})
            /\ Cardinality(Holders(t, m)') \in Nat
        BY <4>2, <4>3, FS_Subset, FS_CardinalityType
      <4> QED
        BY <4>1, <4>3, <4>4, <3>1
    <3>4. CASE ~(U[n].st = "next" /\ m = p)
      <4>1. Holders(t, m)' \in SUBSET Holders(t, m)
        BY <3>4, <2>2, <2>4, <2>8 DEF Holders
      <4>2. Cardinality(Holders(t, m)') <= Cardinality(Holders(t, m))
            /\ Cardinality(Holders(t, m)') \in Nat
        BY <4>1, <3>1, FS_Subset, FS_CardinalityType
      <4> QED
        BY <4>2, <3>1, <3>2
    <3> QED
      BY <3>3, <3>4
  <2>15. Blocked(t)'
    BY <2>6 DEF Blocked
  <2>16. Valid(t)'
    <3> SUFFICES ASSUME NEW i \in DOMAIN U, uses'[t][i].st # "first"
                 PROVE  uses'[t][i].pos \in queue[t]
      BY <2>4, <1>2 DEF Valid
    <3>1. CASE i = n
      BY <3>1, <2>1, <2>2, <2>4, <2>8, <1>5
    <3>2. CASE i # n
      BY <3>2, <2>4, <1>1, <1>3, StalledProperty DEF Sound, Valid
    <3> QED
      BY <3>1, <3>2
  <2>17. Complete(t)'
    <3> SUFFICES ASSUME NEW i \in DOMAIN U, uses'[t][i].st # "first", uses'[t][i].pos # End,
                        NEW m \in queue[t], m <= uses'[t][i].pos
                 PROVE  m \in uses'[t][i].seen \/ committed[m]
      BY <2>4, <1>2 DEF Complete
    <3>1. CASE i = n
      <4>1. p \in old /\ m <= p
        BY <3>1, <2>1, <2>2, <2>4, <2>8, <1>5
      <4>2. m \in Nat /\ p \in Nat
        BY <4>1, <1>1, ThreadTypes
      <4>3. m \in old
        BY <4>1, <4>2, <1>5
      <4> QED
        BY <4>3, <3>1, <2>2, <2>4, <1>5
    <3>2. CASE i # n
      BY <3>2, <2>4, <1>1 DEF Sound, Complete
    <3> QED
      BY <3>1, <3>2
  <2>18. \A s \in Receivers \ {t} : Sound(s)'
    BY <2>4, <2>5, <1>2, <1>6, SameGoal, OthersSound
  <2> QED
    BY <2>9, <2>10, <2>11, <2>12, <2>13, <2>14, <2>15, <2>16, <2>17, <2>18 DEF Receiving, Sound
<1>8. CASE mstatus' = [mstatus EXCEPT ![t] = "restart_time"] /\ UNCHANGED uses
  <2>1. /\ mstatus'[t] = "restart_time" /\ \A s \in Receivers \ {t} : mstatus'[s] = mstatus[s]
        /\ mstatus' \in [Receivers -> Statuses]
    BY <1>1, <1>8 DEF MessageTypeOK, Statuses
  <2>2. StatusOf(t)' = "restart_time" /\ Depth(t)' = n
    BY <2>1, <1>2, <1>3, <1>8, SameGoal DEF n
  <2>3. \A i : Stalled(t, i)' <=> Stalled(t, i)
    BY <2>1, <1>2, <1>8 DEF Stalled
  <2>4. \A m : Holders(t, m)' = Holders(t, m)
    BY <1>8 DEF Holders
  <2>5. MessageTypeOK' /\ QueuesInv' /\ GoalInv'
    BY <2>1, <1>1, <1>2, <1>8 DEF MessageTypeOK, QueuesInv, GoalInv
  <2>6. Stack(t)'
    BY <2>2, <1>1, <1>3, <1>8 DEF Sound, Stack
  <2>7. Knows(t)'
    BY <2>3, <1>1, <1>2, <1>8 DEF Sound, Knows
  <2>8. Held(t)' /\ Blocked(t)'
    BY <2>2, <2>4, <1>1, <1>2, <1>8 DEF Sound, Held, Blocked
  <2>9. Valid(t)' /\ Complete(t)'
    BY <2>3, <1>1, <1>2, <1>8 DEF Sound, Valid, Complete
  <2>10. \A s \in Receivers \ {t} : Sound(s)'
    BY <2>1, <1>2, <1>6, <1>8, SameGoal, OthersSound
  <2> QED
    BY <2>5, <2>6, <2>7, <2>8, <2>9, <2>10 DEF Receiving, Sound
<1> QED
  BY <1>7, <1>8 DEF Unblock

-----------------------------------------------------------------------------
(* ipc_first and ipc_next.                                                 *)

\* The iterator comes from the message it leaves, or from before the first, to p
\* (a message, or the end): it passes only messages that were committed to.
Reaches(t, from, p) ==
    /\ p # End => p \in queue[t] /\ ~committed[p] /\ (from # End => p > from)
    /\ \A k \in queue[t] : (from # End => k > from) /\ (p # End => k < p) => committed[k]

LEMMA SkipProperty ==
    ASSUME MessageAssumption, MessageTypeOK, NEW t \in Receivers, NEW m \in 1 .. End
    PROVE  /\ SkipCommitted(t, m) \in 1 .. End
           /\ SkipCommitted(t, m) # End =>
                /\ SkipCommitted(t, m) \in queue[t] /\ ~committed[SkipCommitted(t, m)]
                /\ SkipCommitted(t, m) >= m
           /\ \A k \in queue[t] : k >= m /\ (SkipCommitted(t, m) # End => k < SkipCommitted(t, m))
                => committed[k]
<1> DEFINE S == {k \in queue[t] : k >= m /\ ~committed[k]}
<1>1. /\ queue[t] \in SUBSET (1 .. sent) /\ sent \in Nat /\ sent <= MaxMessages
      /\ MaxMessages \in Nat /\ queue[t] \in SUBSET Nat
  BY ThreadTypes
<1>2. \A k \in queue[t] : k \in Nat /\ k \in 1 .. End /\ k # End
  BY <1>1 DEF End
<1>3. S \in SUBSET Nat /\ SkipCommitted(t, m) = Least(S)
  BY <1>1 DEF SkipCommitted
<1>4. \A k \in S : k \in queue[t] /\ k >= m /\ ~committed[k]
  OBVIOUS
<1>5. \A k \in queue[t] : k >= m /\ k \notin S => committed[k]
  OBVIOUS
<1> HIDE DEF S
<1>6. CASE S = {}
  <2>1. Least(S) = End
    BY <1>3, <1>6, LeastProperty
  <2>2. End \in 1 .. End
    BY <1>1 DEF End
  <2> QED
    BY <2>1, <2>2, <1>3, <1>5, <1>6
<1>7. CASE S # {}
  <2>1. Least(S) \in S /\ \A k \in S : Least(S) <= k
    BY <1>3, <1>7, LeastProperty
  <2>2. Least(S) \in 1 .. End /\ Least(S) # End /\ Least(S) \in Nat
    BY <2>1, <1>2, <1>4
  <2>3. \A k \in queue[t] : k >= m /\ k < Least(S) => committed[k]
    BY <2>1, <2>2, <1>2, <1>5
  <2> QED
    BY <2>1, <2>2, <2>3, <1>3, <1>4
<1> QED
  BY <1>6, <1>7

LEMMA FirstReaches ==
    ASSUME MessageAssumption, MessageTypeOK, NEW t \in Receivers
    PROVE  SkipCommitted(t, Begin(t)) \in 1 .. End /\ Reaches(t, End, SkipCommitted(t, Begin(t)))
<1>1. /\ queue[t] \in SUBSET (1 .. sent) /\ sent \in Nat /\ sent <= MaxMessages
      /\ MaxMessages \in Nat /\ queue[t] \in SUBSET Nat
  BY ThreadTypes
<1>2. Begin(t) \in 1 .. End /\ \A k \in queue[t] : k >= Begin(t)
  BY <1>1, LeastProperty DEF Begin, End
<1> QED
  BY <1>2, SkipProperty DEF Reaches

LEMMA NextReaches ==
    ASSUME MessageAssumption, MessageTypeOK, NEW t \in Receivers, NEW from \in queue[t]
    PROVE  /\ SkipCommitted(t, Step(t, from)) \in 1 .. End
           /\ Reaches(t, from, SkipCommitted(t, Step(t, from)))
<1> DEFINE S == {k \in queue[t] : k > from}
<1>1. /\ queue[t] \in SUBSET (1 .. sent) /\ sent \in Nat /\ sent <= MaxMessages
      /\ MaxMessages \in Nat /\ queue[t] \in SUBSET Nat
  BY ThreadTypes
<1>2. from # End /\ Step(t, from) = Least(S) /\ S \in SUBSET Nat
      /\ S \in SUBSET queue[t] /\ from \in Nat /\ from < End /\ End \in Nat
  BY <1>1 DEF Step, End
<1>3. /\ Step(t, from) \in 1 .. End /\ Step(t, from) > from
      /\ \A k \in queue[t] : k > from => k >= Step(t, from)
  <2>1. CASE S = {}
    <3>1. Step(t, from) = End
      BY <2>1, <1>2, LeastProperty
    <3> QED
      BY <3>1, <2>1, <1>1, <1>2 DEF End
  <2>2. CASE S # {}
    <3>1. Step(t, from) \in S /\ \A k \in S : Step(t, from) <= k
      BY <2>2, <1>2, LeastProperty
    <3> QED
      BY <3>1, <1>1, <1>2 DEF End
  <2> QED
    BY <2>1, <2>2
<1> HIDE DEF S
<1>4. PICK p \in 1 .. End : p = SkipCommitted(t, Step(t, from))
  BY <1>3, SkipProperty
<1>5. /\ p # End => p \in queue[t] /\ ~committed[p] /\ p >= Step(t, from)
      /\ \A k \in queue[t] : k >= Step(t, from) /\ (p # End => k < p) => committed[k]
  BY <1>3, <1>4, SkipProperty
<1>6. p # End => p > from
  BY <1>2, <1>3, <1>5
<1>7. Reaches(t, from, p)
  BY <1>2, <1>3, <1>5, <1>6 DEF Reaches
<1> QED
  BY <1>4, <1>7

\* The receive t is in, as IS_READY_MESSAGE finds it: it comes from a message of
\* the queue, to which it has a reference, or from before the first.
Scans(t, from) ==
    /\ Executes(t)
    /\ \/ HasUse(t, "first") /\ from = End
       \/ HasUse(t, "next") /\ from = Top(t).pos /\ from \in queue[t]

LEMMA ScanFails ==
    ASSUME MessageAssumption, Receiving, NEW t \in Receivers,
           Executes(t), HasUse(t, "first") \/ HasUse(t, "next"),
           Pop(t), mstatus' = [mstatus EXCEPT ![t] = "running"],
           UNCHANGED <<sent, kind, refs, committed, queue, size, goal, taken>>
    PROVE  Receiving'
<1> DEFINE n == Len(uses[t]) - 1
<1>1. MessageTypeOK /\ QueuesInv /\ GoalInv /\ Sound(t)
  BY DEF Receiving
<1>2. /\ uses[t] # <<>> /\ Len(uses[t]) \in DOMAIN uses[t]
      /\ (Interrupted(t) => Depth(t) < Len(uses[t]) /\ mstatus[t] = "running")
      /\ (~Interrupted(t) => Depth(t) = Len(uses[t]) /\ StatusOf(t) = mstatus[t])
  BY ExecutingProperty
<1>3. n \in 0 .. Len(uses[t]) /\ Len(uses[t]) \in Nat /\ Depth(t) \in Nat
  BY <1>1, <1>2, ThreadTypes
<1>4. uses' = [uses EXCEPT ![t] = SubSeq(@, 1, n)]
  BY DEF Pop
<1>5. /\ uses' \in [Receivers -> Seq(Use)] /\ \A s \in Receivers \ {t} : uses'[s] = uses[s]
      /\ Len(uses'[t]) = n /\ DOMAIN uses'[t] = 1 .. n
      /\ \A i \in 1 .. n : uses'[t][i] = uses[t][i] /\ i \in DOMAIN uses[t]
  BY <1>1, <1>3, <1>4, Cut
<1>6. /\ mstatus'[t] = "running" /\ \A s \in Receivers \ {t} : mstatus'[s] = mstatus[s]
      /\ mstatus' \in [Receivers -> Statuses]
  BY <1>1 DEF MessageTypeOK, Statuses
<1>7. MessageTypeOK'
  BY <1>1, <1>5, <1>6 DEF MessageTypeOK
<1>8. QueuesInv'
  BY <1>1, <1>5, <1>6 DEF QueuesInv
<1>9. GoalInv'
  <2>1. CASE Interrupted(t)
    <3>1. t = Console /\ goal # NoGoal /\ Depth(t) = goal.depth
      BY <2>1 DEF Interrupted, Depth
    <3>2. Depth(t) <= n
      BY <2>1, <1>2, <1>3
    <3>3. goal.depth <= Len(uses'[Console]) /\ mstatus'[Console] = "running"
      BY <3>1, <3>2, <1>5, <1>6
    <3>4. \A i \in DOMAIN uses'[Console] : i > goal.depth =>
            uses'[Console][i].timeout = "poll" /\ uses'[Console][i].mode = "peek"
      BY <3>1, <1>1, <1>5 DEF GoalInv
    <3> QED
      BY <3>1, <3>3, <3>4, <1>1 DEF GoalInv
  <2>2. CASE ~Interrupted(t)
    BY <2>2 DEF GoalInv, Interrupted, Executes
  <2> QED
    BY <2>1, <2>2
<1>10. \/ Depth(t)' = Depth(t) /\ StatusOf(t)' = StatusOf(t) /\ Depth(t) <= n
       \/ n < Depth(t) /\ Depth(t) = Len(uses[t]) /\ Depth(t)' = n /\ StatusOf(t)' = "running"
  BY <1>2, <1>3, <1>5, <1>6, SameGoal
<1>11. \A i \in 1 .. n : uses[t][i].mode = "recv" /\ uses[t][i].st = "match" =>
                            ~committed'[uses[t][i].pos]
  BY <1>1, <1>5 DEF Sound, Knows
<1>12. Sound(t)'
  BY <1>3, <1>4, <1>10, <1>11, CutSound
<1>13. \A s \in Receivers \ {t} : Sound(s)'
  BY <1>5, <1>6, SameGoal, OthersSound
<1> QED
  BY <1>7, <1>8, <1>9, <1>12, <1>13 DEF Receiving

\* The thread has looked at all of its messages, and blocks on their number.
LEMMA ScanBlocks ==
    ASSUME MessageAssumption, Receiving, NEW t \in Receivers, NEW from, Scans(t, from),
           mstatus[t] # "restart_time", Reaches(t, from, End), Top(t).timeout # "poll",
           SetTop(t, [Top(t) EXCEPT !.pos = End]),
           size' = [size EXCEPT ![t] = Cardinality(queue[t])],
           mstatus' = [mstatus EXCEPT ![t] = "blocked"],
           UNCHANGED <<sent, kind, refs, committed, queue, goal, taken>>
    PROVE  Receiving'
<1> DEFINE U == uses[t]
           n == Len(U)
           new == [Top(t) EXCEPT !.pos = End]
<1>1. MessageTypeOK /\ QueuesInv /\ GoalInv /\ Sound(t)
  BY DEF Receiving
<1>2. /\ U # <<>> /\ n \in DOMAIN U /\ Top(t) \in Use
      /\ goal = NoGoal /\ ~Interrupted(t) /\ Depth(t) = n /\ StatusOf(t) = mstatus[t]
      /\ mstatus[t] \in {"running", "restart_msg"} /\ Top(t).st \in {"first", "next"}
  BY ExecutingProperty DEF Scans
<1>3. /\ n \in Nat /\ n > 0 /\ DOMAIN U = 1 .. n /\ U[n] = Top(t)
      /\ MaxMessages \in Nat /\ End \in 1 .. End /\ queue[t] \in SUBSET Messages
      /\ queue[t] \in SUBSET Nat /\ End \notin Messages
      /\ IsFiniteSet(queue[t]) /\ Cardinality(queue[t]) \in Nat
  BY <1>1, <1>2, ThreadTypes DEF Top, End
<1>4. /\ new \in Use /\ new.st = U[n].st /\ new.mode = U[n].mode /\ new.pattern = U[n].pattern
      /\ new.timeout = U[n].timeout /\ new.pos = End /\ new.seen = U[n].seen
      /\ new.st \in {"first", "next"}
  BY <1>2, <1>3 DEF Use
<1> HIDE DEF new
<1>5. /\ uses' \in [Receivers -> Seq(Use)] /\ \A s \in Receivers \ {t} : uses'[s] = uses[s]
      /\ Len(uses'[t]) = n /\ DOMAIN uses'[t] = DOMAIN U
      /\ \A i \in DOMAIN U : i # n => uses'[t][i] = U[i]
      /\ uses'[t][n] = new
  BY <1>1, <1>2, <1>4, TopSet DEF new
<1> HIDE DEF n
<1>6. /\ mstatus'[t] = "blocked" /\ \A s \in Receivers \ {t} : mstatus'[s] = mstatus[s]
      /\ mstatus' \in [Receivers -> Statuses]
      /\ size'[t] = Cardinality(queue[t]) /\ \A s \in Receivers \ {t} : size'[s] = size[s]
      /\ size' \in [Receivers -> Nat]
  BY <1>1, <1>3 DEF MessageTypeOK, Statuses
<1>7. StatusOf(t)' = "blocked" /\ Depth(t)' = n
  BY <1>2, <1>5, <1>6, SameGoal
<1>8. \A i : (Stalled(t, i)' <=> i = n) /\ ~Stalled(t, i)
  BY <1>2, <1>5, <1>6, <1>7, StalledProperty DEF Stalled, Interrupted
<1>9. MessageTypeOK'
  BY <1>1, <1>5, <1>6 DEF MessageTypeOK
<1>10. QueuesInv'
  BY <1>1, <1>2, <1>5, <1>6 DEF QueuesInv
<1>11. GoalInv'
  BY <1>2 DEF GoalInv
<1>12. Stack(t)'
  <2>1. Depth(t)' > 0 /\ uses'[t][Depth(t)'].st # "match"
    BY <1>3, <1>4, <1>5, <1>7
  <2>2. \A i \in DOMAIN uses'[t] : i # n => uses'[t][i].st = "match" /\ uses'[t][i].mode = "peek"
    BY <1>1, <1>2, <1>5 DEF Sound, Stack, n
  <2> QED
    BY <2>1, <2>2, <1>7 DEF Stack
<1>13. Knows(t)'
  <2> SUFFICES ASSUME NEW i \in DOMAIN U
               PROVE  LET u == uses'[t][i] IN
                      /\ \A m \in u.seen : m <= sent
                      /\ u.st = "match" => kind[u.pos] \in u.pattern
                      /\ u.mode = "recv" =>
                          \A m \in u.seen : kind[m] \in u.pattern => u.st = "match" /\ m = u.pos
                      /\ u.mode = "recv" /\ u.st = "match" => ~committed[u.pos]
                      /\ Stalled(t, i)' => u.pos = End
    BY <1>5 DEF Knows
  <2>1. CASE i = n
    BY <2>1, <1>1, <1>4, <1>5 DEF Sound, Knows
  <2>2. CASE i # n
    BY <2>2, <1>1, <1>5, <1>8 DEF Sound, Knows
  <2> QED
    BY <2>1, <2>2
<1>14. \A m \in Messages : Holders(t, m)' = Holders(t, m) \ {n}
  <2> TAKE m \in Messages
  <2>1. Holders(t, m)' = {i \in DOMAIN U : uses'[t][i].st # "first" /\ uses'[t][i].pos = m}
    BY <1>5 DEF Holders
  <2>2. n \notin Holders(t, m)'
    BY <2>1, <1>3, <1>4, <1>5
  <2>3. \A i : i # n => (i \in Holders(t, m)' <=> i \in Holders(t, m))
    BY <2>1, <1>5 DEF Holders
  <2> QED
    BY <2>2, <2>3
<1>15. \A m \in Messages : /\ IsFiniteSet(Holders(t, m)) /\ Cardinality(Holders(t, m)) \in Nat
                           /\ Cardinality(Holders(t, m)') \in Nat
                           /\ Cardinality(Holders(t, m)') <= Cardinality(Holders(t, m))
                           /\ n \in Holders(t, m) =>
                                Cardinality(Holders(t, m)') = Cardinality(Holders(t, m)) - 1
                           /\ refs[m] \in Int
  <2> TAKE m \in Messages
  <2>1. IsFiniteSet(Holders(t, m)) /\ Cardinality(Holders(t, m)) \in Nat /\ refs[m] \in Int
    BY <1>1, HoldersFinite DEF MessageTypeOK
  <2>2. Holders(t, m)' = Holders(t, m) \ {n}
    BY <1>14
  <2>3. /\ IsFiniteSet(Holders(t, m) \ {n})
        /\ Cardinality(Holders(t, m) \ {n}) =
             IF n \in Holders(t, m) THEN Cardinality(Holders(t, m)) - 1
             ELSE Cardinality(Holders(t, m))
    BY <2>1, FS_RemoveElement, Zenon
  <2>4. Cardinality(Holders(t, m) \ {n}) \in Nat
    BY <2>3, FS_CardinalityType
  <2> QED
    BY <2>1, <2>2, <2>3, <2>4
<1>16. Held(t)'
  <2> SUFFICES ASSUME NEW m \in queue[t], ~committed[m]
               PROVE  Cardinality(Holders(t, m)') <= refs[m]
    BY DEF Held
  <2>1. m \in Messages
    BY <1>3
  <2>2. Cardinality(Holders(t, m)) <= refs[m]
    BY <1>1 DEF Sound, Held
  <2> QED
    BY <2>1, <2>2, <1>15
<1>17. U[n].st = "next" => from = U[n].pos /\ from \in queue[t] /\ from # End /\ from \in Nat
  BY <1>2, <1>3 DEF Scans, HasUse
<1>18. \A m \in queue[t] : m \in U[n].seen \/ committed[m]
  <2> TAKE m \in queue[t]
  <2>1. CASE U[n].st = "first"
    <3>1. from = End
      BY <2>1, <1>2, <1>3 DEF Scans, HasUse
    <3> QED
      BY <3>1 DEF Reaches
  <2>2. CASE U[n].st = "next"
    <3>1. m > from => committed[m]
      BY <2>2, <1>17 DEF Reaches
    <3>2. m <= from => m \in U[n].seen \/ committed[m]
      BY <2>2, <1>1, <1>2, <1>17 DEF Sound, Complete
    <3> QED
      BY <2>2, <3>1, <3>2, <1>3, <1>17
  <2> QED
    BY <2>1, <2>2, <1>4
<1>19. Blocked(t)'
  <2>1. ASSUME U[n].st = "next", NEW m \in queue[t], ~committed[m], \A k \in queue[t] : k <= m
        PROVE  Cardinality(Holders(t, m)') < refs[m]
    <3>1. from = m
      <4>1. ~(m > from)
        BY <2>1, <1>17 DEF Reaches
      <4>2. from <= m
        BY <2>1, <1>17
      <4> QED
        BY <4>1, <4>2, <2>1, <1>3, <1>17
    <3>2. n \in Holders(t, m)
      BY <3>1, <2>1, <1>2, <1>17 DEF Holders
    <3>3. Cardinality(Holders(t, m)) <= refs[m]
      BY <2>1, <1>1 DEF Sound, Held
    <3> QED
      BY <3>2, <3>3, <1>3, <1>15
  <2>2. U[n].st = "next" => queue[t] # {}
    BY <1>17
  <2>3. uses'[t][Depth(t)'] = new
    BY <1>5, <1>7
  <2>4. Examined(t, queue[t])'
    BY <2>1, <2>2, <2>3, <1>4, <1>6, <1>18 DEF Examined
  <2>5. queue[t]' = queue[t]
    OBVIOUS
  <2> QED
    BY <2>4, <2>5 DEF Blocked
<1>20. Valid(t)'
  BY <1>1, <1>5, <1>8 DEF Sound, Valid
<1>21. Complete(t)'
  BY <1>1, <1>4, <1>5 DEF Sound, Complete
<1>22. \A s \in Receivers \ {t} : Sound(s)'
  BY <1>5, <1>6, SameGoal, OthersSound
<1> QED
  BY <1>9, <1>10, <1>11, <1>12, <1>13, <1>16, <1>19, <1>20, <1>21, <1>22 DEF Receiving, Sound

\* The receive comes to a message: it gets a reference to it, and gives up the
\* one it had.
LEMMA ScanMoves ==
    ASSUME MessageAssumption, Receiving, NEW t \in Receivers, NEW from, Scans(t, from),
           mstatus[t] # "restart_time", NEW p \in 1 .. End, p # End, Reaches(t, from, p),
           SetTop(t, [Top(t) EXCEPT !.pos = p, !.seen = @ \union {p},
                                    !.st = IF kind[p] \in Top(t).pattern THEN "match" ELSE "next"]),
           refs' = [r \in Messages |-> refs[r] + (IF r = p THEN 1 ELSE 0)
                                               - (IF r = from THEN 1 ELSE 0)],
           mstatus' = [mstatus EXCEPT ![t] = "running"],
           UNCHANGED <<sent, kind, committed, queue, size, goal, taken>>
    PROVE  Receiving'
<1> DEFINE U == uses[t]
           n == Len(U)
           new == [Top(t) EXCEPT !.pos = p, !.seen = @ \union {p},
                                 !.st = IF kind[p] \in Top(t).pattern THEN "match" ELSE "next"]
<1>1. MessageTypeOK /\ QueuesInv /\ GoalInv /\ Sound(t)
  BY DEF Receiving
<1>2. /\ U # <<>> /\ n \in DOMAIN U /\ Top(t) \in Use /\ Top(t).st \in {"first", "next"}
      /\ (Interrupted(t) => Depth(t) < n /\ mstatus[t] = "running"
                            /\ Top(t).timeout = "poll" /\ Top(t).mode = "peek")
      /\ (~Interrupted(t) => goal = NoGoal /\ Depth(t) = n /\ StatusOf(t) = mstatus[t])
      /\ mstatus[t] \in {"running", "restart_msg"}
  BY ExecutingProperty DEF Scans
<1>3. /\ n \in Nat /\ n > 0 /\ DOMAIN U = 1 .. n /\ U[n] = Top(t) /\ Depth(t) \in Nat
      /\ queue[t] \in SUBSET Messages /\ queue[t] \in SUBSET (1 .. sent)
      /\ queue[t] \in SUBSET Nat /\ End \notin Messages /\ sent \in Nat
  BY <1>1, <1>2, ThreadTypes DEF Top
<1>4. p \in queue[t] /\ p \in Messages /\ ~committed[p] /\ p <= sent /\ p \in Nat
  BY <1>3 DEF Reaches
<1>5. /\ new \in Use /\ new.mode = U[n].mode /\ new.pattern = U[n].pattern
      /\ new.timeout = U[n].timeout /\ new.pos = p /\ new.seen = U[n].seen \union {p}
      /\ new.st = IF kind[p] \in U[n].pattern THEN "match" ELSE "next"
  BY <1>2, <1>3, <1>4 DEF Use
<1> HIDE DEF new
<1>6. /\ uses' \in [Receivers -> Seq(Use)] /\ \A s \in Receivers \ {t} : uses'[s] = uses[s]
      /\ Len(uses'[t]) = n /\ DOMAIN uses'[t] = DOMAIN U
      /\ \A i \in DOMAIN U : i # n => uses'[t][i] = U[i]
      /\ uses'[t][n] = new
  BY <1>1, <1>2, <1>5, TopSet DEF new
<1> HIDE DEF n
<1>7. /\ mstatus'[t] = "running" /\ \A s \in Receivers \ {t} : mstatus'[s] = mstatus[s]
      /\ mstatus' \in [Receivers -> Statuses]
  BY <1>1 DEF MessageTypeOK, Statuses
<1>8. \/ /\ Interrupted(t) /\ StatusOf(t)' = StatusOf(t) /\ Depth(t)' = Depth(t)
         /\ Depth(t) # n
      \/ /\ ~Interrupted(t) /\ StatusOf(t)' = "running" /\ Depth(t)' = n /\ Depth(t) = n
         /\ StatusOf(t) \in {"running", "restart_msg"}
  BY <1>2, <1>3, <1>6, <1>7, SameGoal
<1>9. \A i : (Stalled(t, i)' <=> Stalled(t, i)) /\ ~Stalled(t, n)
  BY <1>8, StalledProperty DEF Stalled, StatusOf, Depth, Interrupted
<1>10. U[n].st = "next" => from = U[n].pos /\ from \in queue[t] /\ from # End /\ from \in Nat
                           /\ from # p /\ from \in Messages
  BY <1>2, <1>3, <1>4 DEF Scans, HasUse, Reaches
<1>11. U[n].st = "first" => from = End /\ from \notin Messages
  BY <1>2, <1>3 DEF Scans, HasUse
<1>12. ASSUME NEW r \in Messages
       PROVE  /\ refs[r] \in Int /\ refs'[r] \in Int
              /\ r = p /\ r # from => refs'[r] = refs[r] + 1
              /\ r # p /\ r # from => refs'[r] = refs[r]
              /\ r = from /\ r # p => refs'[r] = refs[r] - 1
  <2>1. refs[r] \in Int
    BY <1>1 DEF MessageTypeOK
  <2>2. refs'[r] = refs[r] + (IF r = p THEN 1 ELSE 0) - (IF r = from THEN 1 ELSE 0)
    OBVIOUS
  <2> QED
    BY <2>1, <2>2
<1>13. refs' \in [Messages -> Int]
  BY <1>1 DEF MessageTypeOK
<1>14. MessageTypeOK'
  BY <1>1, <1>6, <1>7, <1>13 DEF MessageTypeOK
<1>15. QueuesInv'
  <2>1. \A m \in Messages : m > sent => refs'[m] = 0
    <3> TAKE m \in Messages
    <3> HAVE m > sent
    <3>1. m # p /\ m # from
      BY <1>2, <1>3, <1>4, <1>10, <1>11
    <3> QED
      BY <3>1, <1>1, <1>12 DEF QueuesInv
  <2> QED
    BY <2>1, <1>1, <1>2, <1>6, <1>7 DEF QueuesInv
<1>16. GoalInv'
  <2>1. CASE goal = NoGoal
    BY <2>1 DEF GoalInv
  <2>2. CASE goal # NoGoal
    <3>1. t = Console /\ Interrupted(t)
      BY <2>2 DEF Scans, Executes, Interrupted
    <3>2. \A i \in DOMAIN U : uses'[t][i].timeout = U[i].timeout /\ uses'[t][i].mode = U[i].mode
      BY <1>5, <1>6
    <3> QED
      BY <2>2, <3>1, <3>2, <1>1, <1>6, <1>7 DEF GoalInv, n
  <2> QED
    BY <2>1, <2>2
<1>17. Stack(t)'
  <2>1. CASE Interrupted(t)
    <3>1. /\ StatusOf(t)' \in {"blocked", "restart_msg", "restart_time"} =>
                Depth(t)' > 0 /\ uses'[t][Depth(t)'].st # "match"
      <4>1. StatusOf(t) \in {"blocked", "restart_msg", "restart_time"} =>
              Depth(t) \in DOMAIN U /\ U[Depth(t)].st # "match" /\ Depth(t) > 0
        BY <2>1, <1>1, <1>2, <1>3 DEF Sound, Stack
      <4> QED
        BY <4>1, <2>1, <1>6, <1>8
    <3>2. \A i \in DOMAIN uses'[t] : i # Depth(t)' /\ i # n =>
            uses'[t][i].st = "match" /\ uses'[t][i].mode = "peek"
      BY <2>1, <1>1, <1>6, <1>8 DEF Sound, Stack, n
    <3> QED
      BY <3>1, <3>2, <1>6 DEF Stack
  <2>2. CASE ~Interrupted(t)
    <3>1. \A i \in DOMAIN uses'[t] : i # n =>
            uses'[t][i].st = "match" /\ uses'[t][i].mode = "peek"
      BY <2>2, <1>1, <1>6, <1>8 DEF Sound, Stack, n
    <3> QED
      BY <2>2, <3>1, <1>6, <1>8 DEF Stack
  <2> QED
    BY <2>1, <2>2
<1>18. Knows(t)'
  <2> SUFFICES ASSUME NEW i \in DOMAIN U
               PROVE  LET u == uses'[t][i] IN
                      /\ \A m \in u.seen : m <= sent
                      /\ u.st = "match" => kind[u.pos] \in u.pattern
                      /\ u.mode = "recv" =>
                          \A m \in u.seen : kind[m] \in u.pattern => u.st = "match" /\ m = u.pos
                      /\ u.mode = "recv" /\ u.st = "match" => ~committed[u.pos]
                      /\ Stalled(t, i)' => u.pos = End
    BY <1>6 DEF Knows
  <2>1. CASE i = n
    <3>1. /\ \A m \in U[n].seen : m <= sent
          /\ U[n].mode = "recv" => \A m \in U[n].seen : kind[m] \notin U[n].pattern
      BY <1>1, <1>2, <1>3 DEF Sound, Knows
    <3> QED
      BY <2>1, <3>1, <1>4, <1>5, <1>6, <1>9
  <2>2. CASE i # n
    BY <2>2, <1>1, <1>6, <1>9 DEF Sound, Knows
  <2> QED
    BY <2>1, <2>2
\* A message gets a reference for every receive that comes to it, and loses none
\* but that of the receive that leaves it.
<1>19. ASSUME NEW m \in Messages
       PROVE  /\ Cardinality(Holders(t, m)) \in Nat /\ Cardinality(Holders(t, m)') \in Nat
              /\ Cardinality(Holders(t, m)') + refs[m] <= Cardinality(Holders(t, m)) + refs'[m]
  <2>1. IsFiniteSet(Holders(t, m)) /\ Cardinality(Holders(t, m)) \in Nat
    BY <1>1, HoldersFinite
  <2>2. Holders(t, m)' = {i \in DOMAIN U : uses'[t][i].st # "first" /\ uses'[t][i].pos = m}
    BY <1>6 DEF Holders
  <2>3. \A i : i # n => (i \in Holders(t, m)' <=> i \in Holders(t, m))
    BY <2>2, <1>6 DEF Holders
  <2>4. n \in Holders(t, m)' => m = p
    BY <2>2, <1>5, <1>6
  <2>5. CASE m = p
    <3>1. Holders(t, m)' \in SUBSET (Holders(t, m) \union {n})
      BY <2>3
    <3>2. /\ IsFiniteSet(Holders(t, m) \union {n})
          /\ Cardinality(Holders(t, m) \union {n}) \in Nat
          /\ Cardinality(Holders(t, m) \union {n}) <= Cardinality(Holders(t, m)) + 1
      BY <2>1, OneMore
    <3>3. Cardinality(Holders(t, m)') <= Cardinality(Holders(t, m) \union {n})
          /\ Cardinality(Holders(t, m)') \in Nat
      BY <3>1, <3>2, FS_Subset, FS_CardinalityType
    <3>4. refs'[m] = refs[m] + 1 /\ refs[m] \in Int
      BY <2>5, <1>2, <1>3, <1>10, <1>11, <1>12
    <3> QED
      BY <2>1, <3>2, <3>3, <3>4
  <2>6. CASE m # p
    <3>1. Holders(t, m)' = Holders(t, m) \ {n}
      BY <2>3, <2>4, <2>6
    <3>2. /\ IsFiniteSet(Holders(t, m) \ {n})
          /\ Cardinality(Holders(t, m) \ {n}) =
                IF n \in Holders(t, m) THEN Cardinality(Holders(t, m)) - 1
                ELSE Cardinality(Holders(t, m))
      BY <2>1, FS_RemoveElement, Zenon
    <3>3. Cardinality(Holders(t, m) \ {n}) \in Nat
      BY <3>2, FS_CardinalityType
    <3>4. CASE m = from
      <4>1. n \in Holders(t, m)
        BY <3>4, <1>2, <1>3, <1>10, <1>11 DEF Holders
      <4>2. refs'[m] = refs[m] - 1 /\ refs[m] \in Int
        BY <2>6, <3>4, <1>12
      <4> QED
        BY <4>1, <4>2, <2>1, <3>1, <3>2, <3>3
    <3>5. CASE m # from
      <4>1. refs'[m] = refs[m] /\ refs[m] \in Int
        BY <2>6, <3>5, <1>12
      <4> QED
        BY <4>1, <2>1, <3>1, <3>2, <3>3
    <3> QED
      BY <3>4, <3>5
  <2> QED
    BY <2>5, <2>6
<1>20. Held(t)'
  <2> SUFFICES ASSUME NEW m \in queue[t], ~committed[m]
               PROVE  Cardinality(Holders(t, m)') <= refs'[m]
    BY DEF Held
  <2>1. m \in Messages /\ refs[m] \in Int /\ refs'[m] \in Int
    BY <1>3, <1>12
  <2>2. Cardinality(Holders(t, m)) <= refs[m]
    BY <1>1 DEF Sound, Held
  <2> QED
    BY <2>1, <2>2, <1>19
<1>21. Blocked(t)'
  <2> SUFFICES ASSUME StatusOf(t)' = "blocked"
               PROVE  \E old \in SUBSET queue'[t] : Examined(t, old)'
    BY DEF Blocked
  <2>1. /\ Interrupted(t) /\ StatusOf(t) = "blocked" /\ Depth(t)' = Depth(t) /\ Depth(t) # n
        /\ Depth(t) \in DOMAIN U
    BY <1>1, <1>2, <1>3, <1>8 DEF Sound, Stack
  <2>2. PICK old \in SUBSET queue[t] : Examined(t, old)
    BY <2>1, <1>1 DEF Sound, Blocked
  <2>3. uses'[t][Depth(t)'] = U[Depth(t)]
    BY <2>1, <1>6
  <2>4. ASSUME U[Depth(t)].st = "next", NEW m \in old, ~committed[m], \A k \in old : k <= m
        PROVE  Cardinality(Holders(t, m)') < refs'[m]
    <3>1. Cardinality(Holders(t, m)) < refs[m]
      BY <2>2, <2>4 DEF Examined
    <3>2. m \in Messages /\ refs[m] \in Int /\ refs'[m] \in Int
      BY <1>3, <1>12
    <3> QED
      BY <3>1, <3>2, <1>19
  <2>5. Examined(t, old)'
    BY <2>2, <2>3, <2>4 DEF Examined
  <2> QED
    BY <2>5
<1>22. Valid(t)'
  <2> SUFFICES ASSUME NEW i \in DOMAIN U, uses'[t][i].st # "first", ~Stalled(t, i)
               PROVE  uses'[t][i].pos \in queue[t]
    BY <1>6, <1>9 DEF Valid
  <2>1. CASE i = n
    BY <2>1, <1>4, <1>5, <1>6
  <2>2. CASE i # n
    BY <2>2, <1>1, <1>6 DEF Sound, Valid
  <2> QED
    BY <2>1, <2>2
<1>23. Complete(t)'
  <2> SUFFICES ASSUME NEW i \in DOMAIN U, uses'[t][i].st # "first", uses'[t][i].pos # End,
                      NEW m \in queue[t], m <= uses'[t][i].pos
               PROVE  m \in uses'[t][i].seen \/ committed[m]
    BY <1>6 DEF Complete
  <2>1. CASE i = n
    <3>1. m <= p /\ (m \in U[n].seen \/ m = p => m \in uses'[t][i].seen) /\ m \in Nat
      BY <2>1, <1>3, <1>5, <1>6
    <3>2. CASE U[n].st = "first"
      BY <3>1, <3>2, <1>4, <1>11 DEF Reaches
    <3>3. CASE U[n].st = "next"
      <4>1. m > from /\ m < p => committed[m]
        BY <3>3, <1>10 DEF Reaches
      <4>2. m <= from => m \in U[n].seen \/ committed[m]
        BY <3>3, <1>1, <1>2, <1>10 DEF Sound, Complete
      <4> QED
        BY <3>1, <3>3, <4>1, <4>2, <1>4, <1>10
    <3> QED
      BY <3>2, <3>3, <1>2, <1>3
  <2>2. CASE i # n
    BY <2>2, <1>1, <1>6 DEF Sound, Complete
  <2> QED
    BY <2>1, <2>2
<1>24. \A s \in Receivers \ {t} : Sound(s)'
  <2>1. \A m \in Messages \ queue[t] : refs'[m] = refs[m] /\ (committed'[m] <=> committed[m])
    BY <1>2, <1>3, <1>4, <1>10, <1>11, <1>12
  <2> QED
    BY <2>1, <1>6, <1>7, SameGoal, OthersSound
<1> QED
  BY <1>14, <1>15, <1>16, <1>17, <1>18, <1>20, <1>21, <1>22, <1>23, <1>24 DEF Receiving, Sound

\* The three ends of IS_READY_MESSAGE.
LEMMA ReadyReceiving ==
    ASSUME MessageAssumption, Receiving, NEW t \in Receivers, NEW m, NEW from,
           Executes(t), HasUse(t, "first") \/ HasUse(t, "next"),
           mstatus[t] # "restart_time" =>
                /\ Scans(t, from) /\ SkipCommitted(t, m) \in 1 .. End
                /\ Reaches(t, from, SkipCommitted(t, m)),
           IsReadyMessage(t, m, from),
           UNCHANGED <<sent, kind, committed, queue, goal, taken>>
    PROVE  Receiving'
<1> DEFINE p == SkipCommitted(t, m)
<1>1. CASE /\ Pop(t)
           /\ mstatus' = [mstatus EXCEPT ![t] = "running"]
           /\ UNCHANGED <<refs, size>>
  BY <1>1, ScanFails
<1>2. CASE /\ mstatus[t] # "restart_time" /\ p = End /\ Top(t).timeout # "poll"
           /\ SetTop(t, [Top(t) EXCEPT !.pos = End])
           /\ size' = [size EXCEPT ![t] = Cardinality(queue[t])]
           /\ mstatus' = [mstatus EXCEPT ![t] = "blocked"]
           /\ UNCHANGED refs
  <2>1. Reaches(t, from, End)
    BY <1>2
  <2> QED
    BY <1>2, <2>1, ScanBlocks
<1>3. CASE /\ mstatus[t] # "restart_time" /\ p # End
           /\ SetTop(t, [Top(t) EXCEPT
                            !.pos = p, !.seen = @ \union {p},
                            !.st = IF kind[p] \in Top(t).pattern THEN "match" ELSE "next"])
           /\ refs' = [r \in Messages |-> refs[r] + (IF r = p THEN 1 ELSE 0)
                                                   - (IF r = from THEN 1 ELSE 0)]
           /\ mstatus' = [mstatus EXCEPT ![t] = "running"]
           /\ UNCHANGED size
  <2> HIDE DEF p
  <2>1. p \in 1 .. End /\ p # End /\ Reaches(t, from, p) /\ Scans(t, from)
    BY <1>3 DEF p
  <2> QED
    BY <1>3, <2>1, ScanMoves
<1> QED
  BY <1>1, <1>2, <1>3 DEF IsReadyMessage

LEMMA IpcFirstReceiving ==
    ASSUME MessageAssumption, Receiving, NEW t \in Receivers, IpcFirst(t)
    PROVE  Receiving'
<1>1. /\ Executes(t) /\ HasUse(t, "first") /\ IsReadyMessage(t, Begin(t), End)
      /\ UNCHANGED <<sent, kind, committed, queue, goal, taken>>
  BY DEF IpcFirst
<1>2. SkipCommitted(t, Begin(t)) \in 1 .. End /\ Reaches(t, End, SkipCommitted(t, Begin(t)))
  BY FirstReaches DEF Receiving
<1>3. Scans(t, End)
  BY <1>1 DEF Scans
<1> QED
  BY <1>1, <1>2, <1>3, ReadyReceiving

LEMMA IpcNextReceiving ==
    ASSUME MessageAssumption, Receiving, NEW t \in Receivers, IpcNext(t)
    PROVE  Receiving'
<1> DEFINE from == Top(t).pos
<1>1. /\ Executes(t) /\ HasUse(t, "next") /\ IsReadyMessage(t, Step(t, from), from)
      /\ UNCHANGED <<sent, kind, committed, queue, goal, taken>>
  BY DEF IpcNext
<1>2. ASSUME mstatus[t] # "restart_time"
      PROVE  /\ Scans(t, from) /\ SkipCommitted(t, Step(t, from)) \in 1 .. End
             /\ Reaches(t, from, SkipCommitted(t, Step(t, from)))
  <2>1. /\ Len(uses[t]) \in DOMAIN uses[t] /\ Top(t).st = "next"
        /\ (Interrupted(t) => Depth(t) < Len(uses[t]))
        /\ (~Interrupted(t) => StatusOf(t) = mstatus[t])
        /\ mstatus[t] \in {"running", "restart_msg", "restart_time"}
    BY <1>1, ExecutingProperty
  <2>2. Len(uses[t]) \in Nat /\ Depth(t) \in Nat
    BY ThreadTypes DEF Receiving
  <2>3. ~Stalled(t, Len(uses[t]))
    BY <1>2, <2>1, <2>2, StalledProperty
  <2>4. from \in queue[t]
    BY <2>1, <2>3 DEF Receiving, Sound, Valid, Top
  <2> QED
    BY <1>1, <2>4, NextReaches DEF Receiving, Scans
<1> HIDE DEF from
<1> QED
  BY <1>1, <1>2, ReadyReceiving

-----------------------------------------------------------------------------
(* The theorems.                                                           *)

LEMMA NextReceiving ==
    ASSUME MessageAssumption, GoalsOnlyPeek, Receiving, [MessageNext]_messageVars
    PROVE  Receiving'
<1>1. CASE UNCHANGED messageVars
  <2>1. \A s \in Receivers : /\ StatusOf(s)' = StatusOf(s) /\ Depth(s)' = Depth(s)
                             /\ uses'[s] = uses[s] /\ queue'[s] = queue[s] /\ size'[s] = size[s]
    BY <1>1 DEF messageVars, StatusOf, Depth, Interrupted
  <2>2. MessageTypeOK' /\ QueuesInv' /\ GoalInv'
    BY <1>1 DEF messageVars, Receiving, MessageTypeOK, QueuesInv, GoalInv
  <2>3. UNCHANGED <<sent, kind, refs, committed>> /\ sent \in Nat /\ sent <= sent
    BY <1>1 DEF messageVars, Receiving, MessageTypeOK
  <2>4. \A s \in Receivers : Sound(s)'
    BY <2>1, <2>3, OtherSound
  <2> QED
    BY <2>2, <2>4 DEF Receiving
<1>2. ASSUME NEW k \in MessageKinds, Broadcast(k)
      PROVE  Receiving'
  BY <1>2, BroadcastReceiving
<1>3. ASSUME NEW t \in Receivers, NEW k \in MessageKinds, Send(t, k)
      PROVE  Receiving'
  BY <1>3, SendReceiving
<1>4. ASSUME NEW t \in Receivers, NEW mode \in AllModes, NEW pattern \in Patterns,
             NEW timeout \in AllTimeouts, MakeIterator(t, mode, pattern, timeout)
      PROVE  Receiving'
  BY <1>4, MakeIteratorReceiving
<1>5. ASSUME NEW t \in Receivers,
             IpcFirst(t) \/ IpcNext(t) \/ IpcCommit(t) \/ FailBack(t) \/ CutPeek(t)
             \/ Unblock(t) \/ Throw(t) \/ ThreadEnds(t)
      PROVE  Receiving'
  BY <1>5, IpcFirstReceiving, IpcNextReceiving, IpcCommitReceiving, FailBackReceiving,
     CutPeekReceiving, UnblockReceiving, ThrowReceiving, ThreadEndsReceiving
<1> QED
  BY <1>1, <1>2, <1>3, <1>4, <1>5, GoalStartReceiving, GoalEndReceiving DEF MessageNext

LEMMA AlwaysReceiving ==
    ASSUME MessageAssumption, GoalsOnlyPeek
    PROVE  MessageSpec => []Receiving
<1>1. MessageInit => Receiving
  BY InitReceiving
<1>2. Receiving /\ [MessageNext]_messageVars => Receiving'
  BY NextReceiving
<1> QED
  BY <1>1, <1>2, PTL DEF MessageSpec

\* Receives come to every message once, wherever they block and are tried again
\* (ipc_escapes.cc, block.cc): no iterator that is followed was deleted with its
\* message, no receive passes over a message, a blocked thread finds what has
\* come since from the size of its queue, and no message is taken twice.
THEOREM ReceivesAreSound ==
    ASSUME GoalsOnlyPeek
    PROVE  MessageSpec => []ReceivesSound
<1>1. Receiving => ReceivesSound
  BY MessageAssumption, ReceivingIsSound
<1>2. MessageSpec => []Receiving
  BY MessageAssumption, AlwaysReceiving
<1> QED
  BY <1>1, <1>2, PTL

-----------------------------------------------------------------------------
(* The refinement of mailboxes.                                            *)

Live == {t \in Receivers : mstatus[t] # "dead"}

\* The Cardinality that the instance of Mailbox brings is that of this module.
LEMMA SameCardinality ==
    ASSUME NEW S
    PROVE  Mail!Cardinality(S) = Cardinality(S)
BY DEF Mail!Cardinality, Cardinality

LEMMA MailInit == MessageInit => Mail!Init
BY DEF MessageInit, Mail!Init, Box

\* What changes no queue and ends no thread is not seen from outside.
LEMMA MailStutters ==
    ASSUME UNCHANGED <<sent, kind, committed, queue>>, Live' = Live
    PROVE  UNCHANGED Mail!vars
<1>1. Box' = Box
  BY DEF Box
<1> QED
  BY <1>1 DEF Mail!vars, Live

LEMMA SendPosts ==
    ASSUME MessageAssumption, Receiving, NEW t \in Receivers, NEW k \in MessageKinds, Send(t, k)
    PROVE  Mail!Post({t}, k)
<1>1. MessageTypeOK /\ QueuesInv
  BY DEF Receiving
<1>2. /\ sent < MaxMessages /\ mstatus[t] # "dead" /\ sent' = sent + 1
      /\ kind' = [kind EXCEPT ![sent + 1] = k]
      /\ queue' = [queue EXCEPT ![t] = @ \union {sent + 1}]
      /\ UNCHANGED <<committed, mstatus>>
  BY DEF Send
<1>3. sent \in Nat /\ MaxMessages \in Nat /\ sent + 1 \in Messages /\ sent + 1 > sent
      /\ \A m : m \in sent + 1 .. sent' <=> m = sent + 1
  BY <1>1, <1>2 DEF MessageTypeOK, MessageAssumption, Messages
<1>4. Cardinality({t}) = 1
  BY FS_Singleton
<1>5. \A m \in DOMAIN kind : kind'[m] = IF m \in sent + 1 .. sent' THEN k ELSE kind[m]
  BY <1>1, <1>2, <1>3 DEF MessageTypeOK
<1>6. ~committed[sent + 1]
  BY <1>1, <1>3 DEF QueuesInv
<1> DEFINE number == [s \in {t} |-> sent + 1]
<1>7. number \in [{t} -> sent + 1 .. sent']
  BY <1>3
<1>8. \A r, s \in {t} : r # s => number[r] # number[s]
  OBVIOUS
<1>9. Box' = [s \in Receivers |-> IF s \in {t} THEN Box[s] \union {number[s]} ELSE Box[s]]
  <2>1. Box' = [s \in Receivers |-> {m \in queue'[s] : ~committed[m]}]
    BY <1>2 DEF Box
  <2>2. ASSUME NEW s \in Receivers
        PROVE  {m \in queue'[s] : ~committed[m]} =
                 IF s \in {t} THEN Box[s] \union {number[s]} ELSE Box[s]
    <3>1. Box[s] = {m \in queue[s] : ~committed[m]}
      BY DEF Box
    <3>2. CASE s = t
      <4>1. queue'[s] = queue[s] \union {sent + 1} /\ number[s] = sent + 1
        BY <3>2, <1>1, <1>2 DEF MessageTypeOK
      <4> HIDE DEF number
      <4> QED
        BY <4>1, <3>1, <3>2, <1>6
    <3>3. CASE s # t
      BY <3>1, <3>3, <1>1, <1>2 DEF MessageTypeOK
    <3> QED
      BY <3>2, <3>3
  <2> QED
    BY <2>1, <2>2
<1> HIDE DEF number
<1>10. {t} # {} /\ {t} \subseteq Live /\ Live' = Live
  BY <1>2 DEF Live
<1>11. \E f \in [{t} -> sent + 1 .. sent'] :
         /\ \A r, s \in {t} : r # s => f[r] # f[s]
         /\ Box' = [s \in Receivers |-> IF s \in {t} THEN Box[s] \union {f[s]} ELSE Box[s]]
  BY <1>7, <1>8, <1>9
<1>12. sent' = sent + Mail!Cardinality({t})
  BY <1>2, <1>4, SameCardinality
<1>13. /\ {t} \subseteq {s \in Receivers : mstatus[s] # "dead"}
       /\ UNCHANGED {s \in Receivers : mstatus[s] # "dead"}
  BY <1>10 DEF Live
<1> QED
  BY <1>5, <1>10, <1>11, <1>12, <1>13, Zenon DEF Mail!Post

LEMMA BroadcastPosts ==
    ASSUME MessageAssumption, Receiving, NEW k \in MessageKinds, Broadcast(k)
    PROVE  Mail!Post(Live, k)
<1> DEFINE c == Cardinality(Live)
<1>1. MessageTypeOK /\ QueuesInv
  BY DEF Receiving
<1>2. /\ Live # {} /\ sent' = sent + c /\ sent + c <= MaxMessages
      /\ kind' = [m \in Messages |-> IF m \in sent + 1 .. sent' THEN k ELSE kind[m]]
      /\ UNCHANGED <<committed, mstatus>>
  BY DEF Broadcast, Live
<1>3. PICK order \in [Live -> 1 .. c] :
        /\ \A s, t \in Live : s # t => order[s] # order[t]
        /\ queue' = [t \in Receivers |-> IF t \in Live
                                         THEN queue[t] \union {sent + order[t]} ELSE queue[t]]
  BY DEF Broadcast, Live
<1>4. Live \in SUBSET Receivers /\ Live' = Live
  BY <1>2 DEF Live
<1>5. c \in Nat
  <2>1. IsFiniteSet(Live)
    BY <1>4, FS_Subset DEF MessageAssumption
  <2> QED
    BY <2>1, FS_CardinalityType
<1> HIDE DEF c
<1>6. sent \in Nat /\ MaxMessages \in Nat
  BY <1>1 DEF MessageTypeOK, MessageAssumption
<1> DEFINE number == [t \in Live |-> sent + order[t]]
<1>7. \A t \in Live : number[t] = sent + order[t] /\ order[t] \in 1 .. c
                      /\ number[t] \in sent + 1 .. sent' /\ number[t] \in Messages
                      /\ number[t] > sent
  BY <1>2, <1>3, <1>5, <1>6 DEF Messages
<1>8. number \in [Live -> sent + 1 .. sent']
  BY <1>7
<1> HIDE DEF number
<1>9. \A s, t \in Live : s # t => number[s] # number[t]
  BY <1>3, <1>5, <1>6, <1>7
<1>10. \A m \in DOMAIN kind : kind'[m] = IF m \in sent + 1 .. sent' THEN k ELSE kind[m]
  BY <1>1, <1>2 DEF MessageTypeOK
<1>11. Box' = [t \in Receivers |-> IF t \in Live THEN Box[t] \union {number[t]} ELSE Box[t]]
  <2>1. Box' = [t \in Receivers |-> {m \in queue'[t] : ~committed[m]}]
    BY <1>2 DEF Box
  <2>2. ASSUME NEW t \in Receivers
        PROVE  {m \in queue'[t] : ~committed[m]} =
                 IF t \in Live THEN Box[t] \union {number[t]} ELSE Box[t]
    <3>1. Box[t] = {m \in queue[t] : ~committed[m]}
      BY DEF Box
    <3>2. CASE t \in Live
      <4>1. queue'[t] = queue[t] \union {number[t]} /\ ~committed[number[t]]
        BY <3>2, <1>1, <1>3, <1>7 DEF QueuesInv
      <4> QED
        BY <4>1, <3>1, <3>2
    <3>3. CASE t \notin Live
      BY <3>1, <3>3, <1>3
    <3> QED
      BY <3>2, <3>3
  <2> QED
    BY <2>1, <2>2
<1>12. \E f \in [Live -> sent + 1 .. sent'] :
         /\ \A s, t \in Live : s # t => f[s] # f[t]
         /\ Box' = [t \in Receivers |-> IF t \in Live THEN Box[t] \union {f[t]} ELSE Box[t]]
  BY <1>8, <1>9, <1>11
<1>13. sent' = sent + Mail!Cardinality(Live) /\ Live # {}
  BY <1>2, SameCardinality DEF c
<1>14. Live \subseteq {s \in Receivers : mstatus[s] # "dead"}
       /\ UNCHANGED {s \in Receivers : mstatus[s] # "dead"}
  BY <1>4 DEF Live
<1> QED
  BY <1>10, <1>12, <1>13, <1>14, Zenon DEF Mail!Post

\* The message that is committed to is the oldest of its kind: a receive goes no
\* further than the first message that its pattern fits.
LEMMA CommitTakes ==
    ASSUME MessageAssumption, Receiving, NEW t \in Receivers, IpcCommit(t)
    PROVE  Mail!Take(t, Top(t).pos)
<1> DEFINE m == Top(t).pos
           n == Len(uses[t])
<1>1. MessageTypeOK /\ QueuesInv /\ Sound(t)
  BY DEF Receiving
<1>2. /\ m \in queue[t] /\ ~committed[m] /\ m \in Messages
  BY CommitProperty
<1>3. /\ n \in DOMAIN uses[t] /\ Top(t) = uses[t][n] /\ Top(t).st = "match"
      /\ Top(t).mode = "recv" /\ m # End
  BY <1>1, <1>2, ExecutingProperty, ThreadTypes DEF IpcCommit, Top
<1>4. /\ committed' = [committed EXCEPT ![m] = TRUE]
      /\ queue' = [queue EXCEPT ![t] = IF Unreferenced(m) THEN @ \ {m} ELSE @]
      /\ UNCHANGED <<sent, kind, mstatus>>
  BY DEF IpcCommit
<1>5. m \in Box[t]
  BY <1>2 DEF Box
<1>6. ASSUME NEW k \in Box[t], kind[k] = kind[m]
      PROVE  m <= k
  <2>1. k \in queue[t] /\ ~committed[k] /\ k \in Nat /\ m \in Nat
    BY <1>1, <1>2, ThreadTypes DEF Box
  <2>2. k <= m => k \in Top(t).seen
    BY <2>1, <1>1, <1>3 DEF Sound, Complete
  <2>3. k \in Top(t).seen => k = m
    BY <1>1, <1>3, <1>6 DEF Sound, Knows
  <2> QED
    BY <2>1, <2>2, <2>3
<1> HIDE DEF m
<1>7. committed'[m] /\ \A k \in Messages \ {m} : committed'[k] = committed[k]
  BY <1>1, <1>2, <1>4 DEF MessageTypeOK
<1>8. \A s \in Receivers : /\ queue[s] \in SUBSET Messages
                           /\ s # t => m \notin queue[s] /\ queue'[s] = queue[s]
                           /\ s = t => queue'[s] = queue[s] \/ queue'[s] = queue[s] \ {m}
  BY <1>1, <1>2, <1>4, ThreadTypes DEF QueuesInv, MessageTypeOK
<1>9. Box' = [Box EXCEPT ![t] = @ \ {m}]
  <2>1. Box' = [s \in Receivers |-> {k \in queue'[s] : ~committed'[k]}]
    BY DEF Box
  <2>2. ASSUME NEW s \in Receivers
        PROVE  {k \in queue'[s] : ~committed'[k]} = IF s = t THEN Box[s] \ {m} ELSE Box[s]
    <3>1. Box[s] = {k \in queue[s] : ~committed[k]}
      BY DEF Box
    <3>2. CASE s = t
      BY <3>1, <3>2, <1>7, <1>8
    <3>3. CASE s # t
      BY <3>1, <3>3, <1>7, <1>8
    <3> QED
      BY <3>2, <3>3
  <2>3. [Box EXCEPT ![t] = @ \ {m}] = [s \in Receivers |-> IF s = t THEN Box[s] \ {m} ELSE Box[s]]
    BY DEF Box
  <2> QED
    BY <2>1, <2>2, <2>3
<1>10. Mail!Take(t, m)
  BY <1>4, <1>5, <1>6, <1>9 DEF Mail!Take
<1> QED
  BY <1>10 DEF m

LEMMA ThreadLeaves ==
    ASSUME MessageAssumption, Receiving, NEW t \in Receivers, ThreadEnds(t)
    PROVE  Mail!Leave(t)
<1>1. MessageTypeOK
  BY DEF Receiving
<1>2. /\ queue' = [queue EXCEPT ![t] = {}] /\ mstatus' = [mstatus EXCEPT ![t] = "dead"]
      /\ UNCHANGED <<sent, kind, committed>>
  BY DEF ThreadEnds
<1>3. Live' = Live \ {t}
  BY <1>1, <1>2 DEF Live, MessageTypeOK
<1>4. Box' = [Box EXCEPT ![t] = {}]
  <2>1. Box' = [s \in Receivers |-> {k \in queue'[s] : ~committed[k]}]
    BY <1>2 DEF Box
  <2>2. \A s \in Receivers : {k \in queue'[s] : ~committed[k]} = IF s = t THEN {} ELSE Box[s]
    BY <1>1, <1>2 DEF Box, MessageTypeOK
  <2>3. [Box EXCEPT ![t] = {}] = [s \in Receivers |-> IF s = t THEN {} ELSE Box[s]]
    BY DEF Box
  <2> QED
    BY <2>1, <2>2, <2>3
<1> QED
  BY <1>2, <1>3, <1>4 DEF Mail!Leave, Live

\* The other actions: none of them lets a thread end or come back.
LEMMA OthersStutter ==
    ASSUME MessageAssumption, Receiving,
           \/ UNCHANGED messageVars
           \/ GoalStart \/ GoalEnd
           \/ \E t \in Receivers :
                \/ \E mode \in AllModes, pattern \in Patterns, timeout \in AllTimeouts :
                    MakeIterator(t, mode, pattern, timeout)
                \/ IpcFirst(t) \/ IpcNext(t) \/ FailBack(t) \/ CutPeek(t)
                \/ Unblock(t) \/ Throw(t)
    PROVE  UNCHANGED Mail!vars
<1>1. MessageTypeOK /\ GoalInv /\ Console \in Receivers
  BY DEF Receiving, MessageAssumption
<1>2. CASE UNCHANGED messageVars
  BY <1>2, MailStutters DEF messageVars, Live
<1>3. CASE GoalStart
  <2>1. Live' = Live
    BY <1>1, <1>3 DEF GoalStart, Live, MessageTypeOK
  <2> QED
    BY <1>3, <2>1, MailStutters DEF GoalStart
<1>4. CASE GoalEnd
  <2>1. Live' = Live
    BY <1>1, <1>4 DEF GoalEnd, GoalInv, Live, MessageTypeOK
  <2> QED
    BY <1>4, <2>1, MailStutters DEF GoalEnd
<1>5. ASSUME NEW t \in Receivers, NEW mode \in AllModes, NEW pattern \in Patterns,
             NEW timeout \in AllTimeouts, MakeIterator(t, mode, pattern, timeout)
      PROVE  UNCHANGED Mail!vars
  BY <1>5, MailStutters DEF MakeIterator, Live
<1>6. ASSUME NEW t \in Receivers, IpcFirst(t) \/ IpcNext(t)
      PROVE  UNCHANGED Mail!vars
  <2>1. mstatus[t] # "dead" /\ UNCHANGED <<sent, kind, committed, queue>>
    BY <1>6 DEF IpcFirst, IpcNext, Executes
  <2>2. mstatus' = [mstatus EXCEPT ![t] = "running"] \/ mstatus' = [mstatus EXCEPT ![t] = "blocked"]
    BY <1>6 DEF IpcFirst, IpcNext, IsReadyMessage
  <2>3. Live' = Live
    BY <1>1, <2>1, <2>2 DEF Live, MessageTypeOK
  <2> QED
    BY <2>1, <2>3, MailStutters
<1>7. ASSUME NEW t \in Receivers, FailBack(t) \/ CutPeek(t)
      PROVE  UNCHANGED Mail!vars
  BY <1>7, MailStutters DEF FailBack, CutPeek, Live
<1>8. ASSUME NEW t \in Receivers, Unblock(t) \/ Throw(t)
      PROVE  UNCHANGED Mail!vars
  <2>1. mstatus[t] # "dead" /\ UNCHANGED <<sent, kind, committed, queue>>
    BY <1>8 DEF Unblock, Throw
  <2>2. \/ mstatus' = [mstatus EXCEPT ![t] = "running"]
        \/ mstatus' = [mstatus EXCEPT ![t] = "restart_msg"]
        \/ mstatus' = [mstatus EXCEPT ![t] = "restart_time"]
    BY <1>8 DEF Unblock, Throw
  <2>3. Live' = Live
    BY <1>1, <2>1, <2>2 DEF Live, MessageTypeOK
  <2> QED
    BY <2>1, <2>3, MailStutters
<1> QED
  BY <1>2, <1>3, <1>4, <1>5, <1>6, <1>7, <1>8

LEMMA MailNext ==
    ASSUME MessageAssumption, Receiving, [MessageNext]_messageVars
    PROVE  Mail!Next \/ UNCHANGED Mail!vars
<1>1. ASSUME NEW k \in MessageKinds, Broadcast(k)
      PROVE  Mail!Next
  BY <1>1, BroadcastPosts DEF Mail!Next, Live
<1>2. ASSUME NEW t \in Receivers, NEW k \in MessageKinds, Send(t, k)
      PROVE  Mail!Next
  BY <1>2, SendPosts DEF Mail!Next
<1>3. ASSUME NEW t \in Receivers, IpcCommit(t)
      PROVE  Mail!Next
  <2>1. Top(t).pos \in Box[t]
    BY <1>3, CommitTakes DEF Mail!Take
  <2> QED
    BY <1>3, <2>1, CommitTakes DEF Mail!Next
<1>4. ASSUME NEW t \in Receivers, ThreadEnds(t)
      PROVE  Mail!Next
  BY <1>4, ThreadLeaves DEF Mail!Next
<1> QED
  BY <1>1, <1>2, <1>3, <1>4, OthersStutter DEF MessageNext

\* From outside a thread has a mailbox (Mailbox.tla): what is sent to it waits
\* there until a receive takes it, the oldest of its kind first and once, or the
\* thread exits, whatever receives of the thread are under way or blocked.
THEOREM QueuesAreMailboxes ==
    ASSUME GoalsOnlyPeek
    PROVE  MessageSpec => MailboxSpec
<1>1. MessageInit => Mail!Init
  BY MailInit
<1>2. Receiving /\ [MessageNext]_messageVars => [Mail!Next]_Mail!vars
  BY MessageAssumption, MailNext
<1>3. MessageSpec => []Receiving
  BY MessageAssumption, AlwaysReceiving
<1> QED
  BY <1>1, <1>2, <1>3, PTL DEF MessageSpec, MailboxSpec, Mail!Spec
=============================================================================
