-------------------------- MODULE SchedulerProofs --------------------------
(***************************************************************************)
(* Proofs about Scheduler, for any number of threads, any size of the      *)
(* thread table and any choice of operations: first what holds of every    *)
(* program, then what holds if threads are deleted by threads only, if     *)
(* atomic goals are used by threads only, and if timer goals and signal    *)
(* handlers do not block.  Each part names what it assumes of a program.   *)
(***************************************************************************)
EXTENDS Scheduler, SequenceTheorems, FiniteSetTheorems, WellFoundedInduction, TLAPS

(***************************************************************************)
(* The run queue.                                                          *)
(***************************************************************************)

\* Every set of naturals has a least element.
LEMMA LeastElement ==
    ASSUME NEW S \in SUBSET Nat, S # {}
    PROVE  \E m \in S : \A n \in S : ~(n < m)
<1>1. \E m \in S : \A n \in S : ~(<<n, m>> \in OpToRel(<, Nat))
  BY NatLessThanWellFounded, WFMin
<1> QED
  BY <1>1 DEF OpToRel

\* Node(t) is the first position of t.
LEMMA NodeProperty ==
    ASSUME run_queue \in Seq(Threads), NEW t \in Queued
    PROVE  /\ Node(t) \in 1 .. Len(run_queue)
           /\ run_queue[Node(t)] = t
<1> DEFINE S == {i \in DOMAIN run_queue : run_queue[i] = t}
<1>1. DOMAIN run_queue = 1 .. Len(run_queue) /\ Len(run_queue) \in Nat
  OBVIOUS
<1>2. S # {} /\ S \in SUBSET Nat
  BY <1>1 DEF Queued
<1>3. PICK m \in S : \A n \in S : ~(n < m)
  BY <1>2, LeastElement
<1>4. \A j \in 1 .. m - 1 : run_queue[j] # t
  BY <1>1, <1>3
<1> QED
  BY <1>1, <1>3, <1>4 DEF Node

\* Erase(t) takes the first node of t out and moves those behind it.
LEMMA EraseElements ==
    ASSUME run_queue \in Seq(Threads), NEW t \in Queued
    PROVE  /\ Erase(t) \in Seq(Threads) /\ Len(Erase(t)) = Len(run_queue) - 1
           /\ \A i \in 1 .. Len(run_queue) - 1 :
                 Erase(t)[i] = IF i < Node(t) THEN run_queue[i] ELSE run_queue[i + 1]
<1> DEFINE n == Node(t)
           l == Len(run_queue)
           front == SubSeq(run_queue, 1, n - 1)
           rear == SubSeq(run_queue, n + 1, l)
<1>1. n \in 1 .. l /\ run_queue[n] = t /\ l \in Nat /\ DOMAIN run_queue = 1 .. l
  BY NodeProperty
<1>2. \A i \in 1 .. l : run_queue[i] \in Threads
  OBVIOUS
<1>3. /\ front \in Seq(Threads) /\ Len(front) = n - 1
      /\ \A i \in 1 .. n - 1 : front[i] = run_queue[i]
  <2>1. \A i \in 1 .. n - 1 : run_queue[i] \in Threads
    BY <1>1, <1>2
  <2> QED
    BY <1>1, <2>1, SubSeqProperties
<1>4. /\ rear \in Seq(Threads) /\ Len(rear) = l - n
      /\ \A i \in 1 .. l - n : rear[i] = run_queue[n + i]
  <2>1. \A i \in n + 1 .. l : run_queue[i] \in Threads
    BY <1>1, <1>2
  <2>2. /\ rear \in Seq(Threads)
        /\ Len(rear) = IF n + 1 <= l THEN l - (n + 1) + 1 ELSE 0
        /\ \A i \in 1 .. l - (n + 1) + 1 : rear[i] = run_queue[(n + 1) + i - 1]
    BY <1>1, <2>1, SubSeqProperties
  <2> QED
    BY <1>1, <2>2
<1>5. Erase(t) = front \o rear
  BY DEF Erase
<1>6. /\ Erase(t) \in Seq(Threads) /\ Len(Erase(t)) = l - 1
      /\ \A i \in 1 .. l - 1 : Erase(t)[i] = IF i < n THEN run_queue[i] ELSE run_queue[i + 1]
  <2> HIDE DEF n, front, rear
  <2>1. /\ front \o rear \in Seq(Threads)
        /\ Len(front \o rear) = Len(front) + Len(rear)
        /\ \A i \in 1 .. Len(front) + Len(rear) :
             (front \o rear)[i] = IF i <= Len(front) THEN front[i] ELSE rear[i - Len(front)]
    BY <1>3, <1>4, ConcatProperties
  <2> HIDE DEF l
  <2>2. Len(front) + Len(rear) = l - 1
    BY <1>1, <1>3, <1>4
  <2>3. ASSUME NEW i \in 1 .. l - 1
        PROVE  (front \o rear)[i] = IF i < n THEN run_queue[i] ELSE run_queue[i + 1]
    <3>1. CASE i < n
      <4>1. i \in 1 .. n - 1 /\ i <= Len(front)
        BY <3>1, <1>1, <1>3
      <4> QED
        BY <4>1, <3>1, <2>1, <2>2, <1>3
    <3>2. CASE i >= n
      <4>1. /\ i - (n - 1) \in 1 .. l - n /\ n + (i - (n - 1)) = i + 1
            /\ ~(i <= Len(front)) /\ ~(i < n)
        BY <3>2, <1>1, <1>3
      <4>2. (front \o rear)[i] = rear[i - Len(front)]
        BY <4>1, <2>1, <2>2
      <4>3. rear[i - (n - 1)] = run_queue[n + (i - (n - 1))]
        BY <4>1, <1>4
      <4>4. (front \o rear)[i] = run_queue[i + 1]
        BY <4>1, <4>2, <4>3, <1>3
      <4> QED
        BY <4>1, <4>4
    <3>3. n \in Int /\ i \in Int
      BY <1>1
    <3>4. i < n \/ i >= n
      BY <3>3
    <3> QED
      BY <3>1, <3>2, <3>4
  <2> QED
    BY <2>1, <2>2, <2>3, <1>5
<1> QED
  BY <1>6

\* Erase(t) takes one node of t out: every other thread stays, and so does the
\* thread of the next node.
LEMMA EraseProperty ==
    ASSUME run_queue \in Seq(Threads), NEW t \in Queued
    PROVE  /\ Erase(t) \in Seq(Threads)
           /\ \A u \in Queued \ {t} : \E i \in DOMAIN Erase(t) : Erase(t)[i] = u
           /\ After(t) # NULL => \E i \in DOMAIN Erase(t) : Erase(t)[i] = After(t)
           /\ After(t) # NULL => After(t) \in Queued
<1> DEFINE n == Node(t)
           l == Len(run_queue)
<1>1. n \in 1 .. l /\ run_queue[n] = t /\ l \in Nat /\ DOMAIN run_queue = 1 .. l
  BY NodeProperty
<1>2. /\ Erase(t) \in Seq(Threads) /\ Len(Erase(t)) = l - 1
      /\ \A i \in 1 .. l - 1 : Erase(t)[i] = IF i < n THEN run_queue[i] ELSE run_queue[i + 1]
  BY EraseElements
<1>3. DOMAIN Erase(t) = 1 .. l - 1
  BY <1>2
<1>4. ASSUME NEW j \in 1 .. l, j # n
      PROVE  \E i \in DOMAIN Erase(t) : Erase(t)[i] = run_queue[j]
  <2>1. CASE j < n
    BY <2>1, <1>1, <1>2, <1>3
  <2>2. CASE j > n
    <3>1. j - 1 \in 1 .. l - 1 /\ ~(j - 1 < n) /\ (j - 1) + 1 = j
      BY <2>2, <1>1
    <3> QED
      BY <3>1, <1>2, <1>3
  <2> QED
    BY <1>1, <1>4, <2>1, <2>2
<1>5. \A u \in Queued \ {t} : \E i \in DOMAIN Erase(t) : Erase(t)[i] = u
  BY <1>1, <1>4 DEF Queued
<1>6. After(t) # NULL => n + 1 \in 1 .. l /\ After(t) = run_queue[n + 1]
  BY <1>1 DEF After
<1> QED
  BY <1>1, <1>2, <1>4, <1>5, <1>6 DEF Queued

\* insertThread(p, t) puts t in front of the first node of p.
LEMMA InsertElements ==
    ASSUME run_queue \in Seq(Threads), NEW t \in Threads, NEW p \in Queued
    PROVE  /\ insertThread(p, t) \in Seq(Threads)
           /\ Len(insertThread(p, t)) = Len(run_queue) + 1
           /\ \A i \in 1 .. Len(run_queue) + 1 :
                 insertThread(p, t)[i] = IF i < Node(p) THEN run_queue[i]
                                         ELSE IF i = Node(p) THEN t ELSE run_queue[i - 1]
<1> DEFINE n == Node(p)
           l == Len(run_queue)
           front == SubSeq(run_queue, 1, n - 1)
           rear == SubSeq(run_queue, n, l)
           new == insertThread(p, t)
<1>1. n \in 1 .. l /\ l \in Nat /\ DOMAIN run_queue = 1 .. l
  BY NodeProperty
<1>2. /\ front \in Seq(Threads) /\ Len(front) = n - 1
      /\ \A i \in 1 .. n - 1 : front[i] = run_queue[i]
  <2>1. \A i \in 1 .. n - 1 : run_queue[i] \in Threads
    BY <1>1
  <2> QED
    BY <1>1, <2>1, SubSeqProperties
<1>3. /\ rear \in Seq(Threads) /\ Len(rear) = l - n + 1
      /\ \A i \in 1 .. l - n + 1 : rear[i] = run_queue[n + i - 1]
  <2>1. \A i \in n .. l : run_queue[i] \in Threads
    BY <1>1
  <2> QED
    BY <1>1, <2>1, SubSeqProperties
<1>4. new = (front \o <<t>>) \o rear
  BY DEF insertThread
<1> HIDE DEF n, front, rear, new
<1>5. /\ front \o <<t>> \in Seq(Threads)
      /\ Len(front \o <<t>>) = n
      /\ \A i \in 1 .. n : (front \o <<t>>)[i] = IF i <= n - 1 THEN front[i] ELSE t
  <2>1. <<t>> \in Seq(Threads) /\ Len(<<t>>) = 1 /\ <<t>>[1] = t
    OBVIOUS
  <2>2. /\ front \o <<t>> \in Seq(Threads)
        /\ Len(front \o <<t>>) = Len(front) + Len(<<t>>)
        /\ \A i \in 1 .. Len(front) + Len(<<t>>) :
             (front \o <<t>>)[i] = IF i <= Len(front) THEN front[i] ELSE <<t>>[i - Len(front)]
    BY <1>2, <2>1, ConcatProperties
  <2> QED
    BY <1>1, <1>2, <2>1, <2>2
<1>6. /\ new \in Seq(Threads)
      /\ Len(new) = l + 1
      /\ \A i \in 1 .. l + 1 : new[i] = IF i <= n THEN (front \o <<t>>)[i] ELSE rear[i - n]
  <2>1. /\ new \in Seq(Threads)
        /\ Len(new) = Len(front \o <<t>>) + Len(rear)
        /\ \A i \in 1 .. Len(front \o <<t>>) + Len(rear) :
             new[i] = IF i <= Len(front \o <<t>>) THEN (front \o <<t>>)[i]
                      ELSE rear[i - Len(front \o <<t>>)]
    BY <1>3, <1>4, <1>5, ConcatProperties
  <2>2. l \in Nat /\ n \in Nat
    BY <1>1
  <2>3. Len(front \o <<t>>) = n /\ Len(rear) = l - n + 1
    BY <1>3, <1>5
  <2> HIDE DEF l
  <2>4. Len(front \o <<t>>) + Len(rear) = l + 1
    BY <2>2, <2>3
  <2> QED
    BY <2>1, <2>3, <2>4
<1> QED
  <2> SUFFICES ASSUME NEW i \in 1 .. l + 1
               PROVE  new[i] = IF i < n THEN run_queue[i] ELSE IF i = n THEN t ELSE run_queue[i - 1]
    BY <1>6 DEF new, l, n
  <2>1. n \in Nat /\ i \in Nat
    BY <1>1
  <2>2. CASE i < n
    BY <2>1, <2>2, <1>2, <1>5, <1>6
  <2>3. CASE i = n
    BY <2>1, <2>3, <1>5, <1>6
  <2>4. CASE i > n
    <3>1. i - n \in 1 .. l - n + 1 /\ n + (i - n) - 1 = i - 1 /\ ~(i <= n) /\ ~(i < n) /\ i # n
      BY <2>1, <2>4, <1>1
    <3>2. new[i] = rear[i - n] /\ rear[i - n] = run_queue[n + (i - n) - 1]
      BY <3>1, <1>3, <1>6
    <3> QED
      BY <3>1, <3>2
  <2> QED
    BY <2>1, <2>2, <2>3, <2>4

\* A forked thread is added to the run queue or not; nothing is lost.
LEMMA InsertProperty ==
    ASSUME run_queue \in Seq(Threads), NEW t \in Threads, NEW p
    PROVE  /\ insertThread(p, t) \in Seq(Threads)
           /\ \A u \in Queued :
                \E i \in DOMAIN insertThread(p, t) : insertThread(p, t)[i] = u
<1>1. CASE p \notin Queued
  BY <1>1 DEF insertThread, Queued
<1>2. CASE p \in Queued
  <2> DEFINE n == Node(p)
             l == Len(run_queue)
             new == insertThread(p, t)
  <2>1. n \in 1 .. l /\ l \in Nat /\ DOMAIN run_queue = 1 .. l
    BY <1>2, NodeProperty
  <2>2. /\ new \in Seq(Threads)
        /\ Len(new) = l + 1
        /\ \A i \in 1 .. l + 1 : new[i] = IF i < n THEN run_queue[i] ELSE IF i = n THEN t ELSE run_queue[i - 1]
    BY <1>2, InsertElements
  <2> HIDE DEF n, l, new
  <2>3. ASSUME NEW j \in 1 .. l
        PROVE  \E i \in DOMAIN new : new[i] = run_queue[j]
    <3>1. DOMAIN new = 1 .. l + 1
      BY <2>2
    <3>2. CASE j < n
      <4>1. j \in 1 .. l + 1
        BY <2>1
      <4> QED
        BY <4>1, <2>2, <3>1, <3>2
    <3>3. CASE j >= n
      <4>1. j + 1 \in 1 .. l + 1 /\ ~(j + 1 < n) /\ j + 1 # n /\ (j + 1) - 1 = j
        BY <2>1, <3>3
      <4> QED
        BY <4>1, <2>2, <3>1
    <3> QED
      BY <2>1, <3>2, <3>3
  <2> QED
    BY <2>1, <2>2, <2>3 DEF new, l, Queued
<1> QED
  BY <1>1, <1>2

(***************************************************************************)
(* Type correctness, with what it rests on: where the iterator is, where   *)
(* the scheduler returns to and which threads it finds there.              *)
(***************************************************************************)

Handling == pc \in {"handler", "hsleep", "handlerdone"}

\* IteratorValid, but for a thread that is deleted at the iterator.
Iterating ==
    /\ Initial \in Queued
    /\ pc # "erased" /\ iter # NULL => iter \in Queued
    /\ AtNode => iter # NULL
    /\ BetweenWalks => iter = NULL

\* The places to which a timer goal, a sleep, a signal handler and a nested
\* scheduler return, the threads they need there, and that the initial thread
\* never exits.
Control ==
    /\ condition[Initial] # "EXITED"
    /\ InTimerGoal => back \in {"walk", "advance"}
    /\ pc = "sleep" => ret \in {"visit", "round"}
    /\ pc = "switch" => ret \in {"timers", "subvisit"}
    /\ Handling => ret \in {"timers", "subvisit", "visit", "round"} /\ handler # NULL
    /\ pc = "subexec" => sub # <<>>
    /\ Deleted => iter # Initial
    /\ InHandler /\ back = "timers" => result = "SIGNAL"
    /\ running_sub_scheduler => saved.pc \in {"exec", "tgoal", "handler"}
    /\ running_sub_scheduler /\ saved.pc = "handler" =>
          /\ pc \in {"subvisit", "subexec"} /\ handler # NULL
          /\ saved.ret \in {"timers", "visit", "round"}

IInv == TypeOK /\ Iterating /\ Control

USE DEF running_sub_scheduler, place, back, InTimerGoal, InHandler

LEMMA BlockStatusType ==
    /\ "RUNNABLE" \in BlockStatuses /\ "BLOCKED" \in BlockStatuses
    /\ Restarts \subseteq BlockStatuses
BY DEF BlockStatuses

\* The thread that executes is one.
LEMMA SelfType ==
    ASSUME IInv, Executing
    PROVE  Self \in Threads
<1>1. CASE pc = "exec"
  BY <1>1, SchedulerAssumption DEF Self, Runs, IInv, TypeOK, Iterating, AtNode
<1>2. CASE pc = "subexec"
  <2>1. sub \in Seq(Threads) /\ sub # <<>>
    BY <1>2 DEF IInv, TypeOK, Control
  <2> QED
    BY <1>2, <2>1 DEF Self, Runs
<1>3. CASE pc = "tgoal"
  BY <1>3, SchedulerAssumption DEF Self, Runs
<1>4. CASE pc = "handler"
  BY <1>4, SchedulerAssumption DEF Self, Runs, IInv, TypeOK, Control, Handling
<1> QED
  BY <1>1, <1>2, <1>3, <1>4 DEF Executing

\* What unblock sets is a status to be restarted with.
LEMMA InterQuantumStatus ==
    ASSUME TypeOK, NEW woken \in SUBSET (blocked_queue \ Dangling), InterQuantum(woken)
    PROVE  \E status \in [{o.thread : o \in woken} -> Restarts] :
             block_status' = [t \in Threads |-> IF t \in DOMAIN status THEN status[t]
                                                ELSE block_status[t]]
<1>1. PICK status \in [{o.thread : o \in woken} -> UNION {RestartStatuses(o.kind) : o \in woken}] :
        block_status' = [t \in Threads |-> IF t \in DOMAIN status THEN status[t]
                                           ELSE block_status[t]]
  BY DEF InterQuantum
<1>2. \A k \in AllKinds : RestartStatuses(k) \subseteq Restarts
  BY DEF AllKinds, RestartStatuses, Restarts
<1>3. \A o \in woken : o.kind \in AllKinds
  BY DEF TypeOK, BlockingObject
<1>4. UNION {RestartStatuses(o.kind) : o \in woken} \subseteq Restarts
  BY <1>2, <1>3
<1>5. status \in [{o.thread : o \in woken} -> Restarts]
  BY <1>4
<1> QED
  BY <1>1, <1>5

LEMMA InterQuantumType ==
    ASSUME TypeOK, NEW woken \in SUBSET (blocked_queue \ Dangling), InterQuantum(woken)
    PROVE  /\ blocked_queue' \subseteq BlockingObject
           /\ block_status' \in [Threads -> BlockStatuses]
<1>1. blocked_queue' \subseteq BlockingObject
  BY DEF TypeOK, InterQuantum
<1>2. PICK status \in [{o.thread : o \in woken} -> Restarts] :
        block_status' = [t \in Threads |-> IF t \in DOMAIN status THEN status[t]
                                           ELSE block_status[t]]
  BY InterQuantumStatus
<1>3. block_status \in [Threads -> BlockStatuses]
  BY DEF TypeOK
<1>4. \A t \in DOMAIN status : status[t] \in BlockStatuses
  BY BlockStatusType
<1> QED
  BY <1>1, <1>2, <1>3, <1>4

LEMMA DeleteThreadType ==
    ASSUME TypeOK, NEW t \in Threads, DeleteThread(t)
    PROVE  /\ array' \in [Slots -> Threads \union {NULL}]
           /\ live' \in Int
           /\ condition' \in [Threads -> {"FREE", "RUNNABLE", "EXITED"}]
           /\ waiting' \in [Threads -> AllKinds \union {NULL}]
           /\ forbid' \in [Threads -> BOOLEAN]
           /\ condition[Initial] # "EXITED" => condition'[Initial] # "EXITED"
<1> USE DEF TypeOK, DeleteThread
<1>1. array' \in [Slots -> Threads \union {NULL}]
  BY DEF RemoveID
<1>2. /\ live' \in Int
      /\ condition' \in [Threads -> {"FREE", "RUNNABLE", "EXITED"}]
      /\ condition[Initial] # "EXITED" => condition'[Initial] # "EXITED"
  BY SchedulerAssumption
<1>3. waiting' \in [Threads -> AllKinds \union {NULL}]
  OBVIOUS
<1>4. forbid' \in [Threads -> BOOLEAN]
  OBVIOUS
<1> QED
  BY <1>1, <1>2, <1>3, <1>4

LEMMA NewThreadType ==
    ASSUME TypeOK, NEW t \in Threads, NewThread(t)
    PROVE  /\ array' \in [Slots -> Threads \union {NULL}]
           /\ live' \in Int
           /\ condition' \in [Threads -> {"FREE", "RUNNABLE", "EXITED"}]
           /\ condition[Initial] # "EXITED" => condition'[Initial] # "EXITED"
<1> USE DEF TypeOK, NewThread
<1>1. array' \in [Slots -> Threads \union {NULL}]
  OBVIOUS
<1> QED
  BY <1>1, SchedulerAssumption

Reasons == {"TIMESLICE", "EXIT", "BLOCK", "SIGNAL", "YIELD", "HALT"}

\* Dropping out of Execute leads to where the scheduler can go on.
LEMMA DropOutProperty ==
    ASSUME IInv, Executing, NEW r \in Reasons, DropOut(r),
           UNCHANGED <<run_queue, handler>>,
           condition'[Initial] # "EXITED",
           pc = "exec" /\ r = "EXIT" => iter # Initial,
           r = "SIGNAL" => ~in_sigint
    PROVE  /\ pc' \in Places /\ ret' \in Places
           /\ result' \in Results /\ hresult' \in Results
           /\ sub' \in Seq(Threads)
           /\ UNCHANGED <<iter, saved>>
           /\ Iterating'
           /\ Control'
<1>1. sub' \in Seq(Threads)
  <2>1. sub \in Seq(Threads) /\ (pc = "subexec" => sub # <<>>)
    BY DEF IInv, TypeOK, Control
  <2>2. CASE pc = "subexec"
    <3>1. Tail(sub) \in Seq(Threads)
      BY <2>1, <2>2
    <3> QED
      BY <3>1, <2>2 DEF DropOut
  <2>3. CASE pc # "subexec"
    BY <2>1, <2>3 DEF DropOut
  <2> QED
    BY <2>2, <2>3
<1>2. Queued' = Queued /\ UNCHANGED <<iter, saved, handler>>
  BY DEF Queued, DropOut
<1>3. CASE pc = "exec"
  BY <1>1, <1>2, <1>3 DEF DropOut, IInv, TypeOK, Iterating, Control, Handling, Deleted, AtNode,
     BetweenWalks, Reasons, Places, Results
<1>4. CASE pc = "subexec"
  <2>1. /\ pc' \in {"halted", "switch", "subvisit"} /\ ret' \in {ret, "subvisit"}
        /\ pc' = "switch" => ret' = "subvisit" /\ handler = NULL
        /\ result' = result /\ hresult' = hresult
    BY <1>4 DEF DropOut, Reasons, in_sigint
  <2>2. /\ pc' \in Places /\ ret' \in Places
        /\ result' \in Results /\ hresult' \in Results
    BY <2>1 DEF IInv, TypeOK, Places
  <2>3. Iterating'
    BY <1>2, <1>4, <2>1 DEF IInv, Iterating, AtNode, BetweenWalks
  <2>4. Control'
    BY <1>2, <1>4, <2>1 DEF IInv, Control, Handling, Deleted
  <2> QED
    BY <1>1, <1>2, <2>2, <2>3, <2>4
<1>5. CASE pc = "tgoal"
  BY <1>1, <1>2, <1>5 DEF DropOut, IInv, TypeOK, Iterating, Control, Handling, Deleted, AtNode,
     BetweenWalks, Reasons, Places, Results
<1>6. CASE pc = "handler"
  BY <1>1, <1>2, <1>6 DEF DropOut, IInv, TypeOK, Iterating, Control, Handling, Deleted, AtNode,
     BetweenWalks, Reasons, Places, Results
<1> QED
  BY <1>3, <1>4, <1>5, <1>6 DEF Executing

LEMMA InitIInv == Init => IInv
<1> SUFFICES ASSUME Init
             PROVE  IInv
  OBVIOUS
<1>1. run_queue = <<Initial>> /\ Queued = {Initial}
  BY DEF Init, Queued
<1>2. TypeOK
  <2>1. run_queue \in Seq(Threads) /\ sub \in Seq(Threads)
    BY SchedulerAssumption DEF Init
  <2>2. /\ saved \in Saved
        /\ block_status \in [Threads -> BlockStatuses]
    BY BlockStatusType DEF Init, Saved, Places
  <2>3. array \in [Slots -> Threads \union {NULL}]
    BY SchedulerAssumption DEF Init
  <2>4. condition \in [Threads -> {"FREE", "RUNNABLE", "EXITED"}]
    BY DEF Init
  <2>5. /\ waiting \in [Threads -> AllKinds \union {NULL}]
        /\ forbid \in [Threads -> BOOLEAN]
    BY DEF Init
  <2>6. blocked_queue \subseteq BlockingObject
    BY DEF Init
  <2>7. /\ iter \in Threads \union {NULL} /\ handler \in Threads \union {NULL}
        /\ result \in Results /\ hresult \in Results /\ pc \in Places /\ ret \in Places
    BY SchedulerAssumption DEF Init, Places, Results
  <2>8. /\ enable \in BOOLEAN /\ timeslice \in BOOLEAN /\ signalled \in BOOLEAN /\ timer \in BOOLEAN
    BY DEF Init
  <2>9. /\ live \in Int /\ pending \in Int /\ signals \in Nat
    BY SchedulerAssumption DEF Init
  <2> QED
    BY <2>1, <2>2, <2>3, <2>4, <2>5, <2>6, <2>7, <2>8, <2>9 DEF TypeOK
<1>3. Iterating
  BY <1>1 DEF Init, Iterating, AtNode, BetweenWalks
<1>4. Control
  BY SchedulerAssumption DEF Init, Control, Handling, Deleted
<1> QED
  BY <1>2, <1>3, <1>4 DEF IInv

(***************************************************************************)
(* The steps of Schedule.                                                  *)
(***************************************************************************)

LEMMA NoTimerGoalStep ==
    ASSUME IInv, NoTimerGoal
    PROVE  IInv'
<1> USE SchedulerAssumption DEF IInv, NoTimerGoal, queueVars, placeVars, statusVars,
        tableVars, threadVars, signalVars
<1>1. TypeOK'
  BY DEF TypeOK, Goto, Places
<1>2. Iterating'
  BY DEF Iterating, Goto, AtNode, BetweenWalks, Queued
<1>3. Control'
  BY DEF Control, Goto, Handling, Deleted
<1> QED
  BY <1>1, <1>2, <1>3

LEMMA RunTimerGoalStep ==
    ASSUME IInv, RunTimerGoal
    PROVE  IInv'
<1> USE SchedulerAssumption DEF IInv, RunTimerGoal, queueVars, placeVars, statusVars,
        tableVars, threadVars, signalVars
<1>1. TypeOK'
  <2>1. saved' \in Saved
    BY DEF TypeOK, Saved
  <2>2. block_status' \in [Threads -> BlockStatuses]
    BY BlockStatusType DEF TypeOK
  <2> QED
    BY <2>1, <2>2 DEF TypeOK, Places
<1>2. Iterating'
  BY DEF Iterating, Goto, AtNode, BetweenWalks, Queued
<1>3. Control'
  BY DEF Control, Goto, Handling, Deleted
<1> QED
  BY <1>1, <1>2, <1>3

LEMMA TimerGoalDoneStep ==
    ASSUME IInv, TimerGoalDone
    PROVE  IInv'
<1> USE SchedulerAssumption DEF IInv, TimerGoalDone, queueVars, placeVars, statusVars,
        tableVars, threadVars, signalVars
<1>1. TypeOK'
  <2>1. /\ block_status' \in [Threads -> BlockStatuses] /\ saved.status \in BlockStatuses
        /\ saved' \in Saved
    BY BlockStatusType DEF TypeOK, Saved
  <2>2. pc' \in Places
    BY DEF TypeOK
  <2> QED
    BY <2>1, <2>2 DEF TypeOK
<1>2. Iterating'
  BY DEF Iterating, AtNode, BetweenWalks, Queued, Control
<1>3. Control'
  BY DEF Control, Handling, Deleted
<1> QED
  BY <1>1, <1>2, <1>3

LEMMA StartWalkStep ==
    ASSUME IInv, StartWalk
    PROVE  IInv'
<1> USE SchedulerAssumption DEF IInv, StartWalk, queueVars, placeVars, statusVars,
        tableVars, threadVars, signalVars
<1>1. TypeOK'
  <2>1. Head(run_queue) \in Threads
    BY DEF TypeOK, Iterating, Queued
  <2> QED
    BY <2>1 DEF TypeOK, Goto, Places
<1>2. Iterating'
  <2>1. Head(run_queue) \in Queued
    BY DEF TypeOK, Iterating, Queued
  <2> QED
    BY <2>1 DEF Iterating, Goto, Queued, AtNode, BetweenWalks
<1>3. Control'
  BY DEF Control, Goto, Handling, Deleted
<1> QED
  BY <1>1, <1>2, <1>3

LEMMA VisitExitedStep ==
    ASSUME IInv, VisitExited
    PROVE  IInv'
<1> USE SchedulerAssumption DEF IInv, VisitExited, queueVars, placeVars, statusVars, signalVars
<1>1. iter \in Queued /\ iter \in Threads /\ iter # Initial
  BY DEF TypeOK, Iterating, Control
<1>2. /\ run_queue' \in Seq(Threads)
      /\ \A u \in Queued \ {iter} : u \in Queued'
      /\ iter' # NULL => iter' \in Queued'
      /\ iter' \in Threads \union {NULL}
  <2>1. run_queue \in Seq(Threads) /\ Queued \subseteq Threads
    BY DEF TypeOK, Queued
  <2> QED
    BY <1>1, <2>1, EraseProperty DEF Queued
<1>3. /\ array' \in [Slots -> Threads \union {NULL}]
      /\ live' \in Int
      /\ condition' \in [Threads -> {"FREE", "RUNNABLE", "EXITED"}]
      /\ waiting' \in [Threads -> AllKinds \union {NULL}]
      /\ forbid' \in [Threads -> BOOLEAN]
      /\ condition'[Initial] # "EXITED"
  BY <1>1, DeleteThreadType DEF Control
<1>4. TypeOK'
  <2>1. block_status' \in [Threads -> BlockStatuses]
    BY BlockStatusType DEF TypeOK
  <2>2. pc' \in Places /\ ret' \in Places /\ UNCHANGED <<sub, saved>>
    BY DEF TypeOK, Goto, Places
  <2>3. blocked_queue' \subseteq BlockingObject
    BY DEF TypeOK
  <2> QED
    BY <1>2, <1>3, <2>1, <2>2, <2>3 DEF TypeOK
<1>5. Iterating'
  BY <1>1, <1>2 DEF Iterating, Goto, AtNode, BetweenWalks
<1>6. Control'
  BY <1>3 DEF Control, Goto, Handling, Deleted
<1> QED
  BY <1>4, <1>5, <1>6

LEMMA VisitStep ==
    ASSUME IInv, Visit
    PROVE  IInv'
<1> USE SchedulerAssumption DEF IInv, Visit, queueVars, placeVars, tableVars, threadVars, signalVars
<1>1. /\ blocked_queue' \subseteq BlockingObject
      /\ block_status' \in [Threads -> BlockStatuses]
  BY InterQuantumType
<1>2. iter' \in Threads \union {NULL} /\ (iter' # NULL => iter' \in Queued')
  <2>1. run_queue \in Seq(Threads) /\ Queued \subseteq Threads /\ iter \in Queued
    BY DEF TypeOK, Queued, Iterating
  <2>2. iter' = iter \/ iter' = After(iter)
    OBVIOUS
  <2>3. Queued' = Queued
    BY DEF Queued
  <2> QED
    BY <2>1, <2>2, <2>3, EraseProperty
<1>3. /\ timeslice' \in BOOLEAN /\ sub' = sub /\ saved' = saved
      /\ \/ pc' \in {"visit", "exec"} /\ ret' = ret
         \/ pc' = "sleep" /\ ret' = "visit"
      /\ pc' = "exec" => iter' = iter
  BY DEF Goto, TypeOK
<1>4. TypeOK'
  BY <1>1, <1>2, <1>3 DEF TypeOK, Places
<1>5. Iterating'
  BY <1>2, <1>3 DEF Iterating, AtNode, BetweenWalks, Queued
<1>6. Control'
  BY <1>3 DEF Control, Handling, Deleted
<1> QED
  BY <1>4, <1>5, <1>6

LEMMA AdvanceStep ==
    ASSUME IInv, Advance
    PROVE  IInv'
<1> USE SchedulerAssumption DEF IInv, Advance, queueVars, placeVars, statusVars, tableVars, threadVars,
        signalVars
<1>1. run_queue \in Seq(Threads) /\ Queued \subseteq Threads /\ iter \in Queued
  BY DEF TypeOK, Queued, Iterating, AtNode
<1>2. /\ run_queue' \in Seq(Threads)
      /\ iter' \in Threads \union {NULL}
      /\ iter' # NULL => iter' \in Queued'
      /\ Initial \in Queued'
  <2>1. CASE result = "EXIT"
    <3>1. run_queue' = Erase(iter) /\ iter' = After(iter) /\ iter # Initial
      BY <2>1 DEF Control, Deleted
    <3>2. /\ Erase(iter) \in Seq(Threads)
          /\ \A u \in Queued \ {iter} : \E i \in DOMAIN Erase(iter) : Erase(iter)[i] = u
          /\ After(iter) # NULL => \E i \in DOMAIN Erase(iter) : Erase(iter)[i] = After(iter)
          /\ After(iter) # NULL => After(iter) \in Queued
      BY <1>1, EraseProperty
    <3>3. Initial \in Queued
      BY DEF Iterating
    <3> QED
      BY <1>1, <3>1, <3>2, <3>3 DEF Queued
  <2>2. CASE result # "EXIT"
    <3>1. run_queue' = run_queue /\ (iter' = iter \/ iter' = After(iter))
      BY <2>2
    <3>2. Queued' = Queued
      BY <3>1 DEF Queued
    <3> QED
      BY <1>1, <3>1, <3>2, EraseProperty DEF Iterating
  <2> QED
    BY <2>1, <2>2
<1>3. /\ sub' = sub /\ saved' = saved
      /\ \/ pc' \in {"visit", "fatal"} /\ ret' = ret
         \/ pc' = "sleep" /\ ret' = "visit"
  BY DEF Goto
<1>4. TypeOK'
  BY <1>2, <1>3 DEF TypeOK, Places
<1>5. Iterating'
  BY <1>2, <1>3 DEF Iterating, AtNode, BetweenWalks
<1>6. Control'
  BY <1>3 DEF Control, Handling, Deleted
<1> QED
  BY <1>4, <1>5, <1>6

LEMMA RoundEndStep ==
    ASSUME IInv, RoundEnd
    PROVE  IInv'
<1> USE SchedulerAssumption DEF IInv, RoundEnd, queueVars, placeVars, statusVars,
        tableVars, threadVars, signalVars
<1>1. TypeOK'
  BY DEF TypeOK, Goto, Places
<1>2. Iterating'
  BY DEF Iterating, Goto, AtNode, BetweenWalks, Queued
<1>3. Control'
  BY DEF Control, Goto, Handling, Deleted
<1> QED
  BY <1>1, <1>2, <1>3

LEMMA SleepStep ==
    ASSUME IInv, Sleep
    PROVE  IInv'
<1> USE SchedulerAssumption DEF IInv, Sleep, queueVars, placeVars, statusVars,
        tableVars, threadVars, signalVars
<1>1. TypeOK'
  <2>1. /\ blocked_queue' \subseteq BlockingObject
        /\ block_status' \in [Threads -> BlockStatuses]
    BY InterQuantumType
  <2> QED
    BY <2>1 DEF TypeOK, Goto, Places
<1>2. Iterating'
  BY DEF Iterating, Goto, AtNode, BetweenWalks, Queued, Control
<1>3. Control'
  BY DEF Control, Goto, Handling, Deleted
<1> QED
  BY <1>1, <1>2, <1>3

LEMMA HandlerSleepStep ==
    ASSUME IInv, HandlerSleep
    PROVE  IInv'
<1> USE SchedulerAssumption DEF IInv, HandlerSleep, queueVars, placeVars, statusVars,
        tableVars, threadVars, signalVars
<1>1. TypeOK'
  <2>1. /\ blocked_queue' \subseteq BlockingObject
        /\ block_status' \in [Threads -> BlockStatuses]
    BY InterQuantumType
  <2> QED
    BY <2>1 DEF TypeOK, Goto, Places
<1>2. Iterating'
  BY DEF Iterating, Goto, AtNode, BetweenWalks, Queued, Control
<1>3. Control'
  BY DEF Control, Goto, Handling, Deleted
<1> QED
  BY <1>1, <1>2, <1>3

LEMMA UnblockFreedStep ==
    ASSUME IInv, UnblockFreed
    PROVE  IInv'
<1> USE SchedulerAssumption DEF IInv, UnblockFreed, queueVars, placeVars, statusVars,
        tableVars, threadVars, signalVars
<1>1. TypeOK'
  BY DEF TypeOK, Goto, Places
<1>2. Iterating'
  BY DEF Iterating, Goto, AtNode, BetweenWalks, Queued
<1>3. Control'
  BY DEF Control, Goto, Handling, Deleted
<1> QED
  BY <1>1, <1>2, <1>3

LEMMA SubVisitStep ==
    ASSUME IInv, SubVisit
    PROVE  IInv'
<1> USE SchedulerAssumption DEF IInv, SubVisit, queueVars, placeVars, statusVars,
        tableVars, threadVars, signalVars
<1>1. TypeOK'
  <2>1. /\ blocked_queue' \subseteq BlockingObject
        /\ block_status' \in [Threads -> BlockStatuses]
    <3>1. CASE \E woken \in SUBSET (blocked_queue \ Dangling) : InterQuantum(woken)
      BY <3>1, InterQuantumType
    <3>2. CASE UNCHANGED <<blocked_queue, block_status>>
      BY <3>2 DEF TypeOK
    <3> QED
      BY <3>1, <3>2
  <2>2. sub' \in Seq(Threads) /\ timeslice' \in BOOLEAN /\ pc' \in Places
    <3>1. sub \in Seq(Threads) /\ sub # <<>> /\ timeslice \in BOOLEAN
      BY DEF TypeOK
    <3>2. Tail(sub) \in Seq(Threads)
      BY <3>1
    <3>3. sub' = sub \/ sub' = Tail(sub)
      OBVIOUS
    <3> QED
      BY <3>1, <3>2, <3>3 DEF Places
  <2> QED
    BY <2>1, <2>2 DEF TypeOK
<1>2. Iterating'
  BY DEF Iterating, Goto, AtNode, BetweenWalks, Queued
<1>3. Control'
  BY DEF Control, Goto, Handling, Deleted
<1> QED
  BY <1>1, <1>2, <1>3

LEMMA SubDoneStep ==
    ASSUME IInv, SubDone
    PROVE  IInv'
<1> USE SchedulerAssumption DEF IInv, SubDone, queueVars, tableVars, threadVars, signalVars
<1>1. /\ pc' = saved.pc /\ ret' = saved.ret /\ pc' \in {"exec", "tgoal", "handler"}
      /\ UNCHANGED <<run_queue, iter, result, sub, condition, handler>>
  BY DEF Control
<1>2. TypeOK'
  <2>1. block_status' \in [Threads -> BlockStatuses]
    BY BlockStatusType DEF TypeOK
  <2>2. enable' \in BOOLEAN /\ timeslice' \in BOOLEAN /\ ret' \in Places /\ pc' \in Places
    BY <1>1 DEF TypeOK, Saved
  <2>3. saved' \in Saved
    BY DEF TypeOK, Saved, Places
  <2> QED
    BY <2>1, <2>2, <2>3 DEF TypeOK
<1>3. running_sub_scheduler /\ ~(running_sub_scheduler')
  BY <1>1 DEF Control
<1>4. Iterating'
  BY <1>1, <1>3 DEF Iterating, AtNode, BetweenWalks, Queued
<1>5. Control'
  BY <1>1, <1>3 DEF Control, Handling, Deleted
<1> QED
  BY <1>2, <1>4, <1>5

LEMMA NoHandlerStep ==
    ASSUME IInv, NoHandler
    PROVE  IInv'
<1> USE SchedulerAssumption DEF IInv, NoHandler, queueVars, placeVars, statusVars,
        tableVars, threadVars, signalVars
<1>1. TypeOK'
  BY DEF TypeOK, Goto, Places
<1>2. Iterating'
  <2>1. Queued' = Queued
    BY DEF Queued
  <2> QED
    BY <2>1 DEF Goto, Iterating, AtNode, BetweenWalks, AtHandleSignal
<1>3. Control'
  BY DEF Control, Goto, Handling, Deleted
<1> QED
  BY <1>1, <1>2, <1>3

LEMMA StartHandlerStep ==
    ASSUME IInv, NEW t \in Threads, StartHandler(t)
    PROVE  IInv'
<1> USE SchedulerAssumption DEF IInv, StartHandler, queueVars, placeVars, statusVars, signalVars
<1>1. /\ array' \in [Slots -> Threads \union {NULL}]
      /\ live' \in Int
      /\ condition' \in [Threads -> {"FREE", "RUNNABLE", "EXITED"}]
      /\ condition'[Initial] # "EXITED"
  BY NewThreadType DEF Control
<1>2. TypeOK'
  <2>1. pc' \in Places /\ ret' \in Places /\ UNCHANGED <<sub, saved>>
    BY DEF TypeOK, Goto, Places
  <2>2. handler' \in Threads \union {NULL} /\ signalled' \in BOOLEAN
    BY DEF TypeOK
  <2>3. pending' \in Int
    BY DEF TypeOK
  <2> QED
    BY <1>1, <2>1, <2>2, <2>3 DEF TypeOK
<1>3. Iterating'
  BY DEF Iterating, Goto, AtNode, BetweenWalks, Queued, AtHandleSignal, Control
<1>4. Control'
  BY <1>1 DEF Control, Goto, Handling, Deleted, AtHandleSignal
<1> QED
  BY <1>2, <1>3, <1>4

LEMMA HandlerDoneStep ==
    ASSUME IInv, HandlerDone
    PROVE  IInv'
<1> USE SchedulerAssumption DEF IInv, HandlerDone, queueVars, placeVars, statusVars, signalVars
<1>1. handler \in Threads
  BY DEF TypeOK, Control, Handling
<1>2. /\ array' \in [Slots -> Threads \union {NULL}]
      /\ live' \in Int
      /\ condition' \in [Threads -> {"FREE", "RUNNABLE", "EXITED"}]
      /\ waiting' \in [Threads -> AllKinds \union {NULL}]
      /\ forbid' \in [Threads -> BOOLEAN]
      /\ condition'[Initial] # "EXITED"
  BY <1>1, DeleteThreadType DEF Control
<1>3. TypeOK'
  <2>1. block_status' \in [Threads -> BlockStatuses]
    BY BlockStatusType DEF TypeOK
  <2>2. pc' \in Places /\ ret' \in Places /\ UNCHANGED <<sub, saved>>
    BY DEF TypeOK, Goto
  <2>3. hresult' \in Results
    BY DEF Results
  <2> QED
    BY <1>2, <2>1, <2>2, <2>3 DEF TypeOK
<1>4. Iterating'
  BY DEF Iterating, Goto, AtNode, BetweenWalks, Queued, Control, Handling
<1>5. Control'
  BY <1>2 DEF Control, Goto, Handling, Deleted
<1> QED
  BY <1>3, <1>4, <1>5

(***************************************************************************)
(* The operations of threads.                                              *)
(***************************************************************************)

\* Dropping out of Execute with nothing else changed but the block status.
LEMMA PlainDropOut ==
    ASSUME IInv, Executing, NEW r \in Reasons, DropOut(r),
           pc = "exec" => r # "EXIT",
           r = "SIGNAL" => ~in_sigint,
           block_status' \in [Threads -> BlockStatuses],
           UNCHANGED <<queueVars, statusVars, tableVars, condition, waiting, forbid, signalled, pending,
                       signals, handler, timer>>
    PROVE  IInv'
<1> USE DEF queueVars, statusVars, tableVars
<1>1. condition'[Initial] # "EXITED"
  BY DEF IInv, Control
<1>2. /\ pc' \in Places /\ ret' \in Places
      /\ result' \in Results /\ hresult' \in Results
      /\ sub' \in Seq(Threads)
      /\ UNCHANGED <<iter, saved>>
      /\ Iterating'
      /\ Control'
  BY <1>1, DropOutProperty
<1>3. TypeOK'
  BY <1>2 DEF IInv, TypeOK
<1> QED
  BY <1>2, <1>3 DEF IInv

LEMMA HaltStep ==
    ASSUME IInv, Halt
    PROVE  IInv'
<1>1. Executing /\ "HALT" \in Reasons /\ block_status' \in [Threads -> BlockStatuses]
  BY DEF Halt, Does, AtCall, Reasons, IInv, TypeOK, threadVars
<1> QED
  BY <1>1, PlainDropOut DEF Halt, threadVars

LEMMA GoalDoneStep ==
    ASSUME IInv, GoalDone
    PROVE  IInv'
<1>1. Executing /\ "EXIT" \in Reasons /\ block_status' \in [Threads -> BlockStatuses]
  BY DEF GoalDone, Does, AtCall, Reasons, IInv, TypeOK, threadVars
<1> QED
  BY <1>1, PlainDropOut DEF GoalDone, threadVars

LEMMA SignalCheckStep ==
    ASSUME IInv, SignalCheck
    PROVE  IInv'
<1>1. Executing /\ "SIGNAL" \in Reasons /\ block_status' \in [Threads -> BlockStatuses]
  BY DEF SignalCheck, Does, AtCall, Reasons, IInv, TypeOK, threadVars
<1> QED
  BY <1>1, PlainDropOut DEF SignalCheck, threadVars

LEMMA TimesliceStep ==
    ASSUME IInv, Timeslice
    PROVE  IInv'
<1>1. Executing /\ "TIMESLICE" \in Reasons /\ block_status' \in [Threads -> BlockStatuses]
  BY DEF Timeslice, Does, AtCall, Reasons, IInv, TypeOK, threadVars
<1> QED
  BY <1>1, PlainDropOut DEF Timeslice, threadVars

LEMMA YieldStep ==
    ASSUME IInv, Yield
    PROVE  IInv'
<1>1. Executing /\ "YIELD" \in Reasons
  BY DEF Yield, Does, AtCall, Reasons
<1>2. block_status' \in [Threads -> BlockStatuses]
  BY <1>1, BlockStatusType, SelfType DEF Yield, Continues, IInv, TypeOK
<1> QED
  BY <1>1, <1>2, PlainDropOut DEF Yield

LEMMA WaitStep ==
    ASSUME IInv, NEW k \in Kinds, Wait(k)
    PROVE  IInv'
<1> USE DEF Wait, statusVars, tableVars
<1>1. Executing /\ "BLOCK" \in Reasons
  BY DEF Reasons
<1>2. condition'[Initial] # "EXITED"
  BY DEF IInv, Control
<1>3. /\ pc' \in Places /\ ret' \in Places
      /\ result' \in Results /\ hresult' \in Results
      /\ sub' \in Seq(Threads)
      /\ UNCHANGED <<iter, saved>>
      /\ Iterating'
      /\ Control'
  BY <1>1, <1>2, DropOutProperty
<1>4. Self \in Threads /\ k \in AllKinds
  BY <1>1, SelfType, SchedulerAssumption
<1>5. blocked_queue' \subseteq BlockingObject
  <2>1. PICK p \in NewPtrs :
          blocked_queue' = blocked_queue \union {[thread |-> Self, kind |-> k, ptr |-> p]}
    OBVIOUS
  <2>2. p \in Nat
    BY SchedulerAssumption DEF NewPtrs
  <2>3. [thread |-> Self, kind |-> k, ptr |-> p] \in BlockingObject
    BY <1>4, <2>2 DEF BlockingObject
  <2>4. blocked_queue \subseteq BlockingObject
    BY DEF IInv, TypeOK
  <2> QED
    BY <2>1, <2>3, <2>4
<1>6. block_status' \in [Threads -> BlockStatuses]
  BY BlockStatusType DEF IInv, TypeOK
<1>7. waiting' \in [Threads -> AllKinds \union {NULL}]
  BY <1>4 DEF IInv, TypeOK
<1>8. TypeOK'
  BY <1>3, <1>5, <1>6, <1>7 DEF IInv, TypeOK
<1> QED
  BY <1>3, <1>8 DEF IInv

LEMMA ExitSelfStep ==
    ASSUME IInv, ExitSelf
    PROVE  IInv'
<1> USE DEF queueVars, statusVars, tableVars, threadVars
<1>1. Executing /\ {"HALT", "EXIT"} \subseteq Reasons
  BY DEF ExitSelf, Does, AtCall, Reasons
<1>2. CASE Self = Initial \/ pc = "handler"
  <2>1. DropOut("HALT") /\ UNCHANGED <<tableVars, threadVars>>
    BY <1>2 DEF ExitSelf
  <2>2. block_status' \in [Threads -> BlockStatuses]
    BY <2>1 DEF IInv, TypeOK
  <2> QED
    BY <1>1, <2>1, <2>2, PlainDropOut DEF ExitSelf
<1>3. CASE Self # Initial /\ pc # "handler"
  <2>1. Self \in Threads /\ Self # Initial /\ DropOut("EXIT")
    BY <1>1, <1>3, SelfType DEF ExitSelf
  <2>2. pc = "exec" => iter # Initial
    BY <2>1 DEF Self, Runs
  <2>3. /\ array' \in [Slots -> Threads \union {NULL}]
        /\ live' \in Int
        /\ condition' \in [Threads -> {"FREE", "RUNNABLE", "EXITED"}]
        /\ waiting' \in [Threads -> AllKinds \union {NULL}]
        /\ forbid' \in [Threads -> BOOLEAN]
        /\ condition'[Initial] # "EXITED"
        /\ block_status' \in [Threads -> BlockStatuses]
    <3>1. CASE DeleteThread(Self) /\ Continues
      <4>1. block_status' \in [Threads -> BlockStatuses]
        BY <2>1, <3>1, BlockStatusType DEF Continues, IInv, TypeOK
      <4> QED
        BY <2>1, <3>1, <4>1, DeleteThreadType DEF IInv, Control
    <3>2. CASE /\ condition' = [condition EXCEPT ![Self] = "EXITED"]
               /\ UNCHANGED <<tableVars, block_status, waiting, forbid>>
      BY <2>1, <3>2, SchedulerAssumption DEF IInv, TypeOK, Control
    <3> QED
      BY <1>3, <3>1, <3>2 DEF ExitSelf
  <2>4. UNCHANGED <<run_queue, blocked_queue, enable, timeslice, signalled, pending, signals, handler,
                    timer>>
    BY DEF ExitSelf
  <2>5. /\ pc' \in Places /\ ret' \in Places
        /\ result' \in Results /\ hresult' \in Results
        /\ sub' \in Seq(Threads)
        /\ UNCHANGED <<iter, saved>>
        /\ Iterating'
        /\ Control'
    BY <1>1, <2>1, <2>2, <2>3, <2>4, DropOutProperty
  <2>6. TypeOK'
    BY <2>3, <2>4, <2>5 DEF IInv, TypeOK
  <2> QED
    BY <2>5, <2>6 DEF IInv
<1> QED
  BY <1>2, <1>3

LEMMA KillStep ==
    ASSUME IInv, NEW y \in Threads, Kill(y)
    PROVE  IInv'
<1> USE DEF queueVars, statusVars, tableVars, threadVars, placeVars
<1>1. Executing /\ "HALT" \in Reasons /\ Self \in Threads
  BY SelfType DEF Kill, Does, AtCall, Reasons
<1>2. CASE y = Initial
  <2>1. block_status' \in [Threads -> BlockStatuses]
    BY <1>2 DEF Kill, IInv, TypeOK
  <2> QED
    BY <1>1, <1>2, <2>1, PlainDropOut DEF Kill
<1>3. CASE y # Initial /\ y \notin Queued
  <2>1. /\ condition' = [condition EXCEPT ![y] = "EXITED"]
        /\ Continues
        /\ UNCHANGED <<queueVars, tableVars, waiting, forbid, placeVars, hresult, statusVars, signalled,
                       pending, signals, handler, timer>>
    BY <1>3 DEF Kill
  <2>2. block_status' \in [Threads -> BlockStatuses]
    BY <1>1, <2>1, BlockStatusType DEF Continues, IInv, TypeOK
  <2>3. /\ condition' \in [Threads -> {"FREE", "RUNNABLE", "EXITED"}]
        /\ condition'[Initial] # "EXITED"
    BY <1>3, <2>1, SchedulerAssumption DEF IInv, TypeOK, Control
  <2>4. TypeOK'
    BY <2>1, <2>2, <2>3 DEF IInv, TypeOK
  <2>5. Iterating' /\ Control'
    BY <2>1, <2>3 DEF IInv, Iterating, AtNode, BetweenWalks, Control, Handling, Deleted, Queued
  <2> QED
    BY <2>4, <2>5 DEF IInv
<1>4. CASE y # Initial /\ y \in Queued
  <2>1. /\ blocked_queue' = blocked_queue \ ObjectsOf(y)
        /\ run_queue' = Erase(y)
        /\ DeleteThread(y)
        /\ block_status' = [block_status EXCEPT ![Self] = "RUNNABLE", ![y] = "RUNNABLE"]
        /\ pc' = (IF y = iter THEN "erased" ELSE IF y \in Listed THEN "undefined" ELSE pc)
        /\ UNCHANGED <<ret, sub, saved>>
        /\ UNCHANGED <<iter, result, hresult, statusVars, signalled, pending, signals, handler, timer>>
    BY <1>4 DEF Kill, Goto
  <2>2. /\ array' \in [Slots -> Threads \union {NULL}]
        /\ live' \in Int
        /\ condition' \in [Threads -> {"FREE", "RUNNABLE", "EXITED"}]
        /\ waiting' \in [Threads -> AllKinds \union {NULL}]
        /\ forbid' \in [Threads -> BOOLEAN]
        /\ condition'[Initial] # "EXITED"
    BY <2>1, DeleteThreadType DEF IInv, Control
  <2>3. block_status' \in [Threads -> BlockStatuses]
    BY <1>1, <2>1, BlockStatusType DEF IInv, TypeOK
  <2>4. run_queue' \in Seq(Threads) /\ \A u \in Queued \ {y} : u \in Queued'
    <3>1. run_queue \in Seq(Threads)
      BY DEF IInv, TypeOK
    <3>2. /\ Erase(y) \in Seq(Threads)
          /\ \A u \in Queued \ {y} : \E i \in DOMAIN Erase(y) : Erase(y)[i] = u
      BY <1>4, <3>1, EraseProperty
    <3> QED
      BY <2>1, <3>2 DEF Queued
  <2>5. blocked_queue' \subseteq BlockingObject /\ pc' \in Places
    BY <2>1 DEF IInv, TypeOK, Places
  <2>6. TypeOK'
    BY <2>1, <2>2, <2>3, <2>4, <2>5 DEF IInv, TypeOK
  <2>7. Iterating'
    <3>1. Initial \in Queued'
      BY <1>4, <2>4 DEF IInv, Iterating
    <3>2. CASE y = iter
      BY <2>1, <3>1, <3>2 DEF Iterating, AtNode, BetweenWalks
    <3>3. CASE y # iter
      <4>1. iter # NULL => iter \in Queued
        BY <1>1 DEF IInv, Iterating, Executing
      <4>2. pc' = pc \/ pc' = "undefined"
        BY <2>1, <3>3
      <4> QED
        BY <2>1, <2>4, <3>1, <3>3, <4>1, <4>2 DEF IInv, Iterating, AtNode, BetweenWalks
    <3> QED
      BY <3>2, <3>3
  <2>8. Control'
    BY <2>1, <2>2 DEF IInv, Control, Handling, Deleted
  <2> QED
    BY <2>6, <2>7, <2>8 DEF IInv
<1> QED
  BY <1>2, <1>3, <1>4

LEMMA ForkStep ==
    ASSUME IInv, NEW t \in Threads, Fork(t)
    PROVE  IInv'
<1> USE DEF Fork, placeVars, statusVars, signalVars
<1>1. Executing /\ Self \in Threads
  BY SelfType DEF Does, AtCall
<1>2. /\ array' \in [Slots -> Threads \union {NULL}]
      /\ live' \in Int
      /\ condition' \in [Threads -> {"FREE", "RUNNABLE", "EXITED"}]
      /\ condition'[Initial] # "EXITED"
  BY NewThreadType DEF IInv, Control
<1>3. block_status' \in [Threads -> BlockStatuses]
  BY <1>1, BlockStatusType DEF Continues, IInv, TypeOK
<1>4. run_queue' \in Seq(Threads) /\ \A u \in Queued : u \in Queued'
  <2>1. run_queue \in Seq(Threads)
    BY DEF IInv, TypeOK
  <2>2. /\ insertThread(Self, t) \in Seq(Threads)
        /\ \A u \in Queued :
             \E i \in DOMAIN insertThread(Self, t) : insertThread(Self, t)[i] = u
    BY <1>1, <2>1, InsertProperty
  <2> QED
    BY <2>2 DEF Queued
<1>5. TypeOK'
  BY <1>2, <1>3, <1>4 DEF IInv, TypeOK
<1>6. Iterating'
  BY <1>4 DEF IInv, Iterating, AtNode, BetweenWalks
<1>7. Control'
  BY <1>2 DEF IInv, Control, Handling, Deleted
<1> QED
  BY <1>5, <1>6, <1>7 DEF IInv

LEMMA ThrowStep ==
    ASSUME IInv, NEW y \in Threads, Throw(y)
    PROVE  IInv'
<1> USE DEF Throw, placeVars, statusVars, tableVars, signalVars
<1>1. Executing /\ Self \in Threads
  BY SelfType DEF Does, AtCall
<1>2. blocked_queue' \subseteq blocked_queue
  OBVIOUS
<1>3. /\ block_status' \in [Threads -> BlockStatuses]
      /\ waiting' \in [Threads -> AllKinds \union {NULL}]
  BY <1>1, BlockStatusType DEF IInv, TypeOK
<1>4. TypeOK'
  BY <1>2, <1>3 DEF IInv, TypeOK
<1>5. Iterating' /\ Control'
  BY DEF IInv, Iterating, AtNode, BetweenWalks, Queued, Control, Handling, Deleted
<1> QED
  BY <1>4, <1>5 DEF IInv

LEMMA WaitDoneStep ==
    ASSUME IInv, WaitDone
    PROVE  IInv'
<1> USE DEF WaitDone, queueVars, placeVars, statusVars, tableVars, signalVars
<1>1. Executing /\ Self \in Threads
  BY SelfType DEF Does, AtCall
<1>2. block_status' \in [Threads -> BlockStatuses]
  BY <1>1, BlockStatusType DEF Continues, IInv, TypeOK
<1>3. waiting' \in [Threads -> AllKinds \union {NULL}]
  BY <1>1 DEF IInv, TypeOK
<1>4. TypeOK'
  BY <1>2, <1>3 DEF IInv, TypeOK
<1>5. Iterating' /\ Control'
  BY DEF IInv, Iterating, AtNode, BetweenWalks, Queued, Control, Handling, Deleted
<1> QED
  BY <1>4, <1>5 DEF IInv

LEMMA ForbidStep ==
    ASSUME IInv, Forbid
    PROVE  IInv'
<1> USE DEF Forbid, queueVars, placeVars, statusVars, tableVars, signalVars
<1>1. Executing /\ Self \in Threads
  BY SelfType DEF Does, AtCall
<1>2. block_status' \in [Threads -> BlockStatuses]
  BY <1>1, BlockStatusType DEF Continues, IInv, TypeOK
<1>3. forbid' \in [Threads -> BOOLEAN] /\ enable' \in BOOLEAN
  BY <1>1 DEF IInv, TypeOK
<1>4. TypeOK'
  BY <1>2, <1>3 DEF IInv, TypeOK
<1>5. Iterating' /\ Control'
  BY DEF IInv, Iterating, AtNode, BetweenWalks, Queued, Control, Handling, Deleted
<1> QED
  BY <1>4, <1>5 DEF IInv

LEMMA PermitStep ==
    ASSUME IInv, Permit
    PROVE  IInv'
<1> USE DEF Permit, queueVars, placeVars, statusVars, tableVars, signalVars
<1>1. Executing /\ Self \in Threads
  BY SelfType DEF Does, AtCall
<1>2. block_status' \in [Threads -> BlockStatuses]
  BY <1>1, BlockStatusType DEF Continues, IInv, TypeOK
<1>3. forbid' \in [Threads -> BOOLEAN] /\ enable' \in BOOLEAN
  BY <1>1 DEF IInv, TypeOK
<1>4. TypeOK'
  BY <1>2, <1>3 DEF IInv, TypeOK
<1>5. Iterating' /\ Control'
  BY DEF IInv, Iterating, AtNode, BetweenWalks, Queued, Control, Handling, Deleted
<1> QED
  BY <1>4, <1>5 DEF IInv

LEMMA ScheduleNowStep ==
    ASSUME IInv, NEW n \in 0 .. TableSize - 1, NEW list \in [1 .. n -> Threads], ScheduleNow(list)
    PROVE  IInv'
<1> USE DEF ScheduleNow, queueVars, tableVars, threadVars, signalVars
<1>1. list \in Seq(Threads)
  BY SchedulerAssumption
<1>2. saved' \in Saved
  BY DEF IInv, TypeOK, Saved
<1>3. TypeOK'
  BY <1>1, <1>2 DEF IInv, TypeOK, Places
<1>4. /\ pc \in {"exec", "tgoal", "handler"} /\ ~running_sub_scheduler
      /\ pc' = "subvisit" /\ saved'.pc = pc /\ saved'.ret = ret
  BY DEF Does, AtCall, Executing, IInv, TypeOK, Saved
<1>5. Iterating'
  BY <1>4 DEF IInv, Iterating, AtNode, BetweenWalks, Queued
<1>6. Control'
  BY <1>4 DEF IInv, Control, Handling, Deleted
<1> QED
  BY <1>3, <1>5, <1>6 DEF IInv

LEMMA ScheduleFailsStep ==
    ASSUME IInv, ScheduleFails
    PROVE  IInv'
<1> USE DEF ScheduleFails, queueVars, placeVars, statusVars, tableVars, signalVars
<1>1. Executing /\ Self \in Threads
  BY SelfType DEF Does, AtCall
<1>2. block_status' \in [Threads -> BlockStatuses]
  BY <1>1, BlockStatusType DEF Continues, IInv, TypeOK
<1>3. TypeOK'
  BY <1>2 DEF IInv, TypeOK
<1>4. Iterating' /\ Control'
  BY DEF IInv, Iterating, AtNode, BetweenWalks, Queued, Control, Handling, Deleted
<1> QED
  BY <1>3, <1>4 DEF IInv

\* What comes from outside changes nothing but flags and counters.
LEMMA EnvironmentStep ==
    ASSUME IInv, Environment
    PROVE  IInv'
<1> USE DEF queueVars, placeVars, statusVars,
        tableVars, threadVars, signalVars
<1>1. CASE SliceEnds
  BY <1>1 DEF SliceEnds, IInv, TypeOK, Iterating, AtNode, BetweenWalks, Queued, Control, Handling,
     Deleted
<1>2. CASE handle_sigint
  BY <1>2 DEF handle_sigint, IInv, TypeOK, Iterating, AtNode, BetweenWalks, Queued, Control,
     Handling, Deleted
<1>3. CASE TimerDue
  BY <1>3 DEF TimerDue, IInv, TypeOK, Iterating, AtNode, BetweenWalks, Queued, Control, Handling,
     Deleted
<1> QED
  BY <1>1, <1>2, <1>3 DEF Environment

(***************************************************************************)
(* The invariant holds in every behaviour.                                 *)
(***************************************************************************)

LEMMA StutterStep ==
    ASSUME IInv, UNCHANGED vars
    PROVE  IInv'
<1> USE DEF vars, queueVars, placeVars, statusVars,
        tableVars, threadVars, signalVars
<1>1. TypeOK'
  BY DEF IInv, TypeOK
<1>2. Iterating' /\ Control'
  BY DEF IInv, Iterating, AtNode, BetweenWalks, Queued, Control, Handling, Deleted
<1> QED
  BY <1>1, <1>2 DEF IInv

LEMMA NextIInv ==
    ASSUME IInv, [Next]_vars
    PROVE  IInv'
<1>1. CASE Walk
  BY <1>1, NoTimerGoalStep, RunTimerGoalStep, TimerGoalDoneStep, StartWalkStep, VisitExitedStep,
     VisitStep, AdvanceStep, RoundEndStep, SubVisitStep, SubDoneStep, StartHandlerStep, NoHandlerStep,
     HandlerDoneStep DEF Walk
<1>2. CASE Execute
  <2>1. CASE \E t \in Threads : Fork(t) \/ Kill(t) \/ Throw(t)
    BY <2>1, ForkStep, KillStep, ThrowStep
  <2>2. CASE \E k \in Kinds : Wait(k)
    BY <2>2, WaitStep
  <2>3. CASE \E n \in 0 .. TableSize - 1 : \E list \in [1 .. n -> Threads] : ScheduleNow(list)
    BY <2>3, ScheduleNowStep
  <2>4. CASE ExitSelf \/ WaitDone \/ Yield \/ Forbid \/ Permit \/ Halt \/ GoalDone
    BY <2>4, ExitSelfStep, WaitDoneStep, YieldStep, ForbidStep, PermitStep, HaltStep, GoalDoneStep
  <2>5. CASE SignalCheck \/ Timeslice \/ ScheduleFails
    BY <2>5, SignalCheckStep, TimesliceStep, ScheduleFailsStep
  <2> QED
    BY <1>2, <2>1, <2>2, <2>3, <2>4, <2>5 DEF Execute
<1>3. CASE Sleep \/ HandlerSleep \/ UnblockFreed
  BY <1>3, SleepStep, HandlerSleepStep, UnblockFreedStep
<1>4. CASE Environment
  BY <1>4, EnvironmentStep
<1>5. CASE UNCHANGED vars
  BY <1>5, StutterStep
<1> QED
  BY <1>1, <1>2, <1>3, <1>4, <1>5 DEF Next

LEMMA Invariance == Spec => []IInv
<1>1. Init => IInv
  BY InitIInv
<1>2. IInv /\ [Next]_vars => IInv'
  BY NextIInv
<1> QED
  BY <1>1, <1>2, PTL DEF Spec

\* The scheduler's state is always of its type: every place it comes to and
\* returns to is one, and what executes there is a thread.
THEOREM TypeCorrect == Spec => []TypeOK
<1>1. IInv => TypeOK
  BY DEF IInv
<1> QED
  BY <1>1, Invariance, PTL

-----------------------------------------------------------------------------
(***************************************************************************)
(* Proof that the iterator of the walk stays at a node of the run queue,   *)
(* for programs in which thread_exit(y) of another thread is called by     *)
(* threads only, and not at all if there are nested schedulers.  Both      *)
(* restrictions are needed: deleteThread erases the node of y at once, and *)
(* y is the thread at the iterator if a timer goal, a signal handler or a  *)
(* thread of a nested scheduler names it; TLC finds IteratorValid violated *)
(* with "kill" in TimerOps or HandlerOps, and with "kill" and "schedule"   *)
(* in ThreadOps.                                                           *)
(***************************************************************************)

KillsApart ==
    /\ "kill" \notin TimerOps \union HandlerOps
    /\ "kill" \in ThreadOps => "schedule" \notin ThreadOps \union TimerOps \union HandlerOps

\* No node is erased at the iterator, and a nested scheduler runs only if the
\* program asks for it.
Unerased ==
    /\ pc # "erased"
    /\ running_sub_scheduler => "schedule" \in ThreadOps \union TimerOps \union HandlerOps

LEMMA KillUnerased ==
    ASSUME KillsApart, IInv, Unerased, NEW y \in Threads, Kill(y)
    PROVE  Unerased'
<1>1. pc \in {"exec", "subexec"} /\ "kill" \in ThreadOps
  BY DEF Kill, Does, AtCall, Executing, Ops, KillsApart
<1>2. ~running_sub_scheduler
  BY <1>1 DEF KillsApart, Unerased
<1>3. pc = "exec" /\ Self = iter
  BY <1>1, <1>2 DEF Self, Runs
<1> QED
  BY <1>3 DEF Kill, DropOut, Goto, placeVars, Unerased

LEMMA ScheduleNowUnerased ==
    ASSUME IInv, Unerased, NEW list, ScheduleNow(list)
    PROVE  Unerased'
BY DEF ScheduleNow, Does, Ops, Unerased

\* The other operations.
LEMMA ExecuteUnerased ==
    ASSUME IInv, Unerased,
           \/ \E t \in Threads : Fork(t) \/ Throw(t)
           \/ \E k \in Kinds : Wait(k)
           \/ ExitSelf \/ WaitDone \/ Yield \/ Forbid \/ Permit \/ Halt \/ GoalDone
           \/ SignalCheck \/ Timeslice \/ ScheduleFails
    PROVE  Unerased'
<1>1. UNCHANGED <<pc, ret>> \/ \E r \in Reasons : Executing /\ DropOut(r)
  BY DEF Fork, Throw, Wait, ExitSelf, WaitDone, Yield, Forbid, Permit, Halt, GoalDone, SignalCheck,
     Timeslice, ScheduleFails, Does, AtCall, Executing, placeVars, Reasons
<1>2. CASE UNCHANGED <<pc, ret>>
  BY <1>2 DEF Unerased
<1>3. CASE \E r \in Reasons : Executing /\ DropOut(r)
  BY <1>3 DEF DropOut, Executing, Reasons, Unerased
<1> QED
  BY <1>1, <1>2, <1>3

LEMMA WalkUnerased ==
    ASSUME IInv, Unerased, Walk \/ Sleep \/ HandlerSleep \/ UnblockFreed
    PROVE  Unerased'
<1> USE DEF Goto, Unerased, IInv, Control
<1>1. CASE NoTimerGoal \/ RunTimerGoal \/ TimerGoalDone \/ StartWalk
  BY <1>1 DEF NoTimerGoal, RunTimerGoal, TimerGoalDone, StartWalk
<1>2. CASE VisitExited \/ Visit \/ Advance \/ RoundEnd
  BY <1>2 DEF VisitExited, Visit, Advance, RoundEnd
<1>3. CASE SubVisit \/ SubDone
  BY <1>3 DEF SubVisit, SubDone
<1>4. CASE (\E t \in Threads : StartHandler(t)) \/ NoHandler \/ HandlerDone
  BY <1>4 DEF StartHandler, NoHandler, HandlerDone, AtHandleSignal, Handling
<1>5. CASE Sleep \/ HandlerSleep \/ UnblockFreed
  BY <1>5 DEF Sleep, HandlerSleep, UnblockFreed
<1> QED
  BY <1>1, <1>2, <1>3, <1>4, <1>5 DEF Walk

LEMMA NextUnerased ==
    ASSUME KillsApart, IInv, Unerased, [Next]_vars
    PROVE  Unerased'
<1>1. CASE Walk \/ Sleep \/ HandlerSleep \/ UnblockFreed
  BY <1>1, WalkUnerased
<1>2. CASE \E y \in Threads : Kill(y)
  BY <1>2, KillUnerased
<1>3. CASE \E n \in 0 .. TableSize - 1 : \E list \in [1 .. n -> Threads] : ScheduleNow(list)
  BY <1>3, ScheduleNowUnerased
<1>4. CASE \/ \E t \in Threads : Fork(t) \/ Throw(t)
           \/ \E k \in Kinds : Wait(k)
           \/ ExitSelf \/ WaitDone \/ Yield \/ Forbid \/ Permit \/ Halt \/ GoalDone
           \/ SignalCheck \/ Timeslice \/ ScheduleFails
  BY <1>4, ExecuteUnerased
<1>5. CASE Environment \/ UNCHANGED vars
  BY <1>5 DEF Environment, SliceEnds, handle_sigint, TimerDue, vars, placeVars, Unerased
<1> QED
  BY <1>1, <1>2, <1>3, <1>4, <1>5 DEF Next, Execute

\* The walk never goes on with an iterator to an erased node, and never loses
\* the initial thread: Schedule, deleteThread, InsertThread and run_scheduler keep
\* the iterator at a node through forks, exits, timer goals, signals and nested
\* schedulers, if the program's own deletions stay apart from them.
THEOREM IteratorSafe ==
    ASSUME KillsApart
    PROVE  Spec => []IteratorValid
<1>1. Init => IInv /\ Unerased
  BY InitIInv DEF Init, Unerased
<1>2. IInv /\ Unerased /\ [Next]_vars => IInv' /\ Unerased'
  BY NextIInv, NextUnerased, KillsApart
<1>3. IInv /\ Unerased => IteratorValid
  BY DEF IInv, Unerased, Iterating, IteratorValid
<1> QED
  BY <1>1, <1>2, <1>3, PTL DEF Spec


-----------------------------------------------------------------------------
(***************************************************************************)
(* Proof that thread_atomic_goal keeps other threads from running, for     *)
(* programs whose timer goals and signal handlers do not use it and that   *)
(* do not call schedule_threads_now.  Both restrictions are needed: TLC    *)
(* finds AtomicGoal violated with "atomic" in HandlerOps, since there is   *)
(* one flag for all atomic goals, and schedule_threads_now turns time      *)
(* slicing on for the threads of its list.                                 *)
(***************************************************************************)

OnlyThreadsAreAtomic ==
    /\ "atomic" \notin TimerOps \union HandlerOps
    /\ "schedule" \notin ThreadOps \union TimerOps \union HandlerOps

\* Only the thread at the iterator is in an atomic goal, and no thread is once
\* that thread has exited.
Atomic ==
    /\ ~running_sub_scheduler
    /\ \A t \in Threads : forbid[t] => ~enable /\ iter = t
    /\ Deleted => \A t \in Threads : ~forbid[t]

LEMMA InitAtomic == Init => Atomic
BY DEF Init, Atomic, Handling, Deleted

LEMMA NoTimerGoalAtomic ==
    ASSUME OnlyThreadsAreAtomic, IInv, Atomic, NoTimerGoal
    PROVE  Atomic'
BY DEF NoTimerGoal, Atomic, Handling, Deleted, Goto, statusVars, threadVars

LEMMA RunTimerGoalAtomic ==
    ASSUME OnlyThreadsAreAtomic, IInv, Atomic, RunTimerGoal
    PROVE  Atomic'
BY DEF RunTimerGoal, Atomic, Handling, Deleted

LEMMA TimerGoalDoneAtomic ==
    ASSUME OnlyThreadsAreAtomic, IInv, Atomic, TimerGoalDone
    PROVE  Atomic'
BY DEF TimerGoalDone, Atomic, Handling, Deleted, Goto, statusVars, IInv, Control

LEMMA StartWalkAtomic ==
    ASSUME OnlyThreadsAreAtomic, IInv, Atomic, StartWalk
    PROVE  Atomic'
BY SchedulerAssumption DEF StartWalk, Atomic, Handling, Deleted, Goto, statusVars, threadVars,
   IInv, Iterating, BetweenWalks

LEMMA VisitAtomic ==
    ASSUME OnlyThreadsAreAtomic, IInv, Atomic, Visit
    PROVE  Atomic'
BY DEF Visit, Atomic, Handling, Deleted, Goto, MayAdvance

LEMMA AdvanceAtomic ==
    ASSUME OnlyThreadsAreAtomic, IInv, Atomic, Advance
    PROVE  Atomic'
BY DEF Advance, Atomic, Handling, Deleted, Goto, statusVars, threadVars, MayAdvance

LEMMA RoundEndAtomic ==
    ASSUME OnlyThreadsAreAtomic, IInv, Atomic, RoundEnd
    PROVE  Atomic'
BY DEF RoundEnd, Atomic, Handling, Deleted, Goto, statusVars, threadVars

LEMMA SleepAtomic ==
    ASSUME OnlyThreadsAreAtomic, IInv, Atomic, Sleep
    PROVE  Atomic'
BY DEF Sleep, Atomic, Handling, Deleted, Goto, statusVars, IInv, Control

LEMMA HandlerSleepAtomic ==
    ASSUME OnlyThreadsAreAtomic, IInv, Atomic, HandlerSleep
    PROVE  Atomic'
BY DEF HandlerSleep, Atomic, Handling, Deleted, Goto, statusVars, IInv, Control

LEMMA UnblockFreedAtomic ==
    ASSUME OnlyThreadsAreAtomic, IInv, Atomic, UnblockFreed
    PROVE  Atomic'
BY DEF UnblockFreed, Atomic, Handling, Deleted, Goto, statusVars, threadVars

LEMMA NoHandlerAtomic ==
    ASSUME OnlyThreadsAreAtomic, IInv, Atomic, NoHandler
    PROVE  Atomic'
BY DEF NoHandler, Atomic, Handling, Deleted, Goto, statusVars, threadVars

LEMMA VisitExitedAtomic ==
    ASSUME OnlyThreadsAreAtomic, IInv, Atomic, VisitExited
    PROVE  Atomic'
BY DEF VisitExited, Atomic, Handling, Deleted, Goto, statusVars, DeleteThread, IInv, TypeOK

LEMMA HandlerDoneAtomic ==
    ASSUME OnlyThreadsAreAtomic, IInv, Atomic, HandlerDone
    PROVE  Atomic'
BY DEF HandlerDone, Atomic, Handling, Deleted, Goto, statusVars, DeleteThread, IInv, TypeOK, Control

LEMMA StartHandlerAtomic ==
    ASSUME OnlyThreadsAreAtomic, IInv, Atomic, NEW t \in Threads, StartHandler(t)
    PROVE  Atomic'
BY DEF StartHandler, Atomic, Handling, Deleted, Goto, statusVars, AtHandleSignal, IInv, Control

LEMMA SubVisitAtomic ==
    ASSUME OnlyThreadsAreAtomic, IInv, Atomic, SubVisit \/ SubDone
    PROVE  Atomic'
BY DEF SubVisit, SubDone, Atomic

\* Dropping out of Execute.
LEMMA DropOutAtomic ==
    ASSUME OnlyThreadsAreAtomic, IInv, Atomic, Executing, NEW r \in Reasons, DropOut(r),
           pc = "exec" => r # "EXIT",
           UNCHANGED <<forbid, enable>>
    PROVE  Atomic'
BY DEF DropOut, Executing, Reasons, Atomic, Handling, Deleted, IInv, Control

LEMMA YieldAtomic ==
    ASSUME OnlyThreadsAreAtomic, IInv, Atomic, Yield
    PROVE  Atomic'
<1>1. Executing /\ "YIELD" \in Reasons
  BY DEF Yield, Does, AtCall, Reasons
<1> QED
  BY <1>1, DropOutAtomic DEF Yield, statusVars, threadVars

LEMMA HaltAtomic ==
    ASSUME OnlyThreadsAreAtomic, IInv, Atomic, Halt
    PROVE  Atomic'
<1>1. Executing /\ "HALT" \in Reasons
  BY DEF Halt, Does, AtCall, Reasons
<1> QED
  BY <1>1, DropOutAtomic DEF Halt, statusVars, threadVars

LEMMA GoalDoneAtomic ==
    ASSUME OnlyThreadsAreAtomic, IInv, Atomic, GoalDone
    PROVE  Atomic'
<1>1. Executing /\ "EXIT" \in Reasons
  BY DEF GoalDone, Does, AtCall, Reasons
<1> QED
  BY <1>1, DropOutAtomic DEF GoalDone, statusVars, threadVars

LEMMA SignalCheckAtomic ==
    ASSUME OnlyThreadsAreAtomic, IInv, Atomic, SignalCheck
    PROVE  Atomic'
<1>1. Executing /\ "SIGNAL" \in Reasons
  BY DEF SignalCheck, Does, AtCall, Reasons
<1> QED
  BY <1>1, DropOutAtomic DEF SignalCheck, statusVars, threadVars

LEMMA TimesliceAtomic ==
    ASSUME OnlyThreadsAreAtomic, IInv, Atomic, Timeslice
    PROVE  Atomic'
<1>1. Executing /\ "TIMESLICE" \in Reasons
  BY DEF Timeslice, Does, AtCall, Reasons
<1> QED
  BY <1>1, DropOutAtomic DEF Timeslice, statusVars, threadVars

LEMMA WaitAtomic ==
    ASSUME OnlyThreadsAreAtomic, IInv, Atomic, NEW k \in Kinds, Wait(k)
    PROVE  Atomic'
<1>1. Executing /\ "BLOCK" \in Reasons
  BY DEF Wait, Reasons
<1> QED
  BY <1>1, DropOutAtomic DEF Wait, statusVars

LEMMA ExitSelfAtomic ==
    ASSUME OnlyThreadsAreAtomic, IInv, Atomic, ExitSelf
    PROVE  Atomic'
<1>1. Executing /\ {"HALT", "EXIT"} \subseteq Reasons /\ Self \in Threads
  BY SelfType DEF ExitSelf, Does, AtCall, Reasons
<1>2. CASE Self = Initial \/ pc = "handler"
  BY <1>1, <1>2, DropOutAtomic DEF ExitSelf, statusVars, threadVars
<1>3. CASE Self # Initial /\ pc # "handler"
  <2>1. pc = "exec" /\ Self = iter
    BY <1>1, <1>3 DEF Executing, Self, Runs, Atomic
  <2>2. DropOut("EXIT") /\ DeleteThread(Self) /\ enable' = enable
    BY <1>3, <2>1 DEF ExitSelf, statusVars
  <2> QED
    BY <1>1, <2>1, <2>2 DEF DropOut, DeleteThread, Atomic, Handling, Deleted, IInv, TypeOK
<1> QED
  BY <1>2, <1>3

LEMMA KillAtomic ==
    ASSUME OnlyThreadsAreAtomic, IInv, Atomic, NEW y \in Threads, Kill(y)
    PROVE  Atomic'
<1>1. Executing /\ "HALT" \in Reasons
  BY DEF Kill, Does, AtCall, Reasons
<1>2. CASE y = Initial
  BY <1>1, <1>2, DropOutAtomic DEF Kill, statusVars, threadVars
<1>3. CASE y # Initial /\ y \notin Queued
  BY <1>3 DEF Kill, statusVars, placeVars, Atomic, Handling, Deleted
<1>4. CASE y # Initial /\ y \in Queued
  BY <1>4 DEF Kill, Goto, DeleteThread, statusVars, Atomic, Handling, Deleted, IInv, TypeOK
<1> QED
  BY <1>2, <1>3, <1>4

LEMMA ForkAtomic ==
    ASSUME OnlyThreadsAreAtomic, IInv, Atomic, NEW t \in Threads, Fork(t)
    PROVE  Atomic'
BY DEF Fork, Atomic, Handling, Deleted, placeVars, statusVars

LEMMA ThrowAtomic ==
    ASSUME OnlyThreadsAreAtomic, IInv, Atomic, NEW y \in Threads, Throw(y)
    PROVE  Atomic'
BY DEF Throw, Atomic, Handling, Deleted, placeVars, statusVars

LEMMA WaitDoneAtomic ==
    ASSUME OnlyThreadsAreAtomic, IInv, Atomic, WaitDone
    PROVE  Atomic'
BY DEF WaitDone, Atomic, Handling, Deleted, placeVars, statusVars

LEMMA EnvironmentAtomic ==
    ASSUME OnlyThreadsAreAtomic, IInv, Atomic, Environment
    PROVE  Atomic'
BY DEF Environment, SliceEnds, handle_sigint, TimerDue, Atomic, Handling, Deleted, placeVars,
   statusVars, threadVars

LEMMA ForbidAtomic ==
    ASSUME OnlyThreadsAreAtomic, IInv, Atomic, Forbid
    PROVE  Atomic'
<1>1. pc = "exec" /\ Self = iter
  BY DEF Forbid, Does, AtCall, Executing, Ops, Self, Runs, OnlyThreadsAreAtomic, Atomic
<1>2. Self \in Threads
  BY <1>1, SelfType DEF Executing
<1> QED
  BY <1>1, <1>2 DEF Forbid, Atomic, Handling, Deleted, placeVars, IInv, TypeOK

LEMMA PermitAtomic ==
    ASSUME OnlyThreadsAreAtomic, IInv, Atomic, Permit
    PROVE  Atomic'
<1>1. pc = "exec" /\ Self = iter
  BY DEF Permit, Does, AtCall, Executing, Ops, Self, Runs, OnlyThreadsAreAtomic, Atomic
<1>2. Self \in Threads
  BY <1>1, SelfType DEF Executing
<1> QED
  BY <1>1, <1>2 DEF Permit, Atomic, Handling, Deleted, placeVars, IInv, TypeOK

LEMMA ScheduleNowAtomic ==
    ASSUME OnlyThreadsAreAtomic, NEW list, ScheduleNow(list)
    PROVE  FALSE
BY DEF ScheduleNow, Does, Ops, OnlyThreadsAreAtomic

LEMMA ScheduleFailsAtomic ==
    ASSUME OnlyThreadsAreAtomic, ScheduleFails
    PROVE  FALSE
BY DEF ScheduleFails, Does, Ops, OnlyThreadsAreAtomic

LEMMA NextAtomic ==
    ASSUME OnlyThreadsAreAtomic, IInv, Atomic, [Next]_vars
    PROVE  Atomic'
<1>1. CASE Walk
  BY <1>1, NoTimerGoalAtomic, RunTimerGoalAtomic, TimerGoalDoneAtomic, StartWalkAtomic,
     VisitExitedAtomic, VisitAtomic, AdvanceAtomic, RoundEndAtomic, SubVisitAtomic, StartHandlerAtomic,
     NoHandlerAtomic, HandlerDoneAtomic DEF Walk
<1>2. CASE Execute
  <2>1. CASE \E t \in Threads : Fork(t) \/ Kill(t) \/ Throw(t)
    BY <2>1, ForkAtomic, KillAtomic, ThrowAtomic
  <2>2. CASE \E k \in Kinds : Wait(k)
    BY <2>2, WaitAtomic
  <2>3. CASE \E n \in 0 .. TableSize - 1 : \E list \in [1 .. n -> Threads] : ScheduleNow(list)
    BY <2>3, ScheduleNowAtomic
  <2>4. CASE ExitSelf \/ WaitDone \/ Yield \/ Forbid \/ Permit \/ Halt \/ GoalDone
    BY <2>4, ExitSelfAtomic, WaitDoneAtomic, YieldAtomic, ForbidAtomic, PermitAtomic, HaltAtomic,
       GoalDoneAtomic
  <2>5. CASE SignalCheck \/ Timeslice \/ ScheduleFails
    BY <2>5, SignalCheckAtomic, TimesliceAtomic, ScheduleFailsAtomic
  <2> QED
    BY <1>2, <2>1, <2>2, <2>3, <2>4, <2>5 DEF Execute
<1>3. CASE Sleep \/ HandlerSleep \/ UnblockFreed
  BY <1>3, SleepAtomic, HandlerSleepAtomic, UnblockFreedAtomic
<1>4. CASE Environment
  BY <1>4, EnvironmentAtomic
<1>5. CASE UNCHANGED vars
  BY <1>5 DEF vars, placeVars, statusVars, threadVars, Atomic, Handling, Deleted
<1> QED
  BY <1>1, <1>2, <1>3, <1>4, <1>5 DEF Next

LEMMA AtomicImplies ==
    ASSUME Atomic
    PROVE  AtomicGoal
BY DEF Atomic, AtomicGoal, Self, Runs

\* While a thread is in a goal of thread_atomic_goal, time slicing is off and no
\* other thread of the run queue is executed, through whatever blocking, timer
\* goals, signals, kills and forks the goal goes.
THEOREM AtomicSafe ==
    ASSUME OnlyThreadsAreAtomic
    PROVE  Spec => []AtomicGoal
<1>1. Init => IInv /\ Atomic
  BY InitIInv, InitAtomic
<1>2. IInv /\ Atomic /\ [Next]_vars => IInv' /\ Atomic'
  BY NextIInv, NextAtomic, OnlyThreadsAreAtomic
<1>3. Atomic => AtomicGoal
  BY AtomicImplies
<1> QED
  BY <1>1, <1>2, <1>3, PTL DEF Spec


-----------------------------------------------------------------------------
(***************************************************************************)
(* Proofs that the queues, the thread table and the states of the threads  *)
(* agree: TableConsistent, BlockedConsistent and NoSleepWhileRunnable.     *)
(*                                                                         *)
(* They hold for programs whose timer goals and signal handlers do not     *)
(* block, whose signal handlers do not fork, and whose timer goals do not  *)
(* call schedule_threads_now.  All the restrictions are needed: TLC finds  *)
(* BlockedConsistent violated with "wait" in TimerOps or HandlerOps and    *)
(* with "schedule" in TimerOps (the block status that is put back after    *)
(* the goal is stale), and TableConsistent with "fork" in HandlerOps (a    *)
(* thread without a parent in the run queue gets no node).                 *)
(***************************************************************************)

PlainGoals ==
    /\ "wait" \notin TimerOps \union HandlerOps
    /\ "schedule" \notin TimerOps
    /\ "fork" \notin HandlerOps

Alive(t) == condition[t] # "FREE"
Occupied == {s \in Slots : array[s] # NULL}

\* The thread, or the signal handler, that called the nested scheduler.
Caller == Runs(saved.pc)

\* A signal is being handled, if only through a nested scheduler.
Serving == Handling \/ (running_sub_scheduler /\ saved.pc = "handler")

\* A handler is there only inside HandleSignal, a list only inside run_scheduler,
\* and the threads of the list are others than the one that called it.
PlainControl ==
    /\ pc # "hsleep"
    /\ handler # NULL => Serving
    /\ running_sub_scheduler => saved.pc \in {"exec", "handler"}
    /\ ~running_sub_scheduler => sub = <<>>
    /\ Listed \subseteq Queued \ {Caller}

\* Every thread that exists has one slot, and the slots are counted.
TableInv ==
    /\ live = Cardinality(Occupied)
    /\ \A r, s \in Slots : array[r] # NULL /\ array[r] = array[s] => r = s
    /\ \A t \in Threads : Alive(t) <=> \E s \in Slots : array[s] = t

\* Every thread that exists, but the handler, has one node.  When the thread at
\* iter has just exited there is one more for its address, which timer goals may
\* give to a new thread before the iterator advances.
QueueInv ==
    /\ handler # NULL => Alive(handler)
    /\ \A t \in Threads :
          t \in Queued <=> (Alive(t) /\ t # handler) \/ (Deleted /\ t = iter)
    /\ \A i, j \in DOMAIN run_queue :
          i # j /\ run_queue[i] = run_queue[j] => Deleted /\ run_queue[i] = iter /\ Alive(iter)
    /\ \A i, j, k \in DOMAIN run_queue :
          run_queue[i] = run_queue[j] /\ run_queue[j] = run_queue[k] => i = j \/ j = k \/ i = k
    /\ Deleted /\ Alive(iter) =>
          \E i, j \in DOMAIN run_queue : i # j /\ run_queue[i] = iter /\ run_queue[j] = iter

\* A thread is blocked if and only if it has a blocking object, and then it has
\* one.
BlockInv ==
    /\ \A t \in Threads : Status(t) = "BLOCKED" <=> \E o \in blocked_queue : o.thread = t
    /\ \A o, p \in blocked_queue : o.thread = p.thread => o = p
    /\ \A t \in Threads : ~Alive(t) => block_status[t] = "RUNNABLE"

\* The thread that executes is not blocked, nor is the one that waits for it to
\* return.
RunInv ==
    /\ pc = "exec" => block_status[iter] # "BLOCKED"
    /\ running_sub_scheduler => block_status[Caller] # "BLOCKED"
    /\ pc = "subexec" => block_status[Head(sub)] # "BLOCKED"
    /\ Serving => block_status[handler] = "RUNNABLE"

Agreeing == PlainControl /\ TableInv /\ QueueInv /\ BlockInv /\ RunInv /\ NoSleepWhileRunnable

\* Nothing is said of a scheduler that has stopped.
Agreement == ~Stopped => Agreeing

(***************************************************************************)
(* The run queue, node by node.                                            *)
(***************************************************************************)

\* q is run_queue without one node of t.
Without(q, t) ==
    \E n \in DOMAIN run_queue : \E e \in [DOMAIN q -> DOMAIN run_queue \ {n}] :
       /\ run_queue[n] = t
       /\ \A i \in DOMAIN q : q[i] = run_queue[e[i]]
       /\ \A i, j \in DOMAIN q : e[i] = e[j] => i = j
       /\ \A k \in DOMAIN run_queue \ {n} : \E i \in DOMAIN q : e[i] = k

\* q is run_queue with one more node, of t.
With(q, t) ==
    \E n \in DOMAIN q : \E e \in [DOMAIN q \ {n} -> DOMAIN run_queue] :
       /\ q[n] = t
       /\ \A i \in DOMAIN q \ {n} : q[i] = run_queue[e[i]]
       /\ \A i, j \in DOMAIN q \ {n} : e[i] = e[j] => i = j
       /\ \A k \in DOMAIN run_queue : \E i \in DOMAIN q \ {n} : e[i] = k

\* The nodes that remain after Erase(t) are those of run_queue but one of t.
LEMMA EraseMap ==
    ASSUME run_queue \in Seq(Threads), NEW t \in Queued
    PROVE  Without(Erase(t), t)
<1> DEFINE q == Erase(t)
           n == Node(t)
           l == Len(run_queue)
           e == [i \in DOMAIN q |-> IF i < n THEN i ELSE i + 1]
<1>1. n \in 1 .. l /\ run_queue[n] = t /\ l \in Nat /\ DOMAIN run_queue = 1 .. l
  BY NodeProperty
<1>2. /\ q \in Seq(Threads) /\ Len(q) = l - 1
      /\ \A i \in 1 .. l - 1 : q[i] = IF i < n THEN run_queue[i] ELSE run_queue[i + 1]
  BY EraseElements
<1>3. DOMAIN q = 1 .. l - 1
  BY <1>2
<1> HIDE DEF n, l, q
<1>4. \A i \in 1 .. l - 1 : e[i] \in (1 .. l) \ {n} /\ q[i] = run_queue[e[i]]
  BY <1>1, <1>2, <1>3
<1>5. \A i, j \in 1 .. l - 1 : e[i] = e[j] => i = j
  BY <1>1, <1>3
<1>6. ASSUME NEW k \in (1 .. l) \ {n}
      PROVE  \E i \in 1 .. l - 1 : e[i] = k
  <2>1. ASSUME k < n PROVE k \in 1 .. l - 1 /\ e[k] = k
    BY <1>1, <1>3, <2>1
  <2>2. ASSUME k > n PROVE k - 1 \in 1 .. l - 1 /\ e[k - 1] = k
    BY <1>1, <1>3, <2>2
  <2>3. k < n \/ k > n
    BY <1>1
  <2> HIDE DEF e
  <2> QED
    BY <2>1, <2>2, <2>3
<1>7. e \in [DOMAIN q -> DOMAIN run_queue \ {n}]
  BY <1>1, <1>3, <1>4
<1> HIDE DEF e
<1>8. /\ run_queue[n] = t
      /\ \A i \in DOMAIN q : q[i] = run_queue[e[i]]
      /\ \A i, j \in DOMAIN q : e[i] = e[j] => i = j
      /\ \A k \in DOMAIN run_queue \ {n} : \E i \in DOMAIN q : e[i] = k
  BY <1>1, <1>3, <1>4, <1>5, <1>6
<1>9. n \in DOMAIN run_queue
  BY <1>1
<1>10. \E x \in [DOMAIN q -> DOMAIN run_queue \ {n}] :
          /\ run_queue[n] = t
          /\ \A i \in DOMAIN q : q[i] = run_queue[x[i]]
          /\ \A i, j \in DOMAIN q : x[i] = x[j] => i = j
          /\ \A k \in DOMAIN run_queue \ {n} : \E i \in DOMAIN q : x[i] = k
  BY <1>7, <1>8
<1>11. Without(q, t)
  BY <1>9, <1>10, Zenon DEF Without
<1> QED
  BY <1>11 DEF q

\* insertThread(p, t) adds one node, which is of t.
LEMMA InsertMap ==
    ASSUME run_queue \in Seq(Threads), NEW t \in Threads, NEW p \in Queued
    PROVE  With(insertThread(p, t), t)
<1> DEFINE q == insertThread(p, t)
           n == Node(p)
           l == Len(run_queue)
           e == [i \in DOMAIN q \ {n} |-> IF i < n THEN i ELSE i - 1]
<1>1. n \in 1 .. l /\ l \in Nat /\ DOMAIN run_queue = 1 .. l
  BY NodeProperty
<1>2. /\ q \in Seq(Threads) /\ Len(q) = l + 1
      /\ \A i \in 1 .. l + 1 :
           q[i] = IF i < n THEN run_queue[i] ELSE IF i = n THEN t ELSE run_queue[i - 1]
  BY InsertElements
<1>3. DOMAIN q = 1 .. l + 1
  BY <1>2
<1> HIDE DEF n, l, q
<1>4. n \in DOMAIN q /\ q[n] = t
  BY <1>1, <1>2, <1>3
<1>5. \A i \in (1 .. l + 1) \ {n} : e[i] \in 1 .. l /\ q[i] = run_queue[e[i]]
  BY <1>1, <1>2, <1>3
<1>6. \A i, j \in (1 .. l + 1) \ {n} : e[i] = e[j] => i = j
  BY <1>1, <1>3
<1>7. ASSUME NEW k \in 1 .. l
      PROVE  \E i \in (1 .. l + 1) \ {n} : e[i] = k
  <2>1. ASSUME k < n PROVE k \in (1 .. l + 1) \ {n} /\ e[k] = k
    BY <1>1, <1>3, <2>1
  <2>2. ASSUME k >= n PROVE k + 1 \in (1 .. l + 1) \ {n} /\ e[k + 1] = k
    BY <1>1, <1>3, <2>2
  <2>3. k < n \/ k >= n
    BY <1>1
  <2> HIDE DEF e
  <2> QED
    BY <2>1, <2>2, <2>3
<1>8. e \in [DOMAIN q \ {n} -> DOMAIN run_queue]
  BY <1>1, <1>3, <1>5
<1> HIDE DEF e
<1>9. /\ q[n] = t
      /\ \A i \in DOMAIN q \ {n} : q[i] = run_queue[e[i]]
      /\ \A i, j \in DOMAIN q \ {n} : e[i] = e[j] => i = j
      /\ \A k \in DOMAIN run_queue : \E i \in DOMAIN q \ {n} : e[i] = k
  BY <1>1, <1>3, <1>4, <1>5, <1>6, <1>7
<1>10. \E x \in [DOMAIN q \ {n} -> DOMAIN run_queue] :
              /\ q[n] = t
              /\ \A i \in DOMAIN q \ {n} : q[i] = run_queue[x[i]]
              /\ \A i, j \in DOMAIN q \ {n} : x[i] = x[j] => i = j
              /\ \A k \in DOMAIN run_queue : \E i \in DOMAIN q \ {n} : x[i] = k
  BY <1>8, <1>9
<1>11. With(q, t)
  BY <1>4, <1>10, Zenon DEF With
<1> QED
  BY <1>11 DEF q

(***************************************************************************)
(* The thread table.                                                       *)
(***************************************************************************)

LEMMA SlotsFinite ==
    /\ IsFiniteSet(Slots) /\ Cardinality(Slots) = TableSize
    /\ IsFiniteSet(Occupied) /\ Occupied \subseteq Slots
<1>1. IsFiniteSet(Slots) /\ Cardinality(Slots) = TableSize
  BY SchedulerAssumption, FS_Interval DEF Slots
<1>2. Occupied \in SUBSET Slots
  BY DEF Occupied
<1> QED
  BY <1>1, <1>2, FS_Subset

\* If the counter has not reached the size of the table, there is a free slot.
LEMMA FreeSlotProperty ==
    ASSUME TableInv, live < TableSize
    PROVE  FreeSlot \in Slots /\ array[FreeSlot] = NULL
<1> DEFINE S == {s \in Slots : array[s] = NULL}
<1>1. S # {}
  <2>1. SUFFICES ASSUME S = {} PROVE FALSE
    OBVIOUS
  <2>2. Occupied = Slots
    BY <2>1 DEF Occupied
  <2> QED
    BY <2>2, SlotsFinite, SchedulerAssumption DEF TableInv
<1>2. S \in SUBSET Nat
  BY SchedulerAssumption DEF Slots
<1>3. PICK m \in S : \A n \in S : ~(n < m)
  BY <1>1, <1>2, LeastElement
<1>4. \A r \in 0 .. m - 1 : array[r] # NULL
  BY <1>3, SchedulerAssumption DEF Slots
<1> QED
  BY <1>3, <1>4 DEF FreeSlot

LEMMA NewThreadTable ==
    ASSUME TypeOK, TableInv, live < TableSize, NEW t \in Threads, ~Alive(t), NewThread(t)
    PROVE  /\ TableInv'
           /\ \A u \in Threads : Alive(u)' <=> Alive(u) \/ u = t
<1> DEFINE f == FreeSlot
<1>1. f \in Slots /\ array[f] = NULL
  BY FreeSlotProperty
<1>2. /\ array \in [Slots -> Threads \union {NULL}]
      /\ condition \in [Threads -> {"FREE", "RUNNABLE", "EXITED"}]
      /\ t # NULL
  BY SchedulerAssumption DEF TypeOK
<1> HIDE DEF f
<1>3. \A s \in Slots : array'[s] = IF s = f THEN t ELSE array[s]
  BY <1>1, <1>2 DEF NewThread, f
<1>4. \A u \in Threads : Alive(u)' <=> Alive(u) \/ u = t
  BY <1>2 DEF NewThread, Alive
<1>5. Occupied' = Occupied \union {f} /\ f \notin Occupied
  BY <1>1, <1>2, <1>3 DEF Occupied
<1>6. live' = Cardinality(Occupied')
  <2>1. live' = live + 1 /\ live = Cardinality(Occupied)
    BY DEF NewThread, TableInv
  <2> QED
    BY <1>5, <2>1, SlotsFinite, FS_AddElement
<1>7. \A s \in Slots : array[s] # t
  BY DEF TableInv
<1>8. \A r, s \in Slots : array'[r] # NULL /\ array'[r] = array'[s] => r = s
  BY <1>3, <1>7 DEF TableInv
<1>9. ASSUME NEW u \in Threads
      PROVE  Alive(u)' <=> \E s \in Slots : array'[s] = u
  <2>1. CASE u = t
    BY <1>1, <1>3, <1>4, <2>1
  <2>2. CASE u # t
    <3>1. u # NULL /\ (Alive(u)' <=> Alive(u))
      BY <1>4, <2>2, SchedulerAssumption
    <3>2. \A s \in Slots : array'[s] = u <=> array[s] = u
      BY <1>1, <1>3, <2>2, <3>1
    <3> QED
      BY <3>1, <3>2 DEF TableInv
  <2> QED
    BY <2>1, <2>2
<1> QED
  BY <1>4, <1>6, <1>8, <1>9 DEF TableInv

LEMMA DeleteThreadTable ==
    ASSUME TypeOK, TableInv, NEW t \in Threads, Alive(t), DeleteThread(t)
    PROVE  /\ TableInv'
           /\ \A u \in Threads : Alive(u)' <=> Alive(u) /\ u # t
<1>1. PICK f \in Slots : array[f] = t
  BY DEF TableInv
<1>2. /\ array \in [Slots -> Threads \union {NULL}]
      /\ condition \in [Threads -> {"FREE", "RUNNABLE", "EXITED"}]
      /\ t # NULL
  BY SchedulerAssumption DEF TypeOK
<1>3. \A s \in Slots : array'[s] = IF s = f THEN NULL ELSE array[s]
  BY <1>1, <1>2 DEF DeleteThread, RemoveID, TableInv
<1>4. \A u \in Threads : Alive(u)' <=> Alive(u) /\ u # t
  BY <1>2 DEF DeleteThread, Alive
<1>5. Occupied' = Occupied \ {f} /\ f \in Occupied
  BY <1>1, <1>2, <1>3 DEF Occupied
<1>6. live' = Cardinality(Occupied')
  <2>1. live' = live - 1 /\ live = Cardinality(Occupied)
    BY DEF DeleteThread, TableInv
  <2> QED
    BY <1>5, <2>1, SlotsFinite, FS_RemoveElement
<1>7. \A s \in Slots : s # f => array[s] # t
  BY <1>1, <1>2 DEF TableInv
<1>8. \A r, s \in Slots : array'[r] # NULL /\ array'[r] = array'[s] => r = s
  BY <1>3 DEF TableInv
<1>9. \A u \in Threads : Alive(u)' <=> \E s \in Slots : array'[s] = u
  <2>1. NULL \notin Threads
    BY SchedulerAssumption
  <2> QED
    BY <1>1, <1>3, <1>4, <1>7, <2>1 DEF TableInv
<1> QED
  BY <1>4, <1>6, <1>8, <1>9 DEF TableInv

LEMMA TableKept ==
    ASSUME TableInv, UNCHANGED <<tableVars, condition>>
    PROVE  TableInv'
BY DEF TableInv, tableVars, Occupied, Alive

\* The threads of the table are those that exist.
LEMMA TabledAlive ==
    ASSUME TypeOK, TableInv
    PROVE  Tabled = {t \in Threads : Alive(t)}
BY SchedulerAssumption DEF TypeOK, TableInv, Tabled

(***************************************************************************)
(* The run queue under each kind of step.                                  *)
(***************************************************************************)

LEMMA QueueKept ==
    ASSUME QueueInv, UNCHANGED <<run_queue, condition, handler>>,
           Deleted' <=> Deleted, Deleted => iter' = iter
    PROVE  QueueInv'
BY DEF QueueInv, Queued, Alive

\* A new thread in front of another one.
LEMMA QueueInserted ==
    ASSUME run_queue \in Seq(Threads), QueueInv, NEW t \in Threads, NEW p \in Queued,
           run_queue' = insertThread(p, t), UNCHANGED <<handler, iter>>, handler # t,
           Deleted' <=> Deleted, Deleted => iter \in Threads, ~Alive(t),
           \A u \in Threads : Alive(u)' <=> Alive(u) \/ u = t, handler \in Threads \union {NULL}
    PROVE  QueueInv'
<1> DEFINE q == run_queue'
<1>1. With(q, t)
  BY InsertMap
<1> HIDE DEF q
<1>n. PICK n \in DOMAIN q : \E e \in [DOMAIN q \ {n} -> DOMAIN run_queue] :
        /\ q[n] = t
        /\ \A i \in DOMAIN q \ {n} : q[i] = run_queue[e[i]]
        /\ \A i, j \in DOMAIN q \ {n} : e[i] = e[j] => i = j
        /\ \A k \in DOMAIN run_queue : \E i \in DOMAIN q \ {n} : e[i] = k
  BY <1>1 DEF With
<1>e. PICK e \in [DOMAIN q \ {n} -> DOMAIN run_queue] :
        /\ q[n] = t
        /\ \A i \in DOMAIN q \ {n} : q[i] = run_queue[e[i]]
        /\ \A i, j \in DOMAIN q \ {n} : e[i] = e[j] => i = j
        /\ \A k \in DOMAIN run_queue : \E i \in DOMAIN q \ {n} : e[i] = k
  BY <1>n
<1>2. /\ run_queue'[n] = t /\ n \in DOMAIN run_queue'
      /\ \A i \in DOMAIN run_queue' \ {n} :
            run_queue'[i] = run_queue[e[i]] /\ e[i] \in DOMAIN run_queue
      /\ \A i, j \in DOMAIN run_queue' \ {n} : e[i] = e[j] => i = j
      /\ \A k \in DOMAIN run_queue : \E i \in DOMAIN run_queue' \ {n} : e[i] = k
  BY <1>e DEF q
<1>3. \A i \in DOMAIN run_queue : run_queue[i] \in Threads
  OBVIOUS
<1>4. handler' # NULL => Alive(handler)'
  BY DEF QueueInv
<1>5. \A u \in Threads : u \in Queued' <=> u \in Queued \/ u = t
  BY <1>2 DEF Queued
<1>6. \A u \in Threads : u \in Queued' <=> (Alive(u)' /\ u # handler') \/ (Deleted' /\ u = iter')
  BY <1>5 DEF QueueInv
<1>7. \A i \in DOMAIN run_queue : run_queue[i] = t => Deleted /\ t = iter
  BY DEF QueueInv, Queued
<1>8. Deleted /\ iter = t => \E k \in DOMAIN run_queue : run_queue[k] = t
  BY DEF QueueInv, Queued
<1>9. \A i, j \in DOMAIN run_queue' :
          i # j /\ run_queue'[i] = run_queue'[j] => Deleted' /\ run_queue'[i] = iter' /\ Alive(iter)'
  <2> SUFFICES ASSUME NEW i \in DOMAIN run_queue', NEW j \in DOMAIN run_queue',
                      i # j, run_queue'[i] = run_queue'[j]
               PROVE  Deleted' /\ run_queue'[i] = iter' /\ Alive(iter)'
    OBVIOUS
  <2>1. CASE i = n \/ j = n
    <3>1. PICK k \in DOMAIN run_queue : run_queue[k] = t
      BY <1>2, <2>1
    <3>2. Deleted' /\ t = iter' /\ run_queue'[i] = t
      BY <1>2, <1>7, <2>1, <3>1
    <3> QED
      BY <3>2 DEF Alive
  <2>2. CASE i # n /\ j # n
    <3>1. e[i] # e[j] /\ run_queue[e[i]] = run_queue[e[j]] /\ e[i] \in DOMAIN run_queue
          /\ e[j] \in DOMAIN run_queue
      BY <1>2, <2>2
    <3>2. Deleted /\ run_queue[e[i]] = iter /\ Alive(iter)
      BY <3>1 DEF QueueInv
    <3> QED
      BY <1>2, <1>3, <2>2, <3>1, <3>2
  <2> QED
    BY <2>1, <2>2
<1>10. \A i, j, k \in DOMAIN run_queue' :
          run_queue'[i] = run_queue'[j] /\ run_queue'[j] = run_queue'[k] => i = j \/ j = k \/ i = k
  <2> SUFFICES ASSUME NEW i \in DOMAIN run_queue', NEW j \in DOMAIN run_queue',
                      NEW k \in DOMAIN run_queue', i # j, j # k, i # k,
                      run_queue'[i] = run_queue'[j], run_queue'[j] = run_queue'[k]
               PROVE  FALSE
    OBVIOUS
  <2>1. \A r, s \in DOMAIN run_queue : r # s /\ run_queue[r] = run_queue[s] => run_queue[r] # t
    BY DEF QueueInv
  <2>2. n \notin {i, j, k}
    BY <1>2, <2>1
  <2>3. /\ e[i] # e[j] /\ e[j] # e[k] /\ e[i] # e[k]
        /\ e[i] \in DOMAIN run_queue /\ e[j] \in DOMAIN run_queue /\ e[k] \in DOMAIN run_queue
        /\ run_queue[e[i]] = run_queue[e[j]] /\ run_queue[e[j]] = run_queue[e[k]]
    BY <1>2, <2>2
  <2> QED
    BY <2>3 DEF QueueInv
<1>11. ASSUME Deleted', Alive(iter)'
       PROVE  \E i, j \in DOMAIN run_queue' : i # j /\ run_queue'[i] = iter' /\ run_queue'[j] = iter'
  <2>1. CASE iter = t
    BY <1>2, <1>8, <1>11, <2>1
  <2>2. CASE iter # t
    <3>1. Alive(iter) /\ Deleted
      BY <1>11, <2>2 DEF Alive
    <3>2. PICK r, s \in DOMAIN run_queue : r # s /\ run_queue[r] = iter /\ run_queue[s] = iter
      BY <3>1 DEF QueueInv
    <3> QED
      BY <1>2, <3>2
  <2> QED
    BY <2>1, <2>2
<1> QED
  BY <1>4, <1>6, <1>9, <1>10, <1>11 DEF QueueInv

\* What Without says, for a queue that is a sequence of threads.
LEMMA WithoutProperty ==
    ASSUME run_queue \in Seq(Threads), NEW t \in Threads, NEW q, Without(q, t)
    PROVE  /\ \A u \in Threads \ {t} : u \in Queued <=> \E i \in DOMAIN q : q[i] = u
           /\ \A i, j \in DOMAIN q : i # j /\ q[i] = q[j] =>
                 \E r, s \in DOMAIN run_queue : r # s /\ run_queue[r] = q[i] /\ run_queue[s] = q[i]
           /\ \A i, j, k \in DOMAIN q :
                 i # j /\ j # k /\ i # k /\ q[i] = q[j] /\ q[j] = q[k] =>
                    \E r, s, v \in DOMAIN run_queue :
                       /\ r # s /\ s # v /\ r # v
                       /\ run_queue[r] = q[i] /\ run_queue[s] = q[i] /\ run_queue[v] = q[i]
           /\ \A u \in Threads \ {t} :
                 (\E r, s \in DOMAIN run_queue : r # s /\ run_queue[r] = u /\ run_queue[s] = u) =>
                    \E i, j \in DOMAIN q : i # j /\ q[i] = u /\ q[j] = u
           /\ (\E i \in DOMAIN q : q[i] = t) <=>
                 \E r, s \in DOMAIN run_queue : r # s /\ run_queue[r] = t /\ run_queue[s] = t
           /\ \A i, j \in DOMAIN q : i # j /\ q[i] = t /\ q[j] = t =>
                 \E r, s, v \in DOMAIN run_queue :
                    /\ r # s /\ s # v /\ r # v
                    /\ run_queue[r] = t /\ run_queue[s] = t /\ run_queue[v] = t
<1>1. PICK n \in DOMAIN run_queue : \E e \in [DOMAIN q -> DOMAIN run_queue \ {n}] :
       /\ run_queue[n] = t
       /\ \A i \in DOMAIN q : q[i] = run_queue[e[i]]
       /\ \A i, j \in DOMAIN q : e[i] = e[j] => i = j
       /\ \A k \in DOMAIN run_queue \ {n} : \E i \in DOMAIN q : e[i] = k
  BY DEF Without
<1>2. PICK e \in [DOMAIN q -> DOMAIN run_queue \ {n}] :
       /\ run_queue[n] = t
       /\ \A i \in DOMAIN q : q[i] = run_queue[e[i]]
       /\ \A i, j \in DOMAIN q : e[i] = e[j] => i = j
       /\ \A k \in DOMAIN run_queue \ {n} : \E i \in DOMAIN q : e[i] = k
  BY <1>1
<1>3. \A i \in DOMAIN q : e[i] \in DOMAIN run_queue /\ e[i] # n
  BY <1>2
<1>4. \A u \in Threads \ {t} : u \in Queued <=> \E i \in DOMAIN q : q[i] = u
  BY <1>2, <1>3 DEF Queued
<1>5. \A i, j \in DOMAIN q : i # j /\ q[i] = q[j] =>
         \E r, s \in DOMAIN run_queue : r # s /\ run_queue[r] = q[i] /\ run_queue[s] = q[i]
  BY <1>2, <1>3
<1>6. ASSUME NEW i \in DOMAIN q, NEW j \in DOMAIN q, NEW k \in DOMAIN q,
             i # j, j # k, i # k, q[i] = q[j], q[j] = q[k]
      PROVE  \E r, s, v \in DOMAIN run_queue :
                /\ r # s /\ s # v /\ r # v
                /\ run_queue[r] = q[i] /\ run_queue[s] = q[i] /\ run_queue[v] = q[i]
  BY <1>2, <1>3, <1>6
<1>7. ASSUME NEW u \in Threads \ {t}, NEW r \in DOMAIN run_queue, NEW s \in DOMAIN run_queue,
             r # s, run_queue[r] = u, run_queue[s] = u
      PROVE  \E i, j \in DOMAIN q : i # j /\ q[i] = u /\ q[j] = u
  <2>1. r # n /\ s # n
    BY <1>2, <1>7
  <2>2. PICK i \in DOMAIN q : e[i] = r
    BY <1>2, <2>1
  <2>3. PICK j \in DOMAIN q : e[j] = s
    BY <1>2, <2>1
  <2> QED
    BY <1>2, <1>7, <2>2, <2>3
<1>8. (\E i \in DOMAIN q : q[i] = t) <=>
         \E r, s \in DOMAIN run_queue : r # s /\ run_queue[r] = t /\ run_queue[s] = t
  BY <1>2, <1>3
<1>9. ASSUME NEW i \in DOMAIN q, NEW j \in DOMAIN q, i # j, q[i] = t, q[j] = t
      PROVE  \E r, s, v \in DOMAIN run_queue :
                /\ r # s /\ s # v /\ r # v
                /\ run_queue[r] = t /\ run_queue[s] = t /\ run_queue[v] = t
  BY <1>2, <1>3, <1>9
<1> QED
  BY <1>4, <1>5, <1>6, <1>7, <1>8, <1>9

\* A thread is deleted with its node.
LEMMA QueueErased ==
    ASSUME run_queue \in Seq(Threads), QueueInv, NEW t \in Queued,
           run_queue' = Erase(t), UNCHANGED handler, handler # t, ~(Deleted /\ t = iter),
           handler \in Threads \union {NULL},
           Deleted' <=> Deleted, Deleted => iter \in Threads /\ iter' = iter,
           \A u \in Threads : Alive(u)' <=> Alive(u) /\ u # t
    PROVE  QueueInv'
<1> DEFINE q == run_queue'
<1>1. t \in Threads
  BY DEF Queued
<1>2. Without(q, t)
  BY EraseMap
<1> HIDE DEF q
<1>3. /\ \A u \in Threads \ {t} : u \in Queued <=> \E i \in DOMAIN q : q[i] = u
      /\ \A i, j \in DOMAIN q : i # j /\ q[i] = q[j] =>
            \E r, s \in DOMAIN run_queue : r # s /\ run_queue[r] = q[i] /\ run_queue[s] = q[i]
      /\ \A i, j, k \in DOMAIN q :
            i # j /\ j # k /\ i # k /\ q[i] = q[j] /\ q[j] = q[k] =>
               \E r, s, v \in DOMAIN run_queue :
                  /\ r # s /\ s # v /\ r # v
                  /\ run_queue[r] = q[i] /\ run_queue[s] = q[i] /\ run_queue[v] = q[i]
      /\ \A u \in Threads \ {t} :
            (\E r, s \in DOMAIN run_queue : r # s /\ run_queue[r] = u /\ run_queue[s] = u) =>
               \E i, j \in DOMAIN q : i # j /\ q[i] = u /\ q[j] = u
      /\ (\E i \in DOMAIN q : q[i] = t) <=>
            \E r, s \in DOMAIN run_queue : r # s /\ run_queue[r] = t /\ run_queue[s] = t
  BY <1>1, <1>2, WithoutProperty
<1>4. handler' # NULL => Alive(handler)'
  BY DEF QueueInv, Alive
<1>5. \A r, s \in DOMAIN run_queue : r # s /\ run_queue[r] = run_queue[s] =>
         Deleted /\ run_queue[r] = iter /\ Alive(iter) /\ iter \in Threads \ {t}
  BY DEF QueueInv
<1>6. ~\E i \in DOMAIN q : q[i] = t
  BY <1>1, <1>3, <1>5
<1>7. \A u \in Threads : u \in Queued' <=> u \in Queued /\ u # t
  BY <1>3, <1>6 DEF Queued, q
<1>8. \A u \in Threads : u \in Queued' <=> (Alive(u)' /\ u # handler') \/ (Deleted' /\ u = iter')
  BY <1>7 DEF QueueInv
<1>9. \A i, j \in DOMAIN q :
         i # j /\ q[i] = q[j] => Deleted' /\ q[i] = iter' /\ Alive(iter)'
  <2> SUFFICES ASSUME NEW i \in DOMAIN q, NEW j \in DOMAIN q, i # j, q[i] = q[j]
               PROVE  Deleted' /\ q[i] = iter' /\ Alive(iter)'
    OBVIOUS
  <2>1. \E r, s \in DOMAIN run_queue : r # s /\ run_queue[r] = q[i] /\ run_queue[s] = q[i]
    BY <1>3
  <2>2. Deleted /\ q[i] = iter /\ Alive(iter) /\ iter \in Threads \ {t}
    BY <1>5, <2>1
  <2> QED
    BY <2>2 DEF Alive
<1>10. \A i, j, k \in DOMAIN q : q[i] = q[j] /\ q[j] = q[k] => i = j \/ j = k \/ i = k
  BY <1>3 DEF QueueInv
<1>11. Deleted' /\ Alive(iter)' => \E i, j \in DOMAIN q : i # j /\ q[i] = iter' /\ q[j] = iter'
  <2> SUFFICES ASSUME Deleted', Alive(iter)'
               PROVE  \E i, j \in DOMAIN q : i # j /\ q[i] = iter' /\ q[j] = iter'
    OBVIOUS
  <2>1. Deleted /\ iter' = iter /\ iter \in Threads /\ iter # t
    OBVIOUS
  <2>2. Alive(iter)
    BY <2>1 DEF Alive
  <2> QED
    BY <1>3, <2>1, <2>2 DEF QueueInv
<1> QED
  BY <1>4, <1>8, <1>9, <1>10, <1>11 DEF QueueInv, q

\* The nodes, without the one of a thread that has exited: one of each thread
\* but the handler.
LEMMA NodesProperty ==
    ASSUME IInv, PlainControl, QueueInv
    PROVE  /\ Nodes \in Seq(Threads)
           /\ \A i, j \in DOMAIN Nodes : Nodes[i] = Nodes[j] => i = j
           /\ \A u \in Threads : (\E i \in DOMAIN Nodes : Nodes[i] = u) <=> Alive(u) /\ u # handler
<1>1. run_queue \in Seq(Threads)
  BY DEF IInv, TypeOK
<1>2. CASE ~Deleted
  <2>1. Nodes = run_queue
    BY <1>2 DEF Nodes
  <2> QED
    BY <1>1, <1>2, <2>1 DEF QueueInv, Queued
<1>3. CASE Deleted
  <2> DEFINE q == Nodes
  <2>1. iter \in Threads /\ iter \in Queued
    BY <1>3, SchedulerAssumption DEF IInv, TypeOK, Iterating, AtNode, Deleted
  <2>2. q = Erase(iter)
    BY <1>3 DEF Nodes
  <2>3. q \in Seq(Threads) /\ Without(q, iter)
    BY <1>1, <2>1, <2>2, EraseMap, EraseElements
  <2> HIDE DEF q
  <2>4. /\ \A u \in Threads \ {iter} : u \in Queued <=> \E i \in DOMAIN q : q[i] = u
        /\ \A i, j \in DOMAIN q : i # j /\ q[i] = q[j] =>
              \E r, s \in DOMAIN run_queue : r # s /\ run_queue[r] = q[i] /\ run_queue[s] = q[i]
        /\ (\E i \in DOMAIN q : q[i] = iter) <=>
              \E r, s \in DOMAIN run_queue : r # s /\ run_queue[r] = iter /\ run_queue[s] = iter
        /\ \A i, j \in DOMAIN q : i # j /\ q[i] = iter /\ q[j] = iter =>
              \E r, s, v \in DOMAIN run_queue :
                 /\ r # s /\ s # v /\ r # v
                 /\ run_queue[r] = iter /\ run_queue[s] = iter /\ run_queue[v] = iter
    BY <1>1, <2>1, <2>3, WithoutProperty
  <2>5. handler = NULL
    BY <1>3 DEF Deleted, PlainControl, Serving, Handling
  <2>6. \A i, j \in DOMAIN q : q[i] = q[j] => i = j
    <3> SUFFICES ASSUME NEW i \in DOMAIN q, NEW j \in DOMAIN q, i # j, q[i] = q[j]
                 PROVE  FALSE
      OBVIOUS
    <3>1. q[i] = iter
      BY <2>4 DEF QueueInv
    <3>2. \E r, s, v \in DOMAIN run_queue :
             /\ r # s /\ s # v /\ r # v
             /\ run_queue[r] = iter /\ run_queue[s] = iter /\ run_queue[v] = iter
      BY <2>4, <3>1
    <3> QED
      BY <3>2 DEF QueueInv
  <2>7. ASSUME NEW u \in Threads
        PROVE  (\E i \in DOMAIN q : q[i] = u) <=> Alive(u) /\ u # handler
    <3>1. CASE u = iter
      <4>1. (\E i \in DOMAIN q : q[i] = iter) <=> Alive(iter)
        BY <1>3, <2>4 DEF QueueInv
      <4> QED
        BY <2>1, <2>5, <3>1, <4>1, SchedulerAssumption
    <3>2. CASE u # iter
      BY <2>4, <3>2 DEF QueueInv
    <3> QED
      BY <3>1, <3>2
  <2> QED
    BY <2>3, <2>6, <2>7 DEF q
<1> QED
  BY <1>2, <1>3

(***************************************************************************)
(* Blocked threads under each kind of step.                                *)
(***************************************************************************)

\* The block statuses that count are the same.
LEMMA BlockKept ==
    ASSUME BlockInv, UNCHANGED <<blocked_queue, condition>>,
           \A t \in Threads : Status(t)' = "BLOCKED" <=> Status(t) = "BLOCKED",
           \A t \in Threads : ~Alive(t) => block_status'[t] = "RUNNABLE"
    PROVE  BlockInv'
BY DEF BlockInv, Alive

\* A thread that exists is deleted, or reset, and its blocking objects with it.
LEMMA BlockCleared ==
    ASSUME TypeOK, BlockInv, NEW t \in Threads,
           blocked_queue' = blocked_queue \ ObjectsOf(t),
           \A u \in Threads : Status(u)' = "BLOCKED" <=> Status(u) = "BLOCKED" /\ u # t,
           \A u \in Threads : ~Alive(u)' => block_status'[u] = "RUNNABLE"
    PROVE  BlockInv'
<1>1. \A o \in blocked_queue : o.thread \in Threads
  BY DEF TypeOK, BlockingObject
<1>2. \A o \in blocked_queue' : o \in blocked_queue /\ o.thread # t
  BY DEF ObjectsOf
<1>3. ASSUME NEW u \in Threads
      PROVE  Status(u)' = "BLOCKED" <=> \E o \in blocked_queue' : o.thread = u
  <2>1. (\E o \in blocked_queue' : o.thread = u) <=> (\E o \in blocked_queue : o.thread = u) /\ u # t
    BY DEF ObjectsOf
  <2> QED
    BY <2>1 DEF BlockInv
<1>4. \A o, p \in blocked_queue' : o.thread = p.thread => o = p
  BY <1>2 DEF BlockInv
<1> QED
  BY <1>3, <1>4 DEF BlockInv

\* Threads are unblocked: each loses the object it has.
LEMMA BlockWoken ==
    ASSUME TypeOK, BlockInv, NEW woken \in SUBSET (blocked_queue \ Dangling), InterQuantum(woken),
           ~InTimerGoal, ~InTimerGoal',
           UNCHANGED condition
    PROVE  /\ BlockInv'
           /\ \A t \in Threads : block_status[t] # "BLOCKED" => block_status'[t] # "BLOCKED"
           /\ \A t \in Threads : block_status[t] = "RUNNABLE" => block_status'[t] = "RUNNABLE"
<1>1. PICK status \in [{o.thread : o \in woken} -> Restarts] :
        block_status' = [t \in Threads |-> IF t \in DOMAIN status THEN status[t]
                                           ELSE block_status[t]]
  BY InterQuantumStatus
<1>2. DOMAIN status = {o.thread : o \in woken} /\ \A t \in DOMAIN status : status[t] # "BLOCKED"
  BY DEF Restarts
<1>3. blocked_queue' = blocked_queue \ woken /\ woken \subseteq blocked_queue
  BY DEF InterQuantum
<1>4. \A t \in Threads : Status(t) = block_status[t] /\ Status(t)' = block_status'[t]
  BY DEF Status
<1>5. \A t \in Threads : block_status[t] # "BLOCKED" => block_status'[t] # "BLOCKED"
  BY <1>1, <1>2
<1>r. ASSUME NEW t \in Threads, block_status[t] = "RUNNABLE"
      PROVE  block_status'[t] = "RUNNABLE"
  <2>1. t \notin DOMAIN status
    BY <1>2, <1>3, <1>4, <1>r DEF BlockInv
  <2> QED
    BY <1>1, <1>r, <2>1
<1>6. ASSUME NEW t \in Threads
      PROVE  block_status'[t] = "BLOCKED" <=> \E o \in blocked_queue' : o.thread = t
  <2>1. block_status[t] = "BLOCKED" <=> \E o \in blocked_queue : o.thread = t
    BY <1>4 DEF BlockInv
  <2>2. CASE t \in DOMAIN status
    <3>1. PICK o \in woken : o.thread = t
      BY <1>2, <2>2
    <3>2. \A p \in blocked_queue : p.thread = t => p = o
      BY <1>3, <3>1 DEF BlockInv
    <3> QED
      BY <1>1, <1>2, <1>3, <2>2, <3>1, <3>2
  <2>3. CASE t \notin DOMAIN status
    <3>1. \A o \in woken : o.thread # t
      BY <1>2, <2>3
    <3> QED
      BY <1>1, <1>3, <2>1, <2>3, <3>1
  <2> QED
    BY <2>2, <2>3
<1>7. ASSUME NEW t \in Threads, ~Alive(t)'
      PROVE  block_status'[t] = "RUNNABLE"
  <2>1. ~Alive(t) /\ block_status[t] = "RUNNABLE"
    BY <1>7 DEF Alive, BlockInv
  <2>2. t \notin DOMAIN status
    BY <1>2, <1>3, <1>4, <2>1 DEF BlockInv
  <2> QED
    BY <1>1, <2>1, <2>2
<1>8. \A o, p \in blocked_queue' : o.thread = p.thread => o = p
  BY <1>3 DEF BlockInv
<1>9. BlockInv'
  BY <1>4, <1>6, <1>7, <1>8 DEF BlockInv
<1> QED
  BY <1>5, <1>r, <1>9

\* The caller of a nested scheduler is the thread at the iterator or the handler,
\* and no timer goal is in progress.
LEMMA CallerProperty ==
    ASSUME IInv, PlainControl, running_sub_scheduler
    PROVE  /\ Caller \in Threads /\ ~InTimerGoal
           /\ Caller = IF saved.pc = "exec" THEN iter ELSE handler
<1>1. saved.pc \in {"exec", "handler"}
  BY DEF PlainControl
<1>2. CASE saved.pc = "exec"
  BY <1>2, SchedulerAssumption DEF IInv, TypeOK, Iterating, AtNode, Caller, Runs
<1>3. CASE saved.pc = "handler"
  BY <1>3, SchedulerAssumption DEF IInv, TypeOK, Control, Caller, Runs
<1> QED
  BY <1>1, <1>2, <1>3

\* Threads are not blocked by being woken, deleted or resumed.
LEMMA RunKept ==
    ASSUME IInv, PlainControl, RunInv, UNCHANGED <<iter, handler>>,
           \A t \in Threads : block_status[t] # "BLOCKED" => block_status'[t] # "BLOCKED",
           \A t \in Threads : block_status[t] = "RUNNABLE" => block_status'[t] = "RUNNABLE",
           pc' = "exec" => pc = "exec",
           running_sub_scheduler' => running_sub_scheduler /\ saved'.pc = saved.pc,
           pc' = "subexec" => pc = "subexec" /\ sub' = sub,
           Serving' => Serving
    PROVE  RunInv'
<1>1. pc = "exec" => iter \in Threads
  BY SchedulerAssumption DEF IInv, TypeOK, Iterating, AtNode
<1>2. pc = "subexec" => Head(sub) \in Threads
  BY DEF IInv, TypeOK, Control
<1>3. Serving => handler \in Threads
  BY SchedulerAssumption DEF IInv, TypeOK, Control, Serving
<1>4. pc' = "exec" => block_status'[iter'] # "BLOCKED"
  BY <1>1 DEF RunInv
<1>5. pc' = "subexec" => block_status'[Head(sub')] # "BLOCKED"
  BY <1>2 DEF RunInv
<1>6. Serving' => block_status'[handler'] = "RUNNABLE"
  BY <1>3 DEF RunInv
<1>7. running_sub_scheduler' => block_status'[Caller'] # "BLOCKED"
  <2>1. running_sub_scheduler' => Caller \in Threads /\ Caller' = Caller
    BY CallerProperty DEF PlainControl, Caller, Runs
  <2> QED
    BY <2>1 DEF RunInv
<1> QED
  BY <1>4, <1>5, <1>6, <1>7 DEF RunInv

(***************************************************************************)
(* The steps of Schedule.                                                  *)
(***************************************************************************)

\* Steps that leave the table, the run queue and the list alone.
LEMMA QuietAgrees ==
    ASSUME Agreeing, UNCHANGED <<run_queue, tableVars, condition, handler, sub>>,
           Deleted' <=> Deleted, Deleted => iter' = iter,
           running_sub_scheduler' <=> running_sub_scheduler,
           running_sub_scheduler => iter' = iter /\ saved'.pc = saved.pc,
           Serving' <=> Serving, pc' # "hsleep",
           BlockInv', RunInv', NoSleepWhileRunnable'
    PROVE  Agreeing'
<1>1. TableInv' /\ QueueInv'
  BY TableKept, QueueKept DEF Agreeing
<1>2. PlainControl'
  <2>1. Listed' = Listed /\ Queued' = Queued
    BY DEF Listed, Queued
  <2>2. ~running_sub_scheduler => Listed = {}
    BY DEF Agreeing, PlainControl, Listed
  <2>3. Caller' = Caller \/ ~running_sub_scheduler
    BY CallerProperty DEF Agreeing, PlainControl, Caller, Runs
  <2> QED
    BY <2>1, <2>2, <2>3 DEF Agreeing, PlainControl
<1> QED
  BY <1>1, <1>2 DEF Agreeing

LEMMA NoTimerGoalAgrees ==
    ASSUME IInv, Agreeing, NoTimerGoal
    PROVE  Agreeing'
<1> USE DEF NoTimerGoal, Goto, queueVars, threadVars, signalVars
<1>1. BlockInv'
  BY BlockKept DEF Agreeing, BlockInv, Status
<1>2. RunInv' /\ NoSleepWhileRunnable'
  BY DEF RunInv, NoSleepWhileRunnable, Serving, Handling
<1> QED
  BY <1>1, <1>2, QuietAgrees DEF Deleted, Serving, Handling

LEMMA RunTimerGoalAgrees ==
    ASSUME IInv, Agreeing, RunTimerGoal
    PROVE  Agreeing'
<1> USE DEF RunTimerGoal, queueVars, signalVars
<1>1. BlockInv'
  <2>1. block_status \in [Threads -> BlockStatuses] /\ Initial \in Threads
    BY SchedulerAssumption DEF IInv, TypeOK
  <2>2. /\ \A t \in Threads : Status(t)' = "BLOCKED" <=> Status(t) = "BLOCKED"
        /\ \A t \in Threads : ~Alive(t) => block_status'[t] = "RUNNABLE"
    BY <2>1 DEF Agreeing, BlockInv, Status, IInv, TypeOK
  <2> QED
    BY <2>2, BlockKept DEF Agreeing
<1>2. RunInv' /\ NoSleepWhileRunnable'
  BY DEF RunInv, NoSleepWhileRunnable, Serving, Handling
<1> QED
  BY <1>1, <1>2, QuietAgrees DEF Deleted, Serving, Handling

LEMMA TimerGoalDoneAgrees ==
    ASSUME IInv, Agreeing, TimerGoalDone
    PROVE  Agreeing'
<1> USE DEF TimerGoalDone, Goto, queueVars, signalVars
<1>1. ret \in {"walk", "advance"}
  BY DEF IInv, Control
<1>2. BlockInv'
  <2>1. block_status \in [Threads -> BlockStatuses] /\ Initial \in Threads
    BY SchedulerAssumption DEF IInv, TypeOK
  <2>2. Alive(Initial)
    BY <2>1 DEF IInv, Iterating, Control, Agreeing, QueueInv
  <2>3. /\ \A t \in Threads : Status(t)' = "BLOCKED" <=> Status(t) = "BLOCKED"
        /\ \A t \in Threads : ~Alive(t) => block_status'[t] = "RUNNABLE"
    BY <1>1, <2>1, <2>2 DEF Agreeing, BlockInv, Status
  <2> QED
    BY <2>3, BlockKept DEF Agreeing
<1>3. RunInv' /\ NoSleepWhileRunnable'
  BY <1>1 DEF RunInv, NoSleepWhileRunnable, Serving, Handling
<1> QED
  BY <1>1, <1>2, <1>3, QuietAgrees DEF Deleted, Serving, Handling

LEMMA StartWalkAgrees ==
    ASSUME IInv, Agreeing, StartWalk
    PROVE  Agreeing'
<1> USE DEF StartWalk, Goto, queueVars, threadVars, signalVars
<1>1. BlockInv'
  BY BlockKept DEF Agreeing, BlockInv, Status
<1>2. RunInv' /\ NoSleepWhileRunnable'
  BY DEF RunInv, NoSleepWhileRunnable, Serving, Handling
<1> QED
  BY <1>1, <1>2, QuietAgrees DEF Deleted, Serving, Handling

LEMMA VisitExitedAgrees ==
    ASSUME IInv, Agreeing, VisitExited
    PROVE  Stopped' \/ Agreeing'
<1> USE DEF VisitExited, Goto, signalVars
<1>1. run_queue \in Seq(Threads) /\ iter \in Threads /\ iter \in Queued /\ TypeOK
  BY DEF IInv, TypeOK, Iterating
<1>2. pc = "visit" /\ pc' \in {"visit", "fatal"} /\ Alive(iter) /\ sub = <<>> /\ handler = NULL
  BY DEF Alive, Agreeing, PlainControl, Serving, Handling
<1>3. TableInv' /\ \A u \in Threads : Alive(u)' <=> Alive(u) /\ u # iter
  BY <1>1, <1>2, DeleteThreadTable DEF Agreeing
<1>4. QueueInv'
  BY <1>1, <1>2, <1>3, QueueErased, SchedulerAssumption DEF Agreeing, Deleted
<1>5. BlockInv'
  <2>1. iter # Initial /\ block_status \in [Threads -> BlockStatuses]
    BY <1>1 DEF IInv, Control, TypeOK
  <2>2. \A u \in Threads : block_status'[u] = IF u = iter THEN "RUNNABLE" ELSE block_status[u]
    BY <1>1, <2>1
  <2>3. /\ \A u \in Threads : Status(u)' = "BLOCKED" <=> Status(u) = "BLOCKED" /\ u # iter
        /\ \A u \in Threads : ~Alive(u)' => block_status'[u] = "RUNNABLE"
    BY <1>2, <1>3, <2>2 DEF Status, Agreeing, BlockInv
  <2> QED
    BY <1>1, <2>3, BlockCleared DEF Agreeing
<1>6. PlainControl'
  BY <1>2 DEF PlainControl, Serving, Handling, Listed
<1>7. RunInv' /\ NoSleepWhileRunnable'
  BY <1>2 DEF RunInv, NoSleepWhileRunnable, Serving, Handling
<1> QED
  BY <1>3, <1>4, <1>5, <1>6, <1>7 DEF Agreeing

LEMMA VisitAgrees ==
    ASSUME IInv, Agreeing, Visit
    PROVE  Agreeing'
<1> USE DEF Visit, Goto, signalVars
<1>1. /\ pc = "visit" /\ pc' \in {"visit", "sleep", "exec"}
      /\ pc' = "sleep" => ret' = "visit"
      /\ pc' = "exec" => block_status'[iter'] # "BLOCKED"
      /\ sub' = sub
  OBVIOUS
<1>2. BlockInv'
  BY <1>1, BlockWoken DEF IInv, Agreeing
<1>3. RunInv' /\ NoSleepWhileRunnable'
  BY <1>1 DEF RunInv, NoSleepWhileRunnable, Serving, Handling
<1> QED
  BY <1>1, <1>2, <1>3, QuietAgrees DEF Deleted, Serving, Handling

LEMMA AdvanceAgrees ==
    ASSUME IInv, Agreeing, Advance
    PROVE  Stopped' \/ Agreeing'
<1> USE DEF Advance, Goto, tableVars, threadVars, signalVars
<1>1. /\ pc = "advance" /\ pc' \in {"visit", "fatal", "sleep"}
      /\ pc' = "sleep" => ret' = "visit"
      /\ sub' = sub
  OBVIOUS
<1>2. BlockInv'
  BY <1>1, BlockKept DEF Agreeing, BlockInv, Status
<1>3. RunInv' /\ NoSleepWhileRunnable'
  BY <1>1 DEF RunInv, NoSleepWhileRunnable, Serving, Handling
<1>4. CASE result # "EXIT"
  BY <1>1, <1>2, <1>3, <1>4, QuietAgrees DEF Deleted, Serving, Handling
<1>5. CASE result = "EXIT"
  <2>1. Deleted /\ ~Deleted' /\ run_queue' = Nodes
    BY <1>1, <1>5 DEF Deleted, Nodes
  <2>2. sub' = <<>> /\ handler' = NULL /\ handler = NULL
    BY <1>1 DEF Agreeing, PlainControl, Serving, Handling
  <2>3. QueueInv'
    <3> DEFINE q == run_queue'
    <3>1. /\ \A i, j \in DOMAIN q : q[i] = q[j] => i = j
          /\ \A u \in Threads : (\E i \in DOMAIN q : q[i] = u) <=> Alive(u) /\ u # handler
      BY <2>1, NodesProperty DEF Agreeing
    <3>2. \A u \in Threads : Alive(u)' <=> Alive(u)
      BY DEF Alive
    <3> HIDE DEF q
    <3>3. \A u \in Threads : u \in Queued' <=> (Alive(u)' /\ u # handler') \/ (Deleted' /\ u = iter')
      BY <2>1, <2>2, <3>1, <3>2 DEF Queued, q
    <3>4. \A i, j, k \in DOMAIN q : q[i] = q[j] /\ q[j] = q[k] => i = j \/ j = k \/ i = k
      BY <3>1
    <3> QED
      BY <2>1, <2>2, <3>1, <3>3, <3>4 DEF QueueInv, q
  <2>4. TableInv'
    BY TableKept DEF Agreeing
  <2>5. PlainControl'
    BY <1>1, <2>2 DEF PlainControl, Serving, Handling, Listed
  <2> QED
    BY <1>2, <1>3, <2>3, <2>4, <2>5 DEF Agreeing
<1> QED
  BY <1>4, <1>5

\* As many blocking objects as nodes: every thread of the run queue has one.
LEMMA NoneRunnableProperty ==
    ASSUME IInv, Agreeing, pc = "visit", NoneRunnable
    PROVE  \A t \in Queued : Status(t) = "BLOCKED"
<1> DEFINE f == [o \in blocked_queue |-> o.thread]
<1>1. run_queue \in Seq(Threads) /\ blocked_queue \subseteq BlockingObject /\ Queued \subseteq Threads
  BY DEF IInv, TypeOK, Queued
<1>2. handler = NULL /\ ~Deleted /\ Nodes = run_queue
  BY DEF Agreeing, PlainControl, Serving, Handling, Deleted, Nodes
<1>3. \A i, j \in DOMAIN run_queue : run_queue[i] = run_queue[j] => i = j
  BY <1>2, NodesProperty DEF Agreeing
<1>4. IsFiniteSet(Queued) /\ Cardinality(Queued) = Len(run_queue)
  <2>1. /\ Len(run_queue) \in Nat /\ DOMAIN run_queue = 1 .. Len(run_queue)
        /\ run_queue \in [1 .. Len(run_queue) -> Queued]
    BY <1>1 DEF Queued
  <2>2. run_queue \in Bijection(1 .. Len(run_queue), Queued)
    BY <1>3, <2>1 DEF Bijection, Injection, Surjection, IsInjective, Queued
  <2>3. ExistsBijection(1 .. Len(run_queue), Queued)
    BY <2>2 DEF ExistsBijection
  <2> QED
    BY <2>1, <2>3, FS_CountingElements, FS_NatBijection
<1>5. f \in Injection(blocked_queue, Queued)
  <2>1. ASSUME NEW o \in blocked_queue
        PROVE  o.thread \in Queued
    <3>1. o.thread \in Threads
      BY <1>1 DEF BlockingObject
    <3>2. block_status[o.thread] = "BLOCKED"
      BY <3>1 DEF Agreeing, BlockInv, Status
    <3>3. Alive(o.thread)
      BY <3>1, <3>2 DEF Agreeing, BlockInv
    <3> QED
      BY <1>2, <3>1, <3>3, SchedulerAssumption DEF Agreeing, QueueInv
  <2>2. \A o, p \in blocked_queue : o.thread = p.thread => o = p
    BY DEF Agreeing, BlockInv
  <2> QED
    BY <2>1, <2>2 DEF Injection, IsInjective
<1>6. f \in Surjection(blocked_queue, Queued)
  <2>1. Cardinality(blocked_queue) = Cardinality(Queued)
    BY <1>4 DEF NoneRunnable
  <2> HIDE DEF f
  <2> QED
    BY <1>4, <1>5, <2>1, FS_Injection
<1>7. \A t \in Queued : \E o \in blocked_queue : o.thread = t
  BY <1>6 DEF Surjection
<1> QED
  BY <1>1, <1>7 DEF Agreeing, BlockInv

LEMMA RoundEndAgrees ==
    ASSUME IInv, Agreeing, RoundEnd
    PROVE  Agreeing'
<1> USE DEF RoundEnd, Goto, queueVars, threadVars, signalVars
<1>1. pc = "visit" /\ pc' \in {"sleep", "round"} /\ sub' = sub
  OBVIOUS
<1>2. BlockInv'
  BY <1>1, BlockKept DEF Agreeing, BlockInv, Status
<1>3. RunInv'
  BY <1>1 DEF RunInv, Serving, Handling
<1>4. NoSleepWhileRunnable'
  <2>1. CASE NoneRunnable
    <3>1. \A t \in Queued : Status(t) = "BLOCKED"
      BY <1>1, <2>1, NoneRunnableProperty
    <3>2. \A t \in Queued' : Status(t)' = "BLOCKED"
      BY <1>1, <3>1 DEF Queued, Status
    <3> QED
      BY <3>2 DEF NoSleepWhileRunnable
  <2>2. CASE ~NoneRunnable
    BY <2>2 DEF NoSleepWhileRunnable
  <2> QED
    BY <2>1, <2>2
<1> QED
  BY <1>1, <1>2, <1>3, <1>4, QuietAgrees DEF Deleted, Serving, Handling

LEMMA SleepAgrees ==
    ASSUME IInv, Agreeing, Sleep
    PROVE  Agreeing'
<1> USE DEF Sleep, Goto, signalVars
<1>1. pc = "sleep" /\ pc' \in {"visit", "round"} /\ sub' = sub
  BY DEF IInv, Control
<1>2. BlockInv'
  BY <1>1, BlockWoken DEF IInv, Agreeing
<1>3. RunInv' /\ NoSleepWhileRunnable'
  BY <1>1 DEF RunInv, NoSleepWhileRunnable, Serving, Handling
<1> QED
  BY <1>1, <1>2, <1>3, QuietAgrees DEF Deleted, Serving, Handling

LEMMA ListedTail ==
    ASSUME sub \in Seq(Threads), sub # <<>>, sub' = Tail(sub)
    PROVE  Listed' \subseteq Listed
BY DEF Listed

LEMMA SubVisitAgrees ==
    ASSUME IInv, Agreeing, SubVisit
    PROVE  Stopped' \/ Agreeing'
<1> USE DEF SubVisit, tableVars, signalVars
<1>1. CASE condition[Head(sub)] = "EXITED"
  BY <1>1 DEF Stopped
<1>2. CASE condition[Head(sub)] # "EXITED"
  <2>1. /\ pc = "subvisit" /\ pc' \in {"subvisit", "subexec"}
        /\ pc' = "subexec" => sub' = sub /\ block_status'[Head(sub)] # "BLOCKED"
        /\ sub' \in {sub, Tail(sub)}
        /\ Caller \in Threads /\ Caller' = Caller
        /\ ~InTimerGoal /\ ~InTimerGoal'
    BY <1>2, CallerProperty DEF Agreeing, PlainControl, Caller, Runs
  <2>2. /\ BlockInv'
        /\ \A t \in Threads : block_status[t] # "BLOCKED" => block_status'[t] # "BLOCKED"
        /\ \A t \in Threads : block_status[t] = "RUNNABLE" => block_status'[t] = "RUNNABLE"
    BY <1>2, <2>1, BlockWoken DEF IInv, Agreeing
  <2>3. RunInv' /\ NoSleepWhileRunnable'
    <3>1. block_status'[Caller'] # "BLOCKED"
      BY <2>1, <2>2 DEF Agreeing, RunInv
    <3>2. Serving => handler \in Threads
      BY SchedulerAssumption DEF IInv, TypeOK, Control, Serving
    <3>3. Serving' => Serving /\ block_status'[handler'] = "RUNNABLE"
      BY <2>1, <2>2, <3>2 DEF Agreeing, RunInv, Serving, Handling
    <3> QED
      BY <2>1, <3>1, <3>3 DEF RunInv, NoSleepWhileRunnable
  <2>4. TableInv' /\ QueueInv'
    BY <2>1, TableKept, QueueKept DEF Agreeing, Deleted
  <2>5. PlainControl'
    <3>1. Listed' \subseteq Listed
      <4>1. sub \in Seq(Threads) /\ sub # <<>>
        BY DEF IInv, TypeOK
      <4>2. sub' = sub => Listed' \subseteq Listed
        BY DEF Listed
      <4> QED
        BY <2>1, <4>1, <4>2, ListedTail
    <3> QED
      BY <2>1, <3>1 DEF Agreeing, PlainControl, Serving, Handling, Queued
  <2> QED
    BY <2>2, <2>3, <2>4, <2>5 DEF Agreeing
<1> QED
  BY <1>1, <1>2

LEMMA SubDoneAgrees ==
    ASSUME IInv, Agreeing, SubDone
    PROVE  Agreeing'
<1> USE DEF SubDone, queueVars, tableVars, signalVars
<1>1. /\ Caller \in Threads /\ block_status[Caller] # "BLOCKED"
      /\ block_status \in [Threads -> BlockStatuses]
      /\ ~InTimerGoal /\ running_sub_scheduler
      /\ saved.pc \in {"exec", "handler"}
  BY CallerProperty DEF IInv, TypeOK, Agreeing, PlainControl, RunInv
<1>2. /\ pc' = saved.pc /\ ret' = saved.ret /\ sub' = <<>>
      /\ ~(running_sub_scheduler')
      /\ block_status' = [block_status EXCEPT ![Caller] = "RUNNABLE"]
  BY <1>1 DEF IInv, Control, Caller
<1>3. ~InTimerGoal'
  BY <1>1, <1>2
<1>4. BlockInv'
  <2>1. /\ \A t \in Threads : Status(t)' = "BLOCKED" <=> Status(t) = "BLOCKED"
        /\ \A t \in Threads : ~Alive(t) => block_status'[t] = "RUNNABLE"
    <3>1. \A t \in Threads : Status(t) = block_status[t] /\ Status(t)' = block_status'[t]
      BY <1>1, <1>3 DEF Status
    <3> QED
      BY <1>1, <1>2, <3>1 DEF Agreeing, BlockInv
  <2> QED
    BY <2>1, BlockKept DEF Agreeing
<1>5. RunInv' /\ NoSleepWhileRunnable'
  <2>1. saved.pc = "exec" => Caller = iter
    BY <1>1, CallerProperty DEF Agreeing
  <2>2. saved.pc = "handler" => block_status'[handler] = "RUNNABLE"
    BY <1>1, <1>2, CallerProperty DEF Agreeing
  <2> QED
    BY <1>1, <1>2, <2>1, <2>2 DEF RunInv, NoSleepWhileRunnable, Serving, Handling
<1>6. TableInv' /\ QueueInv'
  BY <1>1, <1>2, TableKept, QueueKept DEF Agreeing, Deleted
<1>7. PlainControl'
  BY <1>1, <1>2 DEF Agreeing, PlainControl, Serving, Handling, Listed
<1> QED
  BY <1>4, <1>5, <1>6, <1>7 DEF Agreeing

LEMMA StartHandlerAgrees ==
    ASSUME IInv, Agreeing, NEW t \in Threads, StartHandler(t)
    PROVE  Agreeing'
<1> USE DEF StartHandler, AtHandleSignal, Goto, queueVars
<1>1. /\ pc \in {"switch", "sleep"} /\ pc' = "handler" /\ ret' = ret /\ sub' = sub
      /\ pc = "sleep" => ret \in {"visit", "round"}
      /\ pc = "switch" => ret \in {"timers", "subvisit"}
      /\ running_sub_scheduler => saved.pc = "exec"
      /\ running_sub_scheduler' <=> running_sub_scheduler
      /\ UNCHANGED <<saved, run_queue, iter>>
  BY DEF IInv, Control, Agreeing, PlainControl
<1>2. ~Deleted /\ ~Deleted' /\ handler = NULL /\ handler' = t /\ ~Alive(t) /\ t # NULL
  BY <1>1, SchedulerAssumption DEF Deleted, Agreeing, PlainControl, Serving, Handling, Alive, IInv, Control
<1>3. TableInv' /\ \A u \in Threads : Alive(u)' <=> Alive(u) \/ u = t
  BY <1>2, NewThreadTable DEF IInv, Agreeing
<1>4. QueueInv'
  <2>1. Alive(handler)'
    BY <1>2, <1>3 DEF Alive
  <2>2. \A u \in Threads : u \in Queued' <=> u \in Queued
    BY DEF Queued
  <2>3. \A u \in Threads : u \in Queued <=> Alive(u)
    BY <1>2, SchedulerAssumption DEF Agreeing, QueueInv
  <2>4. \A u \in Threads : u \in Queued' <=> (Alive(u)' /\ u # handler') \/ (Deleted' /\ u = iter')
    BY <1>2, <1>3, <2>2, <2>3
  <2> QED
    BY <1>2, <2>1, <2>4 DEF Agreeing, QueueInv
<1>5. BlockInv'
  BY <1>1, <1>3 DEF Agreeing, BlockInv, Status
<1>6. RunInv' /\ NoSleepWhileRunnable'
  <2>1. block_status[t] = "RUNNABLE"
    BY <1>2 DEF Agreeing, BlockInv
  <2>2. running_sub_scheduler => Caller' = iter /\ Caller = iter
    BY <1>1 DEF Caller, Runs
  <2> QED
    BY <1>1, <1>2, <2>1, <2>2 DEF Agreeing, RunInv, NoSleepWhileRunnable, Serving, Handling
<1>7. PlainControl'
  <2>1. Listed' = Listed /\ Queued' = Queued
    BY <1>1 DEF Listed, Queued
  <2>2. running_sub_scheduler => Caller' = Caller
    BY <1>1 DEF Caller, Runs
  <2>3. ~running_sub_scheduler => Listed = {}
    BY DEF Agreeing, PlainControl, Listed
  <2>4. Listed' \subseteq Queued' \ {Caller'}
    BY <2>1, <2>2, <2>3 DEF Agreeing, PlainControl
  <2> QED
    BY <1>1, <2>4 DEF Agreeing, PlainControl, Serving, Handling
<1> QED
  BY <1>3, <1>4, <1>5, <1>6, <1>7 DEF Agreeing

LEMMA HandlerDoneAgrees ==
    ASSUME IInv, Agreeing, HandlerDone
    PROVE  Agreeing'
<1> USE DEF HandlerDone, Goto, queueVars
<1>1. /\ pc = "handlerdone" /\ pc' = ret /\ ret \in {"timers", "subvisit", "visit", "round"}
      /\ sub' = sub /\ ret' = ret
      /\ handler \in Threads /\ handler' = NULL
      /\ ret = "timers" => result' = "SIGNAL"
      /\ running_sub_scheduler => saved.pc = "exec"
      /\ running_sub_scheduler' <=> running_sub_scheduler
      /\ UNCHANGED <<saved, run_queue, iter, blocked_queue>>
  BY DEF IInv, TypeOK, Control, Handling, Agreeing, PlainControl
<1>2. ~Deleted /\ ~Deleted' /\ Alive(handler)
  BY <1>1, SchedulerAssumption DEF Deleted, Agreeing, QueueInv
<1>3. TableInv' /\ \A u \in Threads : Alive(u)' <=> Alive(u) /\ u # handler
  BY <1>1, <1>2, DeleteThreadTable DEF IInv, Agreeing
<1>4. QueueInv'
  <2>1. \A u \in Threads : u \in Queued' <=> u \in Queued
    BY DEF Queued
  <2>2. \A u \in Threads : u \in Queued' <=> (Alive(u)' /\ u # handler') \/ (Deleted' /\ u = iter')
    BY <1>1, <1>2, <1>3, <2>1, SchedulerAssumption DEF Agreeing, QueueInv
  <2> QED
    BY <1>1, <1>2, <2>2 DEF Agreeing, QueueInv
<1>5. block_status \in [Threads -> BlockStatuses] /\ block_status[handler] = "RUNNABLE"
  BY <1>1 DEF IInv, TypeOK, Agreeing, RunInv, Serving, Handling
<1>6. block_status' = block_status
  BY <1>1, <1>5
<1>7. BlockInv'
  BY <1>1, <1>3, <1>5, <1>6 DEF Agreeing, BlockInv, Status
<1>8. RunInv' /\ NoSleepWhileRunnable'
  <2>1. running_sub_scheduler => Caller' = iter /\ Caller = iter
    BY <1>1 DEF Caller, Runs
  <2> QED
    BY <1>1, <1>6, <2>1 DEF Agreeing, RunInv, NoSleepWhileRunnable, Serving, Handling
<1>9. PlainControl'
  <2>1. Listed' = Listed /\ Queued' = Queued
    BY <1>1 DEF Listed, Queued
  <2>2. running_sub_scheduler => Caller' = Caller
    BY <1>1 DEF Caller, Runs
  <2>3. ~running_sub_scheduler => Listed = {}
    BY DEF Agreeing, PlainControl, Listed
  <2>4. Listed' \subseteq Queued' \ {Caller'}
    BY <2>1, <2>2, <2>3 DEF Agreeing, PlainControl
  <2> QED
    BY <1>1, <2>4 DEF Agreeing, PlainControl, Serving, Handling
<1> QED
  BY <1>3, <1>4, <1>7, <1>8, <1>9 DEF Agreeing

(***************************************************************************)
(* The operations of threads.                                              *)
(***************************************************************************)

\* What is known of the thread that executes.
LEMMA SelfProperty ==
    ASSUME IInv, Agreeing, Executing
    PROVE  /\ Self \in Threads /\ Alive(Self)
           /\ pc # "handler" => Self \in Queued /\ Self # handler
           /\ pc \in {"exec", "tgoal"} => handler = NULL
           /\ pc # "tgoal" => ~Deleted /\ block_status[Self] # "BLOCKED"
           /\ pc = "handler" => Self = handler
           /\ pc = "tgoal" => Self = Initial
           /\ Alive(Initial) /\ Initial # handler
           /\ pc = "subexec" => Self # Caller
           /\ InTimerGoal => pc = "tgoal"
<1>1. Self \in Threads
  BY SelfType
<1>2. Alive(Initial) /\ Initial # handler
  BY SchedulerAssumption DEF IInv, Iterating, Control, Agreeing, QueueInv, PlainControl, Handling,
     Deleted
<1>3. pc \in {"exec", "tgoal"} => handler = NULL
  BY DEF Agreeing, PlainControl, Serving, Handling
<1>t. InTimerGoal => pc = "tgoal"
  BY CallerProperty DEF Agreeing, Executing
<1>4. CASE pc = "exec"
  <2>1. Self = iter /\ iter \in Queued /\ ~Deleted
    BY <1>4, SchedulerAssumption DEF Self, Runs, IInv, Iterating, AtNode, Deleted
  <2> QED
    BY <1>1, <1>2, <1>3, <1>t, <1>4, <2>1 DEF Agreeing, QueueInv, RunInv
<1>5. CASE pc = "subexec"
  <2>1. sub \in Seq(Threads) /\ sub # <<>> /\ Self = Head(sub)
    BY <1>5 DEF Self, Runs, IInv, TypeOK, Control
  <2>2. Head(sub) \in Listed
    BY <2>1 DEF Listed
  <2>3. Self \in Queued /\ Self # Caller /\ ~Deleted
    BY <1>5, <2>1, <2>2, CallerProperty DEF Agreeing, PlainControl, Deleted
  <2> QED
    BY <1>1, <1>2, <1>3, <1>t, <1>5, <2>1, <2>3 DEF Agreeing, QueueInv, RunInv
<1>6. CASE pc = "tgoal"
  <2>1. Self = Initial /\ Initial \in Queued
    BY <1>6 DEF Self, Runs, IInv, Iterating
  <2> QED
    BY <1>1, <1>2, <1>3, <1>t, <1>6, <2>1
<1>7. CASE pc = "handler"
  <2>1. Self = handler /\ ~Deleted /\ handler # NULL
    BY <1>7 DEF Self, Runs, Deleted, IInv, Control, Handling, Agreeing, PlainControl
  <2> QED
    BY <1>1, <1>2, <1>t, <1>7, <2>1 DEF Agreeing, QueueInv, RunInv, Serving, Handling
<1> QED
  BY <1>4, <1>5, <1>6, <1>7 DEF Executing

\* Where the scheduler is after a thread has dropped out of Execute.
LEMMA DropOutPlaces ==
    ASSUME IInv, PlainControl, Executing, NEW r \in Reasons, DropOut(r),
           UNCHANGED <<run_queue, handler>>, r = "BLOCK" => pc \in {"exec", "subexec"},
           r = "SIGNAL" => ~in_sigint
    PROVE  \/ Stopped'
           \/ /\ PlainControl'
              /\ pc' \notin {"exec", "subexec", "sleep"}
              /\ InTimerGoal' <=> InTimerGoal
              /\ running_sub_scheduler' => running_sub_scheduler
              /\ Serving' => Serving
              /\ Deleted' <=> (IF pc = "exec" THEN r = "EXIT" ELSE Deleted)
              /\ UNCHANGED <<iter, saved>>
<1> USE DEF DropOut
<1>1. CASE r = "HALT"
  BY <1>1 DEF Stopped
<1>2. Listed' \subseteq Listed /\ Queued' = Queued
  <2>1. sub \in Seq(Threads) /\ (pc = "subexec" => sub # <<>>)
    BY DEF IInv, TypeOK, Control
  <2>2. sub' = sub => Listed' \subseteq Listed
    BY DEF Listed
  <2> QED
    BY <2>1, <2>2, ListedTail DEF Queued
<1>c. running_sub_scheduler => Caller' = Caller
  BY CallerProperty DEF PlainControl, Caller, Runs
<1>l. ~running_sub_scheduler => Listed = {}
  BY DEF PlainControl, Listed
<1>a. Listed' \subseteq Queued' \ {Caller'}
  BY <1>2, <1>c, <1>l DEF PlainControl
<1>3. CASE r # "HALT" /\ pc = "exec"
  <2>1. /\ pc' = (IF r = "SIGNAL" THEN "switch" ELSE "timers") /\ sub' = sub /\ result' = r
        /\ pc' = "switch" => ret' = "timers"
    BY <1>3
  <2> QED
    BY <1>a, <1>3, <2>1 DEF PlainControl, Serving, Handling, Deleted
<1>4. CASE r # "HALT" /\ pc = "subexec"
  <2>1. /\ pc' = (IF r = "SIGNAL" THEN "switch" ELSE "subvisit") /\ result' = result
        /\ pc' = "switch" => ret' = "subvisit" /\ handler = NULL
    BY <1>4 DEF in_sigint
  <2>2. running_sub_scheduler' /\ saved' = saved /\ saved.pc \in {"exec", "handler"}
    BY <1>4, <2>1 DEF PlainControl
  <2> QED
    BY <1>a, <1>4, <2>1, <2>2 DEF PlainControl, Serving, Handling, Deleted
<1>5. CASE r # "HALT" /\ pc = "tgoal"
  <2>1. pc' = "tgoaldone" /\ UNCHANGED <<ret, sub, result>>
    BY <1>5
  <2> QED
    BY <1>a, <1>5, <2>1 DEF PlainControl, Serving, Handling, Deleted, IInv, Control
<1>6. CASE r # "HALT" /\ pc = "handler"
  <2>1. pc' = "handlerdone" /\ UNCHANGED <<ret, sub, result>>
    BY <1>6
  <2> QED
    BY <1>a, <1>6, <2>1 DEF PlainControl, Serving, Handling, Deleted
<1> QED
  BY <1>1, <1>3, <1>4, <1>5, <1>6 DEF Executing

\* A pseudo-instruction that succeeds or fails makes no thread blocked.
LEMMA ContinuesBlock ==
    ASSUME IInv, Agreeing, Executing, Continues \/ UNCHANGED block_status,
           UNCHANGED <<blocked_queue, condition, saved>>,
           InTimerGoal' <=> InTimerGoal
    PROVE  /\ BlockInv'
           /\ \A t \in Threads : block_status[t] # "BLOCKED" => block_status'[t] # "BLOCKED"
           /\ \A t \in Threads : block_status[t] = "RUNNABLE" => block_status'[t] = "RUNNABLE"
<1>1. /\ Self \in Threads /\ Alive(Self)
      /\ pc # "tgoal" => block_status[Self] # "BLOCKED"
      /\ pc = "tgoal" => Self = Initial
      /\ pc # "tgoaldone"
      /\ block_status \in [Threads -> BlockStatuses]
  BY SelfProperty DEF Executing, IInv, TypeOK
<1>2. \A t \in Threads : block_status'[t] = block_status[t] \/ (t = Self /\ block_status'[t] = "RUNNABLE")
  BY <1>1 DEF Continues
<1>3. /\ \A t \in Threads : Status(t)' = "BLOCKED" <=> Status(t) = "BLOCKED"
      /\ \A t \in Threads : ~Alive(t) => block_status'[t] = "RUNNABLE"
  BY <1>1, <1>2 DEF Status, Agreeing, BlockInv
<1> QED
  BY <1>2, <1>3, BlockKept DEF Agreeing

\* Dropping out with nothing else changed but the block status.
LEMMA DropOutAgrees ==
    ASSUME IInv, Agreeing, Executing, NEW r \in Reasons, DropOut(r),
           UNCHANGED <<queueVars, tableVars, condition, handler>>,
           Continues \/ UNCHANGED block_status,
           r # "BLOCK", r = "EXIT" => pc # "exec", r = "SIGNAL" => ~in_sigint
    PROVE  Stopped' \/ Agreeing'
<1> USE DEF queueVars
<1>1. SUFFICES ASSUME ~Stopped'
               PROVE  Agreeing'
  OBVIOUS
<1>2. /\ PlainControl'
      /\ pc' \notin {"exec", "subexec", "sleep"}
      /\ InTimerGoal' <=> InTimerGoal
      /\ running_sub_scheduler' => running_sub_scheduler
      /\ Serving' => Serving
      /\ Deleted' <=> (IF pc = "exec" THEN r = "EXIT" ELSE Deleted)
      /\ UNCHANGED <<iter, saved>>
  BY <1>1, DropOutPlaces DEF Agreeing
<1>3. BlockInv' /\ RunInv'
  <2>1. /\ BlockInv'
        /\ \A t \in Threads : block_status[t] # "BLOCKED" => block_status'[t] # "BLOCKED"
        /\ \A t \in Threads : block_status[t] = "RUNNABLE" => block_status'[t] = "RUNNABLE"
    BY <1>2, ContinuesBlock
  <2> QED
    BY <1>2, <2>1, RunKept DEF Agreeing
<1>4. TableInv' /\ QueueInv'
  <2>1. Deleted' <=> Deleted
    BY <1>2 DEF Deleted
  <2> QED
    BY <1>2, <2>1, TableKept, QueueKept DEF Agreeing
<1>5. NoSleepWhileRunnable'
  BY <1>2 DEF NoSleepWhileRunnable
<1> QED
  BY <1>2, <1>3, <1>4, <1>5 DEF Agreeing

\* An operation after which the thread goes on, with nothing else changed.
LEMMA ContinuesAgrees ==
    ASSUME IInv, Agreeing, Executing, Continues,
           UNCHANGED <<queueVars, tableVars, condition, placeVars, handler>>
    PROVE  Agreeing'
<1> USE DEF queueVars, placeVars
<1>1. /\ BlockInv'
      /\ \A t \in Threads : block_status[t] # "BLOCKED" => block_status'[t] # "BLOCKED"
      /\ \A t \in Threads : block_status[t] = "RUNNABLE" => block_status'[t] = "RUNNABLE"
  BY ContinuesBlock
<1>2. (Deleted' <=> Deleted) /\ (running_sub_scheduler' <=> running_sub_scheduler) /\ (Serving' <=> Serving)
  BY DEF Deleted, Serving, Handling
<1>3. RunInv'
  BY <1>1, <1>2, RunKept DEF Agreeing
<1>4. NoSleepWhileRunnable' /\ pc' # "hsleep"
  BY DEF NoSleepWhileRunnable, Executing
<1> QED
  BY <1>1, <1>2, <1>3, <1>4, QuietAgrees

\* The operations that change nothing the agreement is about.
LEMMA PlainOperationAgrees ==
    ASSUME IInv, Agreeing,
           \/ Halt \/ GoalDone \/ SignalCheck \/ Timeslice \/ Yield
           \/ Forbid \/ Permit \/ WaitDone \/ ScheduleFails
    PROVE  Stopped' \/ Agreeing'
<1> USE DEF tableVars, threadVars, queueVars
<1>1. CASE Halt
  <2>1. Executing /\ "HALT" \in Reasons /\ DropOut("HALT")
    BY <1>1 DEF Halt, Does, AtCall, Reasons
  <2> QED
    BY <1>1, <2>1, DropOutAgrees DEF Halt
<1>2. CASE GoalDone
  <2>1. Executing /\ "EXIT" \in Reasons /\ DropOut("EXIT") /\ pc # "exec"
    BY <1>2 DEF GoalDone, AtCall, Reasons
  <2> QED
    BY <1>2, <2>1, DropOutAgrees DEF GoalDone
<1>3. CASE SignalCheck
  <2>1. Executing /\ "SIGNAL" \in Reasons /\ DropOut("SIGNAL")
    BY <1>3 DEF SignalCheck, AtCall, Reasons
  <2> QED
    BY <1>3, <2>1, DropOutAgrees DEF SignalCheck
<1>4. CASE Timeslice
  <2>1. Executing /\ "TIMESLICE" \in Reasons /\ DropOut("TIMESLICE")
    BY <1>4 DEF Timeslice, AtCall, Reasons
  <2> QED
    BY <1>4, <2>1, DropOutAgrees DEF Timeslice
<1>5. CASE Yield
  <2>1. Executing /\ "YIELD" \in Reasons /\ DropOut("YIELD")
    BY <1>5 DEF Yield, Does, AtCall, Reasons
  <2> QED
    BY <1>5, <2>1, DropOutAgrees DEF Yield
<1>6. CASE Forbid
  BY <1>6, ContinuesAgrees DEF Forbid, Does, AtCall, signalVars
<1>7. CASE Permit
  BY <1>7, ContinuesAgrees DEF Permit, Does, AtCall, signalVars
<1>8. CASE WaitDone
  BY <1>8, ContinuesAgrees DEF WaitDone, AtCall, signalVars
<1>9. CASE ScheduleFails
  BY <1>9, ContinuesAgrees DEF ScheduleFails, Does, AtCall, signalVars
<1> QED
  BY <1>1, <1>2, <1>3, <1>4, <1>5, <1>6, <1>7, <1>8, <1>9

\* The thread that is reset loses its only blocking object, if it has one.
LEMMA ThrowAgrees ==
    ASSUME IInv, Agreeing, NEW y \in Threads, Throw(y)
    PROVE  Agreeing'
<1> USE DEF Throw, placeVars, signalVars
<1>1. Executing
  BY DEF Does, AtCall
<1>2. /\ Self \in Threads /\ Alive(Self) /\ y # Self
      /\ pc # "tgoal" => block_status[Self] # "BLOCKED"
      /\ pc = "tgoal" => Self = Initial
      /\ InTimerGoal => pc = "tgoal"
      /\ InTimerGoal' <=> InTimerGoal
      /\ block_status \in [Threads -> BlockStatuses]
  BY <1>1, SelfProperty DEF IInv, TypeOK
<1>3. \A t \in Threads : block_status'[t] = IF t \in {Self, y} THEN "RUNNABLE" ELSE block_status[t]
  BY <1>2
<1>4. blocked_queue' = blocked_queue \ ObjectsOf(y)
  <2>1. \A o, p \in ObjectsOf(y) : o = p
    BY DEF ObjectsOf, Agreeing, BlockInv
  <2> QED
    BY <2>1
<1>5. BlockInv'
  <2>1. \A u \in Threads : Status(u)' = "BLOCKED" <=> Status(u) = "BLOCKED" /\ u # y
    BY <1>2, <1>3 DEF Status
  <2>2. \A u \in Threads : ~Alive(u)' => block_status'[u] = "RUNNABLE"
    BY <1>3 DEF Alive, Agreeing, BlockInv
  <2> QED
    BY <1>4, <2>1, <2>2, BlockCleared DEF IInv, Agreeing
<1>6. (Deleted' <=> Deleted) /\ (running_sub_scheduler' <=> running_sub_scheduler) /\ (Serving' <=> Serving)
  BY DEF Deleted, Serving, Handling
<1>7. RunInv'
  BY <1>3, <1>6, RunKept DEF Agreeing
<1>8. NoSleepWhileRunnable' /\ pc' # "hsleep"
  BY <1>1 DEF NoSleepWhileRunnable, Executing
<1> QED
  BY <1>5, <1>6, <1>7, <1>8, QuietAgrees

LEMMA WaitAgrees ==
    ASSUME PlainGoals, IInv, Agreeing, NEW k \in Kinds, Wait(k)
    PROVE  Stopped' \/ Agreeing'
<1> USE DEF Wait, tableVars
<1>1. Executing /\ pc \in {"exec", "subexec"}
  BY DEF PlainGoals, Ops, Executing
<1>2. /\ Self \in Threads /\ Alive(Self) /\ Self # handler /\ ~Deleted /\ ~InTimerGoal
      /\ block_status[Self] # "BLOCKED"
      /\ pc = "subexec" => Self # Caller
      /\ block_status \in [Threads -> BlockStatuses]
  BY <1>1, SelfProperty DEF IInv, TypeOK
<1>3. SUFFICES ASSUME ~Stopped'
               PROVE  Agreeing'
  OBVIOUS
<1>4. /\ PlainControl'
      /\ pc' \notin {"exec", "subexec", "sleep"}
      /\ InTimerGoal' <=> InTimerGoal
      /\ running_sub_scheduler' => running_sub_scheduler
      /\ Serving' => Serving
      /\ ~Deleted'
      /\ UNCHANGED <<iter, saved>>
  <2>1. "BLOCK" \in Reasons /\ DropOut("BLOCK")
    BY DEF Reasons
  <2> QED
    BY <1>1, <1>2, <1>3, <2>1, DropOutPlaces DEF Agreeing
<1>5. PICK p \in NewPtrs : blocked_queue' = blocked_queue \union {[thread |-> Self, kind |-> k, ptr |-> p]}
  OBVIOUS
<1>6. \A t \in Threads : block_status'[t] = IF t = Self THEN "BLOCKED" ELSE block_status[t]
  BY <1>2
<1>7. BlockInv'
  <2>1. \A o \in blocked_queue : o.thread # Self
    BY <1>1, <1>2 DEF Agreeing, BlockInv, Status
  <2>2. \A t \in Threads : Status(t) = block_status[t] /\ Status(t)' = block_status'[t]
    BY <1>2, <1>4 DEF Status
  <2> DEFINE new == [thread |-> Self, kind |-> k, ptr |-> p]
  <2>3. new.thread = Self /\ blocked_queue' = blocked_queue \union {new}
    BY <1>5
  <2> HIDE DEF new
  <2>4. ASSUME NEW t \in Threads
        PROVE  Status(t)' = "BLOCKED" <=> \E o \in blocked_queue' : o.thread = t
    BY <1>6, <2>1, <2>2, <2>3 DEF Agreeing, BlockInv
  <2>5. \A o, q \in blocked_queue' : o.thread = q.thread => o = q
    BY <2>1, <2>3 DEF Agreeing, BlockInv
  <2>6. \A t \in Threads : ~Alive(t)' => block_status'[t] = "RUNNABLE"
    BY <1>2, <1>6 DEF Alive, Agreeing, BlockInv
  <2> QED
    BY <2>4, <2>5, <2>6 DEF BlockInv
<1>8. RunInv'
  <2>1. running_sub_scheduler' => block_status'[Caller'] # "BLOCKED"
    <3>1. running_sub_scheduler' => Caller \in Threads /\ Self # Caller /\ Caller' = Caller
      BY <1>1, <1>2, <1>4, CallerProperty DEF Agreeing, PlainControl, Caller, Runs
    <3> QED
      BY <1>4, <1>6, <3>1 DEF Agreeing, RunInv
  <2>2. Serving' => block_status'[handler'] = "RUNNABLE"
    <3>1. Serving => handler \in Threads
      BY SchedulerAssumption DEF IInv, TypeOK, Control, Serving
    <3> QED
      BY <1>2, <1>4, <1>6, <3>1 DEF Agreeing, RunInv
  <2> QED
    BY <1>1, <1>4, <2>1, <2>2 DEF RunInv
<1>9. TableInv' /\ QueueInv'
  BY <1>2, <1>4, TableKept, QueueKept DEF Agreeing
<1>10. NoSleepWhileRunnable'
  BY <1>4 DEF NoSleepWhileRunnable
<1> QED
  BY <1>4, <1>7, <1>8, <1>9, <1>10 DEF Agreeing

LEMMA ForkAgrees ==
    ASSUME PlainGoals, IInv, Agreeing, NEW t \in Threads, Fork(t)
    PROVE  Agreeing'
<1> USE DEF Fork, placeVars, signalVars
<1>1. Executing /\ pc # "handler"
  BY DEF Does, AtCall, Ops, PlainGoals
<1>2. /\ Self \in Threads /\ Self \in Queued /\ ~Alive(t)
      /\ handler # t /\ handler \in Threads \union {NULL}
  BY <1>1, SelfProperty, SchedulerAssumption DEF Alive, Agreeing, QueueInv, IInv, TypeOK
<1>3. TableInv' /\ \A u \in Threads : Alive(u)' <=> Alive(u) \/ u = t
  BY <1>2, NewThreadTable DEF IInv, Agreeing
<1>4. (Deleted' <=> Deleted) /\ (running_sub_scheduler' <=> running_sub_scheduler) /\ (Serving' <=> Serving)
  BY DEF Deleted, Serving, Handling
<1>5. run_queue \in Seq(Threads) /\ (Deleted => iter \in Threads)
  BY SchedulerAssumption DEF IInv, TypeOK, Iterating, AtNode, Deleted
<1>6. QueueInv'
  BY <1>2, <1>3, <1>4, <1>5, QueueInserted, SchedulerAssumption DEF Agreeing
<1>7. PlainControl'
  <2>1. \A u \in Queued : \E i \in DOMAIN run_queue' : run_queue'[i] = u
    BY <1>5, InsertProperty
  <2>2. Queued \subseteq Queued' /\ Listed' = Listed
    BY <2>1 DEF Queued, Listed
  <2> QED
    BY <1>4, <2>2 DEF Agreeing, PlainControl, Caller, Runs
<1>8. /\ \A u \in Threads : Status(u)' = "BLOCKED" <=> Status(u) = "BLOCKED"
      /\ \A u \in Threads : block_status[u] # "BLOCKED" => block_status'[u] # "BLOCKED"
      /\ \A u \in Threads : block_status[u] = "RUNNABLE" => block_status'[u] = "RUNNABLE"
  <2>1. /\ pc # "tgoal" => block_status[Self] # "BLOCKED"
        /\ pc = "tgoal" => Self = Initial
        /\ pc # "tgoaldone"
        /\ block_status \in [Threads -> BlockStatuses]
    BY <1>1, SelfProperty DEF Executing, IInv, TypeOK
  <2>2. \A u \in Threads : block_status'[u] = IF u = Self THEN "RUNNABLE" ELSE block_status[u]
    BY <1>2, <2>1 DEF Continues
  <2> QED
    BY <2>1, <2>2 DEF Status
<1>9. BlockInv'
  <2>1. blocked_queue' = blocked_queue
    OBVIOUS
  <2>2. \A u \in Threads : ~Alive(u)' => block_status'[u] = "RUNNABLE"
    BY <1>3, <1>8 DEF Agreeing, BlockInv
  <2> QED
    BY <1>8, <2>1, <2>2 DEF Agreeing, BlockInv
<1>10. RunInv'
  BY <1>4, <1>8, RunKept DEF Agreeing
<1>11. NoSleepWhileRunnable'
  BY <1>1 DEF NoSleepWhileRunnable, Executing
<1> QED
  BY <1>3, <1>6, <1>7, <1>9, <1>10, <1>11 DEF Agreeing

LEMMA ExitSelfAgrees ==
    ASSUME IInv, Agreeing, ExitSelf
    PROVE  Stopped' \/ Agreeing'
<1> USE DEF queueVars, tableVars, threadVars
<1>1. Executing
  BY DEF ExitSelf, Does, AtCall
<1>2. CASE Self = Initial \/ pc = "handler"
  <2>1. DropOut("HALT")
    BY <1>2 DEF ExitSelf
  <2> QED
    BY <1>1, <2>1 DEF DropOut, Stopped
<1>3. CASE Self # Initial /\ pc # "handler"
  <2>1. /\ "EXIT" \in Reasons /\ DropOut("EXIT")
        /\ UNCHANGED <<run_queue, blocked_queue, handler>>
    BY <1>3 DEF ExitSelf, Reasons
  <2>2. /\ pc \in {"exec", "subexec"} /\ ~Deleted
        /\ Self \in Threads /\ Alive(Self) /\ Self \in Queued /\ Self # handler
        /\ pc = "exec" => handler = NULL
        /\ block_status[Self] # "BLOCKED"
        /\ block_status \in [Threads -> BlockStatuses]
        /\ condition \in [Threads -> {"FREE", "RUNNABLE", "EXITED"}]
    BY <1>1, <1>3, SelfProperty DEF Executing, IInv, TypeOK
  <2>3. SUFFICES ASSUME ~Stopped'
                 PROVE  Agreeing'
    OBVIOUS
  <2>4. /\ PlainControl'
        /\ pc' \notin {"exec", "subexec", "sleep"}
        /\ InTimerGoal' <=> InTimerGoal
        /\ running_sub_scheduler' => running_sub_scheduler
        /\ Serving' => Serving
        /\ Deleted' <=> (IF pc = "exec" THEN TRUE ELSE Deleted)
        /\ UNCHANGED <<iter, saved>>
    BY <1>1, <2>1, <2>3, DropOutPlaces DEF Agreeing
  <2>5. NoSleepWhileRunnable'
    BY <2>4 DEF NoSleepWhileRunnable
  <2>6. CASE pc = "exec"
    <3>1. Self = iter /\ DeleteThread(Self) /\ Continues /\ Deleted'
      BY <1>3, <2>4, <2>6 DEF ExitSelf, Self, Runs
    <3>2. TableInv' /\ \A u \in Threads : Alive(u)' <=> Alive(u) /\ u # iter
      BY <2>2, <3>1, DeleteThreadTable DEF IInv, Agreeing
    <3>3. \A u \in Threads : block_status'[u] = IF u = iter THEN "RUNNABLE" ELSE block_status[u]
      BY <2>2, <3>1 DEF Continues
    <3>4. BlockInv'
      <4>1. \A u \in Threads : Status(u)' = "BLOCKED" <=> Status(u) = "BLOCKED"
        BY <2>2, <2>4, <2>6, <3>1, <3>3 DEF Status
      <4>2. \A u \in Threads : ~Alive(u)' => block_status'[u] = "RUNNABLE"
        BY <3>2, <3>3 DEF Agreeing, BlockInv
      <4> QED
        BY <2>1, <4>1, <4>2 DEF Agreeing, BlockInv
    <3>5. RunInv'
      <4>1. /\ \A t \in Threads : block_status[t] # "BLOCKED" => block_status'[t] # "BLOCKED"
            /\ \A t \in Threads : block_status[t] = "RUNNABLE" => block_status'[t] = "RUNNABLE"
        BY <3>3
      <4> QED
        BY <2>1, <2>4, <2>6, <4>1, RunKept DEF Agreeing
    <3>6. QueueInv'
      <4>1. handler' = NULL /\ iter' = iter /\ iter \in Threads /\ iter \in Queued /\ ~Alive(iter)'
        BY <2>1, <2>2, <2>4, <3>1, <3>2
      <4>2. \A u \in Threads : u \in Queued' <=> u \in Queued
        BY <2>1 DEF Queued
      <4>3. \A u \in Threads : u \in Queued' <=> (Alive(u)' /\ u # handler') \/ (Deleted' /\ u = iter')
        BY <2>2, <2>6, <3>1, <3>2, <4>1, <4>2 DEF Agreeing, QueueInv
      <4>4. \A i, j \in DOMAIN run_queue : run_queue[i] = run_queue[j] => i = j
        BY <2>2 DEF Agreeing, QueueInv
      <4>5. ~Alive(iter)' => ~(Deleted' /\ Alive(iter)')
        OBVIOUS
      <4> QED
        BY <2>1, <4>1, <4>3, <4>4 DEF QueueInv, Alive
    <3> QED
      BY <2>4, <2>5, <3>2, <3>4, <3>5, <3>6 DEF Agreeing
  <2>7. CASE pc = "subexec"
    <3>1. /\ condition' = [condition EXCEPT ![Self] = "EXITED"]
          /\ UNCHANGED <<array, live, block_status>>
          /\ ~Deleted'
      BY <1>3, <2>2, <2>4, <2>7 DEF ExitSelf
    <3>2. \A u \in Threads : Alive(u)' <=> Alive(u)
      BY <2>2, <3>1 DEF Alive
    <3>3. TableInv'
      BY <3>1, <3>2 DEF Agreeing, TableInv, Occupied
    <3>4. BlockInv'
      <4>1. \A u \in Threads : Status(u)' = Status(u)
        BY <2>4, <3>1 DEF Status
      <4> QED
        BY <2>1, <3>1, <3>2, <4>1 DEF Agreeing, BlockInv
    <3>5. RunInv'
      BY <2>1, <2>4, <2>7, <3>1, RunKept DEF Agreeing
    <3>6. QueueInv'
      <4>h. handler' # NULL => Alive(handler)'
        <5>1. handler \in Threads \union {NULL}
          BY DEF IInv, TypeOK
        <5>2. handler # NULL => Alive(handler)
          BY DEF Agreeing, QueueInv
        <5> QED
          BY <2>1, <3>1, <5>1, <5>2 DEF Alive, IInv, TypeOK
      <4>1. \A u \in Threads : u \in Queued' <=> u \in Queued
        BY <2>1 DEF Queued
      <4>2. \A u \in Threads : u \in Queued' <=> (Alive(u)' /\ u # handler') \/ (Deleted' /\ u = iter')
        BY <2>1, <2>2, <3>1, <3>2, <4>1 DEF Agreeing, QueueInv
      <4> QED
        BY <2>1, <2>2, <3>1, <4>h, <4>2 DEF Agreeing, QueueInv, Alive
    <3> QED
      BY <2>4, <2>5, <3>3, <3>4, <3>5, <3>6 DEF Agreeing
  <2> QED
    BY <2>2, <2>6, <2>7
<1> QED
  BY <1>2, <1>3

\* A thread that is killed is in the run queue, and is deleted with its node and
\* its blocking objects, or the scheduler follows a pointer to it.
LEMMA KillAgrees ==
    ASSUME IInv, Agreeing, NEW y \in Threads, Kill(y)
    PROVE  Stopped' \/ Agreeing'
<1> USE DEF queueVars, tableVars, threadVars, placeVars
<1>1. Executing /\ y # Self /\ y \in Tabled
  BY DEF Kill, Does, AtCall
<1>2. /\ Self \in Threads /\ Alive(Self)
      /\ pc # "tgoal" => block_status[Self] # "BLOCKED"
      /\ pc = "tgoal" => Self = Initial
      /\ InTimerGoal => pc = "tgoal"
      /\ block_status \in [Threads -> BlockStatuses]
  BY <1>1, SelfProperty DEF IInv, TypeOK
<1>3. Alive(y)
  BY <1>1, TabledAlive DEF IInv, Agreeing
<1>4. CASE y = Initial
  BY <1>4 DEF Kill, DropOut, Stopped
<1>5. CASE y # Initial /\ y \notin Queued
  <2>1. /\ condition' = [condition EXCEPT ![y] = "EXITED"]
        /\ Continues
        /\ UNCHANGED <<queueVars, tableVars, placeVars, handler>>
    BY <1>5 DEF Kill
  <2>2. \A u \in Threads : Alive(u)' <=> Alive(u)
    BY <1>3, <2>1 DEF Alive, IInv, TypeOK
  <2>3. TableInv' /\ QueueInv'
    <3>1. (Deleted' <=> Deleted) /\ handler \in Threads \union {NULL} /\ (Deleted => iter \in Threads)
      BY <2>1, SchedulerAssumption DEF Deleted, IInv, TypeOK, Iterating, AtNode
    <3>2. TableInv'
      BY <2>1, <2>2 DEF Agreeing, TableInv, Occupied
    <3>3. \A u \in Threads : u \in Queued' <=> (Alive(u)' /\ u # handler') \/ (Deleted' /\ u = iter')
      BY <2>1, <2>2, <3>1 DEF Agreeing, QueueInv, Queued
    <3> QED
      BY <2>1, <2>2, <3>1, <3>2, <3>3 DEF Agreeing, QueueInv
  <2>4. /\ \A u \in Threads : block_status[u] # "BLOCKED" => block_status'[u] # "BLOCKED"
        /\ \A u \in Threads : block_status[u] = "RUNNABLE" => block_status'[u] = "RUNNABLE"
        /\ \A u \in Threads : Status(u)' = "BLOCKED" <=> Status(u) = "BLOCKED"
    BY <1>1, <1>2, <2>1 DEF Continues, Status, Executing
  <2>5. BlockInv'
    BY <2>1, <2>2, <2>4 DEF Agreeing, BlockInv
  <2>6. RunInv'
    BY <2>1, <2>4, RunKept DEF Agreeing, Serving, Handling
  <2>7. NoSleepWhileRunnable' /\ PlainControl'
    <3>1. Listed' = Listed /\ Queued' = Queued /\ Caller' = Caller
      BY <2>1 DEF Listed, Queued, Caller, Runs
    <3> QED
      BY <1>1, <2>1, <3>1 DEF NoSleepWhileRunnable, Executing, Agreeing, PlainControl, Serving, Handling
  <2> QED
    BY <2>3, <2>5, <2>6, <2>7 DEF Agreeing
<1>6. CASE y # Initial /\ y \in Queued
  <2>1. y \in Queued /\ y # handler
    BY <1>3, <1>6, SchedulerAssumption DEF Agreeing, QueueInv, IInv, TypeOK, PlainControl, Deleted,
       Serving, Handling
  <2>2. /\ blocked_queue' = blocked_queue \ ObjectsOf(y)
        /\ run_queue' = Erase(y)
        /\ DeleteThread(y)
        /\ block_status' = [block_status EXCEPT ![Self] = "RUNNABLE", ![y] = "RUNNABLE"]
        /\ pc' = (IF y = iter THEN "erased" ELSE IF y \in Listed THEN "undefined" ELSE pc)
        /\ UNCHANGED <<ret, sub, saved>>
        /\ UNCHANGED <<iter, result, handler>>
    BY <1>6, <2>1 DEF Kill, Goto
  <2>3. CASE y = iter \/ y \in Listed
    BY <2>2, <2>3 DEF Stopped
  <2>4. CASE y # iter /\ y \notin Listed
    <3>1. pc' = pc /\ y # iter /\ y \notin Listed
      BY <2>2, <2>4
    <3>2. (Deleted' <=> Deleted) /\ (running_sub_scheduler' <=> running_sub_scheduler) /\ (Serving' <=> Serving)
      BY <2>2, <3>1 DEF Deleted, Serving, Handling
    <3>3. TableInv' /\ \A u \in Threads : Alive(u)' <=> Alive(u) /\ u # y
      BY <1>3, <2>2, DeleteThreadTable DEF IInv, Agreeing
    <3>4. run_queue \in Seq(Threads) /\ (Deleted => iter \in Threads)
      BY SchedulerAssumption DEF IInv, TypeOK, Iterating, AtNode, Deleted
    <3>5. QueueInv'
      <4>1. handler \in Threads \union {NULL}
        BY DEF IInv, TypeOK
      <4> QED
        BY <1>3, <2>1, <2>2, <3>1, <3>2, <3>3, <3>4, <4>1, QueueErased DEF Agreeing
    <3>6. PlainControl'
      <4>1. Queued \ {y} \subseteq Queued'
        <5>1. \A u \in Queued \ {y} : \E i \in DOMAIN run_queue' : run_queue'[i] = u
          BY <2>1, <2>2, <3>4, EraseProperty
        <5> QED
          BY <5>1 DEF Queued
      <4>2. Listed' = Listed
        BY <2>2 DEF Listed
      <4> QED
        BY <2>2, <3>1, <3>2, <4>1, <4>2 DEF Agreeing, PlainControl, Caller, Runs
    <3>7. \A u \in Threads : block_status'[u] = IF u \in {Self, y} THEN "RUNNABLE" ELSE block_status[u]
      BY <1>2, <2>2
    <3>8. BlockInv'
      <4>1. \A u \in Threads : Status(u)' = "BLOCKED" <=> Status(u) = "BLOCKED" /\ u # y
        BY <1>1, <1>2, <1>6, <2>2, <3>1, <3>7 DEF Status, Executing
      <4>2. \A u \in Threads : ~Alive(u)' => block_status'[u] = "RUNNABLE"
        BY <3>3, <3>7 DEF Agreeing, BlockInv
      <4> QED
        BY <2>2, <4>1, <4>2, BlockCleared DEF IInv, Agreeing
    <3>9. RunInv'
      <4>1. /\ \A t \in Threads : block_status[t] # "BLOCKED" => block_status'[t] # "BLOCKED"
            /\ \A t \in Threads : block_status[t] = "RUNNABLE" => block_status'[t] = "RUNNABLE"
        BY <3>7
      <4> QED
        BY <2>2, <3>1, <3>2, <4>1, RunKept DEF Agreeing
    <3>10. NoSleepWhileRunnable'
      BY <1>1, <3>1 DEF NoSleepWhileRunnable, Executing
    <3> QED
      BY <3>3, <3>5, <3>6, <3>8, <3>9, <3>10 DEF Agreeing
  <2> QED
    BY <2>3, <2>4
<1> QED
  BY <1>4, <1>5, <1>6

LEMMA ScheduleNowAgrees ==
    ASSUME PlainGoals, IInv, Agreeing,
           NEW n \in 0 .. TableSize - 1, NEW list \in [1 .. n -> Threads], ScheduleNow(list)
    PROVE  Agreeing'
<1> USE DEF ScheduleNow, queueVars, tableVars, threadVars, signalVars
<1>1. /\ Executing /\ pc \in {"exec", "handler"} /\ pc' = "subvisit" /\ ~running_sub_scheduler
      /\ running_sub_scheduler' /\ saved'.pc = pc /\ Caller' = Self
      /\ \A i \in DOMAIN list : list[i] \in Tabled \ {Self}
  BY DEF Does, AtCall, Executing, Ops, PlainGoals, IInv, TypeOK, Saved, Self, Caller, Runs
<1>2. /\ Self \in Threads /\ ~Deleted /\ ~InTimerGoal /\ ~InTimerGoal'
      /\ block_status[Self] # "BLOCKED"
      /\ pc = "handler" => Self = handler
      /\ pc = "exec" => handler = NULL
  BY <1>1, SelfProperty
<1>3. TableInv' /\ QueueInv'
  BY <1>1, <1>2, TableKept, QueueKept DEF Agreeing, Deleted
<1>4. BlockInv'
  BY <1>1, <1>2, BlockKept DEF Agreeing, BlockInv, Status
<1>5. RunInv' /\ NoSleepWhileRunnable'
  BY <1>1, <1>2 DEF Agreeing, RunInv, NoSleepWhileRunnable, Serving, Handling
<1>6. PlainControl'
  <2>1. \A u \in Listed' : u \in Tabled /\ u # Self
    BY <1>1 DEF Listed
  <2>2. \A u \in Tabled : u \in Threads /\ Alive(u)
    BY TabledAlive DEF IInv, Agreeing
  <2>3. Listed' \subseteq Queued' \ {Caller'}
    BY <1>1, <1>2, <2>1, <2>2, SchedulerAssumption DEF Agreeing, QueueInv, Queued
  <2> QED
    BY <1>1, <1>2, <2>3 DEF Agreeing, PlainControl, Serving, Handling
<1> QED
  BY <1>3, <1>4, <1>5, <1>6 DEF Agreeing

LEMMA QuietStepAgrees ==
    ASSUME Agreeing, Environment \/ UNCHANGED vars
    PROVE  Agreeing'
<1> USE DEF vars, queueVars, placeVars, tableVars, threadVars, signalVars
<1>1. UNCHANGED <<queueVars, placeVars, tableVars, threadVars, handler>>
  BY DEF Environment, SliceEnds, handle_sigint, TimerDue
<1>2. BlockInv'
  BY <1>1, BlockKept DEF Agreeing, BlockInv, Status
<1>3. RunInv' /\ NoSleepWhileRunnable'
  BY <1>1 DEF Agreeing, RunInv, NoSleepWhileRunnable, Serving, Handling, Queued, Status, Caller, Runs
<1> QED
  BY <1>1, <1>2, <1>3, QuietAgrees DEF Agreeing, PlainControl, Deleted, Serving, Handling

(***************************************************************************)
(* The agreement holds in every behaviour.                                 *)
(***************************************************************************)

LEMMA InitAgreement == Init => Agreement
<1> SUFFICES ASSUME Init
             PROVE  Agreeing
  BY DEF Agreement
<1>1. /\ run_queue = <<Initial>> /\ Queued = {Initial} /\ DOMAIN run_queue = {1}
      /\ Initial \in Threads /\ NULL \notin Threads /\ ~Deleted
  BY SchedulerAssumption DEF Init, Queued, Deleted
<1>2. PlainControl
  BY DEF Init, PlainControl, Listed
<1>3. TableInv
  <2>1. 0 \in Slots
    BY SchedulerAssumption DEF Slots
  <2>2. Occupied = {0}
    BY <1>1, <2>1 DEF Init, Occupied
  <2>3. live = Cardinality(Occupied)
    BY <2>2, FS_Singleton DEF Init
  <2> QED
    BY <1>1, <2>1, <2>3 DEF Init, TableInv, Alive
<1>4. QueueInv
  BY <1>1 DEF Init, QueueInv, Alive
<1>5. BlockInv /\ RunInv /\ NoSleepWhileRunnable
  BY DEF Init, BlockInv, RunInv, NoSleepWhileRunnable, Status, Serving, Handling
<1> QED
  BY <1>2, <1>3, <1>4, <1>5 DEF Agreeing

LEMMA NextAgreement ==
    ASSUME PlainGoals, IInv, Agreement, [Next]_vars
    PROVE  Agreement'
<1>1. CASE Stopped
  <2>1. pc' = pc
    BY <1>1 DEF Stopped, Next, Walk, Execute, Environment, vars, placeVars,
       NoTimerGoal, RunTimerGoal, TimerGoalDone, StartWalk, VisitExited, Visit, Advance, RoundEnd,
       SubVisit, SubDone, StartHandler, AtHandleSignal, NoHandler, HandlerDone,
       Fork, Kill, Throw, Wait, ScheduleNow, ExitSelf, WaitDone, Yield, Forbid, Permit, Halt, GoalDone,
       SignalCheck, Timeslice, Does, AtCall, Executing, SliceEnds, handle_sigint, TimerDue,
       Sleep, HandlerSleep, UnblockFreed, ScheduleFails
  <2> QED
    BY <1>1, <2>1 DEF Agreement, Stopped
<1>2. CASE ~Stopped
  <2>1. Agreeing
    BY <1>2 DEF Agreement
  <2>2. CASE Walk
    <3>1. NoHandler => Stopped'
      BY DEF NoHandler, Goto, Stopped
    <3> QED
      BY <2>1, <2>2, <3>1, NoTimerGoalAgrees, RunTimerGoalAgrees, TimerGoalDoneAgrees, StartWalkAgrees,
         VisitExitedAgrees, VisitAgrees, AdvanceAgrees, RoundEndAgrees, SubVisitAgrees, SubDoneAgrees,
         StartHandlerAgrees, HandlerDoneAgrees DEF Walk, Agreement
  <2>3. CASE Execute
    <3>1. CASE \E t \in Threads : Fork(t) \/ Kill(t) \/ Throw(t)
      BY <2>1, <3>1, ForkAgrees, KillAgrees, ThrowAgrees DEF Agreement
    <3>2. CASE \E k \in Kinds : Wait(k)
      BY <2>1, <3>2, WaitAgrees DEF Agreement
    <3>3. CASE \E n \in 0 .. TableSize - 1 : \E list \in [1 .. n -> Threads] : ScheduleNow(list)
      BY <2>1, <3>3, ScheduleNowAgrees DEF Agreement
    <3>4. CASE ExitSelf
      BY <2>1, <3>4, ExitSelfAgrees DEF Agreement
    <3>5. CASE \/ Halt \/ GoalDone \/ SignalCheck \/ Timeslice \/ Yield
               \/ Forbid \/ Permit \/ WaitDone \/ ScheduleFails
      BY <2>1, <3>5, PlainOperationAgrees DEF Agreement
    <3> QED
      BY <2>3, <3>1, <3>2, <3>3, <3>4, <3>5 DEF Execute
  <2>4. CASE Sleep
    BY <2>1, <2>4, SleepAgrees DEF Agreement
  <2>5. CASE HandlerSleep
    BY <2>1, <2>5 DEF HandlerSleep, Agreeing, PlainControl
  <2>6. CASE UnblockFreed
    BY <2>6 DEF UnblockFreed, Goto, Agreement, Stopped
  <2>7. CASE Environment \/ UNCHANGED vars
    BY <2>1, <2>7, QuietStepAgrees DEF Agreement
  <2> QED
    BY <2>2, <2>3, <2>4, <2>5, <2>6, <2>7 DEF Next
<1> QED
  BY <1>1, <1>2

LEMMA AlwaysAgreement ==
    ASSUME PlainGoals
    PROVE  Spec => [](IInv /\ Agreement)
<1>1. Init => Agreement
  BY InitAgreement
<1>2. IInv /\ Agreement /\ [Next]_vars => Agreement'
  BY NextAgreement
<1>3. Spec => []IInv
  BY Invariance
<1> QED
  BY <1>1, <1>2, <1>3, PTL DEF Spec

\* The thread table, the count of live threads, the states of the threads and
\* the run queue agree between any two steps of the scheduler, however many
\* threads are forked, exit and are killed: TableConsistent.
THEOREM TableAgrees ==
    ASSUME PlainGoals
    PROVE  Spec => []TableConsistent
<1>1. ASSUME IInv, Agreement
      PROVE  TableConsistent
  <2> SUFFICES ASSUME Agreeing
               PROVE  /\ live = Cardinality({s \in Slots : array[s] # NULL})
                      /\ live = Cardinality(Tabled)
                      /\ Tabled = {t \in Threads : condition[t] # "FREE"}
                      /\ {Nodes[i] : i \in DOMAIN Nodes} = Tabled \ {handler}
                      /\ Len(Nodes) = Cardinality(Tabled \ {handler})
    BY <1>1 DEF Agreement, TableConsistent
  <2>1. live = Cardinality(Occupied)
    BY DEF Agreeing, TableInv
  <2>2. Tabled = {t \in Threads : Alive(t)}
    BY <1>1, TabledAlive DEF IInv, Agreeing
  <2>3. Cardinality(Tabled) = Cardinality(Occupied)
    <3> DEFINE f == [s \in Occupied |-> array[s]]
    <3>1. f \in [Occupied -> Tabled]
      BY DEF Occupied, Tabled
    <3>2. \A r, s \in Occupied : f[r] = f[s] => r = s
      BY DEF Occupied, Agreeing, TableInv
    <3>3. \A t \in Tabled : \E s \in Occupied : f[s] = t
      BY DEF Occupied, Tabled
    <3> HIDE DEF f
    <3>4. f \in Bijection(Occupied, Tabled)
      BY <3>1, <3>2, <3>3 DEF Bijection, Injection, Surjection, IsInjective
    <3>5. ExistsBijection(Occupied, Tabled)
      BY <3>4 DEF ExistsBijection
    <3> QED
      BY <3>5, SlotsFinite, FS_Bijection
  <2>4. /\ Nodes \in Seq(Threads)
        /\ \A i, j \in DOMAIN Nodes : Nodes[i] = Nodes[j] => i = j
        /\ \A u \in Threads : (\E i \in DOMAIN Nodes : Nodes[i] = u) <=> Alive(u) /\ u # handler
    BY <1>1, NodesProperty DEF Agreeing
  <2> DEFINE q == Nodes
             S == Tabled \ {handler}
  <2>5. {q[i] : i \in DOMAIN q} = S
    BY <2>2, <2>4
  <2>6. Len(q) = Cardinality(S)
    <3>1. q \in Seq(Threads) /\ \A i, j \in DOMAIN q : q[i] = q[j] => i = j
      BY <2>4
    <3> HIDE DEF q, S
    <3>2. Len(q) \in Nat /\ DOMAIN q = 1 .. Len(q) /\ q \in [1 .. Len(q) -> S]
      BY <2>5, <3>1
    <3>3. q \in Bijection(1 .. Len(q), S)
      BY <2>5, <3>1, <3>2 DEF Bijection, Injection, Surjection, IsInjective
    <3>4. ExistsBijection(1 .. Len(q), S)
      BY <3>3 DEF ExistsBijection
    <3> QED
      BY <3>2, <3>4, FS_CountingElements
  <2> QED
    BY <2>1, <2>2, <2>3, <2>5, <2>6 DEF Occupied, Alive
<1> QED
  BY <1>1, AlwaysAgreement, PTL

\* A blocking object belongs to a thread that exists and is blocked, and a
\* blocked thread has exactly one: BlockedConsistent.
THEOREM BlockedAgrees ==
    ASSUME PlainGoals
    PROVE  Spec => []BlockedConsistent
<1>1. ASSUME IInv, Agreement
      PROVE  BlockedConsistent
  <2> SUFFICES ASSUME Agreeing
               PROVE  /\ \A o \in blocked_queue : condition[o.thread] # "FREE" /\ Status(o.thread) = "BLOCKED"
                      /\ \A t \in Tabled : Status(t) = "BLOCKED" =>
                            Cardinality({o \in blocked_queue : o.thread = t}) = 1
    BY <1>1 DEF Agreement, BlockedConsistent
  <2>1. \A o \in blocked_queue : o.thread \in Threads
    BY <1>1 DEF IInv, TypeOK, BlockingObject
  <2>2. \A t \in Threads : Status(t) = "BLOCKED" => Alive(t)
    <3>1. Alive(Initial)
      <4>1. Initial \in Queued /\ Initial \in Threads
        BY <1>1, SchedulerAssumption DEF IInv, Iterating
      <4> QED
        BY <1>1, <4>1 DEF IInv, Control, Agreeing, QueueInv
    <3> QED
      BY <3>1 DEF Agreeing, BlockInv, Status
  <2>3. \A o \in blocked_queue : condition[o.thread] # "FREE" /\ Status(o.thread) = "BLOCKED"
    BY <2>1, <2>2 DEF Agreeing, BlockInv, Alive
  <2>4. ASSUME NEW t \in Tabled, Status(t) = "BLOCKED"
        PROVE  Cardinality({o \in blocked_queue : o.thread = t}) = 1
    <3>1. t \in Threads
      BY <1>1, TabledAlive DEF IInv, Agreeing
    <3>2. PICK o \in blocked_queue : o.thread = t
      BY <2>4, <3>1 DEF Agreeing, BlockInv
    <3>3. {p \in blocked_queue : p.thread = t} = {o}
      BY <3>2 DEF Agreeing, BlockInv
    <3> QED
      BY <3>3, FS_Singleton
  <2> QED
    BY <2>3, <2>4
<1> QED
  BY <1>1, AlwaysAgreement, PTL

\* The scheduler ends its walk in select only if every thread of the run queue
\* is blocked, although it only compares the lengths of two queues:
\* NoSleepWhileRunnable.
THEOREM SleepsOnlyWhenBlocked ==
    ASSUME PlainGoals
    PROVE  Spec => []NoSleepWhileRunnable
<1>1. IInv /\ Agreement => NoSleepWhileRunnable
  BY DEF Agreement, Agreeing, NoSleepWhileRunnable, Stopped
<1> QED
  BY <1>1, AlwaysAgreement, PTL


-----------------------------------------------------------------------------
(***************************************************************************)
(* Proof that nothing is used after it was deleted, for the programs above *)
(* that have no nested scheduler and kill from threads only: the iterator  *)
(* stays at a node, and no blocking object outlives its thread.  TLC finds *)
(* it violated with "schedule" in ThreadOps: a thread that exits and is in *)
(* the list twice is erased through an iterator of the wrong list.         *)
(***************************************************************************)

NeverNested == "schedule" \notin ThreadOps \union TimerOps \union HandlerOps

\* Every blocking object has a thread.
LEMMA NoDangling ==
    ASSUME IInv, Agreeing
    PROVE  Dangling = {}
<1>1. Alive(Initial)
  BY SchedulerAssumption DEF IInv, Iterating, Control, Agreeing, QueueInv
<1>2. ASSUME NEW o \in blocked_queue
      PROVE  Alive(o.thread)
  <2>1. o.thread \in Threads
    BY DEF IInv, TypeOK, BlockingObject
  <2>2. Status(o.thread) = "BLOCKED"
    BY <2>1 DEF Agreeing, BlockInv
  <2> QED
    BY <1>1, <2>1, <2>2 DEF Agreeing, BlockInv, Status
<1> QED
  BY <1>2 DEF Dangling, Alive

LEMMA NextFreed ==
    ASSUME KillsApart, NeverNested, IInv, Agreement, Unerased, NothingFreedUsed, [Next]_vars
    PROVE  NothingFreedUsed'
<1> USE DEF NothingFreedUsed
<1>1. ~running_sub_scheduler
  BY DEF Unerased, NeverNested
<1>2. pc' # "erased"
  BY NextUnerased DEF Unerased
<1>3. CASE Walk \/ Sleep \/ HandlerSleep
  <2>1. pc \notin {"subvisit", "subexec"}
    BY <1>1
  <2> QED
    BY <1>2, <1>3, <2>1 DEF Walk, NoTimerGoal, RunTimerGoal, TimerGoalDone, StartWalk, VisitExited, Visit,
       Advance, RoundEnd, SubVisit, SubDone, StartHandler, NoHandler, HandlerDone, Sleep, HandlerSleep,
       Goto, IInv, Control, Handling
<1>4. CASE UnblockFreed
  <2>1. ~Stopped
    BY <1>4 DEF UnblockFreed, Stopped
  <2>2. Dangling = {}
    BY <2>1, NoDangling DEF Agreement
  <2> QED
    BY <1>4, <2>2 DEF UnblockFreed
<1>5. CASE \E y \in Threads : Kill(y)
  <2>1. Executing /\ ~Stopped
    BY <1>5 DEF Kill, Does, AtCall, Executing, Stopped
  <2>2. Listed = {}
    BY <1>1, <2>1 DEF Agreement, Agreeing, PlainControl, Listed
  <2> QED
    BY <1>2, <1>5, <2>1, <2>2 DEF Kill, Goto, DropOut, placeVars, Executing
<1>6. CASE \E n \in 0 .. TableSize - 1 : \E list \in [1 .. n -> Threads] : ScheduleNow(list)
  BY <1>6 DEF ScheduleNow
<1>7. CASE \/ \E t \in Threads : Fork(t) \/ Throw(t)
           \/ \E k \in Kinds : Wait(k)
           \/ ExitSelf \/ WaitDone \/ Yield \/ Forbid \/ Permit \/ Halt \/ GoalDone
           \/ SignalCheck \/ Timeslice \/ ScheduleFails
  <2>1. UNCHANGED <<pc, ret>> \/ \E r \in Reasons : Executing /\ DropOut(r)
    BY <1>7 DEF Fork, Throw, Wait, ExitSelf, WaitDone, Yield, Forbid, Permit, Halt, GoalDone, SignalCheck,
       Timeslice, ScheduleFails, Does, AtCall, Executing, placeVars, Reasons
  <2> QED
    BY <2>1 DEF DropOut, Executing, Reasons
<1>8. CASE Environment \/ UNCHANGED vars
  BY <1>8 DEF Environment, SliceEnds, handle_sigint, TimerDue, vars, placeVars
<1> QED
  BY <1>3, <1>4, <1>5, <1>6, <1>7, <1>8 DEF Next, Execute

\* No pointer to a deleted thread and no iterator at an erased node is ever
\* used: resetThread and deleteThread take the blocking objects with them, and the
\* walk keeps its own node until it has left it.
THEOREM FreedNeverUsed ==
    ASSUME PlainGoals, KillsApart, NeverNested
    PROVE  Spec => []NothingFreedUsed
<1>1. Init => IInv /\ Agreement /\ Unerased /\ NothingFreedUsed
  BY InitIInv, InitAgreement DEF Init, Unerased, NothingFreedUsed
<1>2. IInv /\ Agreement /\ Unerased /\ NothingFreedUsed /\ [Next]_vars
         => IInv' /\ Agreement' /\ Unerased' /\ NothingFreedUsed'
  BY NextIInv, NextAgreement, NextUnerased, NextFreed, PlainGoals, KillsApart, NeverNested
<1> QED
  BY <1>1, <1>2, PTL DEF Spec

HIDE DEF running_sub_scheduler, place, back, InTimerGoal, InHandler

=============================================================================
