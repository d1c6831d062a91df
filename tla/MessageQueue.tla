---------------------------- MODULE MessageQueue ----------------------------
(***************************************************************************)
(* The message queue of a thread and the four escapes that work on it      *)
(* (ipc_escapes.cc), with the blocking test of is_ready.h and the blocking *)
(* object of block.cc.  A receive is a use: an iterator on the heap that   *)
(* ipc_first puts on a message, ipc_next moves, and ipc_commit or a        *)
(* failure deletes.  ipc_recv commits to the first message that unifies;   *)
(* ipc_peek leaves its use behind as a choice point, and what is called    *)
(* after it may receive itself.                                            *)
(*                                                                         *)
(* Messages are numbered in the order in which they are pushed back, so    *)
(* the list is the set of its numbers in their order, and an iterator is   *)
(* a number or End.  A message that was deleted is in no queue.            *)
(***************************************************************************)
EXTENDS Integers, Sequences, FiniteSets

CONSTANTS
    Receivers,     \* the threads
    Console,       \* the initial thread, which the timer goals run in
    MessageKinds,  \* what patterns tell apart in messages
    Patterns,      \* the patterns that receives have, as sets of kinds
    NoKind,        \* of a message that has not been sent
    Timeouts,      \* the timeouts that threads use, of those in AllTimeouts
    GoalModes,     \* the receives (all of them polls) that timer goals use
    MaxMessages,   \* bound on the number of messages sent
    MaxRefs,       \* bound on the references to a message that receives leave behind
    MaxUses        \* MaxUses[t]: bound on the receives t has open

AllModes    == {"recv", "peek"}
AllTimeouts == {"poll", "timed", "block"}

ASSUME MessageAssumption ==
    /\ IsFiniteSet(Receivers)
    /\ Console \in Receivers
    /\ NoKind \notin MessageKinds
    /\ Patterns \subseteq SUBSET MessageKinds
    /\ GoalModes \subseteq AllModes
    /\ Timeouts \subseteq AllTimeouts
    /\ MaxMessages \in Nat
    /\ MaxRefs \in Nat
    /\ MaxUses \in [Receivers -> Nat]

VARIABLES
    sent,      \* the number of messages sent so far
    kind,      \* kind[m]: what is in message m
    refs,      \* refs[m]: Message::references
    committed, \* committed[m]: Message::committed
    queue,     \* queue[t]: message_queue, as the set of its messages
    uses,      \* uses[t]: the receives that are open, the newest last
    mstatus,   \* mstatus[t]: block_status, "dead" for a thread that has exited
    size,      \* size[t]: BlockingMessageObject::size of t's blocking object
    goal,      \* what a timer goal has to restore, or NoGoal
    taken      \* taken[m]: how often m was committed to (a history of the uses)

messageVars == <<sent, kind, refs, committed, queue, uses, mstatus, size, goal, taken>>

Messages == 1 .. MaxMessages
End      == MaxMessages + 1      \* message_queue.end()
Statuses == {"running", "blocked", "restart_msg", "restart_time", "dead"}
NoGoal   == [depth |-> 0, status |-> "dead"]

\* st is where the receive is: about to call ipc_first or ipc_next, or at a
\* message that unifies.  seen is the history of the messages it looked at.
Use == [mode : AllModes, pattern : SUBSET MessageKinds, timeout : AllTimeouts,
        st : {"first", "next", "match"}, pos : 1 .. End, seen : SUBSET Messages]

MessageTypeOK ==
    /\ sent \in 0 .. MaxMessages
    /\ kind \in [Messages -> MessageKinds \union {NoKind}]
    /\ refs \in [Messages -> Int]
    /\ committed \in [Messages -> BOOLEAN]
    /\ queue \in [Receivers -> SUBSET (1 .. sent)]
    /\ uses \in [Receivers -> Seq(Use)]
    /\ mstatus \in [Receivers -> Statuses]
    /\ size \in [Receivers -> Nat]
    /\ goal \in [depth : Nat, status : Statuses]
    /\ taken \in [Messages -> Nat]

MessageInit ==
    /\ sent = 0
    /\ kind = [m \in Messages |-> NoKind]
    /\ refs = [m \in Messages |-> 0]
    /\ committed = [m \in Messages |-> FALSE]
    /\ queue = [t \in Receivers |-> {}]
    /\ uses = [t \in Receivers |-> <<>>]
    /\ mstatus = [t \in Receivers |-> "running"]
    /\ size = [t \in Receivers |-> 0]
    /\ goal = NoGoal
    /\ taken = [m \in Messages |-> 0]

-----------------------------------------------------------------------------
(* Iterators.                                                              *)

Least(S) == IF S = {} THEN End ELSE CHOOSE m \in S : \A k \in S : m <= k

\* message_queue.begin(), and iter++ (the end is before the beginning).
Begin(t)   == Least(queue[t])
Step(t, m) == IF m = End THEN Begin(t) ELSE Least({k \in queue[t] : k > m})

\* n steps from the beginning; the step behind the end leads to the beginning.
Advance(t, n) ==
    LET ring == queue[t] \union {End} IN
    CHOOSE m \in ring : Cardinality({k \in ring : k < m}) = n % Cardinality(ring)

\* A bug the next definition avoids: it leaves the message it is at.
SkipCommitted_after(t, m) == Least({k \in queue[t] : k > m /\ ~committed[k]})

\* for (; iter != end && (*iter)->Committed(); iter++)
SkipCommitted(t, m) == Least({k \in queue[t] : k >= m /\ ~committed[k]})

Top(t)    == uses[t][Len(uses[t])]
Push(t, u) == uses' = [uses EXCEPT ![t] = Append(@, u)]
Pop(t)    == uses' = [uses EXCEPT ![t] = SubSeq(@, 1, Len(@) - 1)]
SetTop(t, u) == uses' = [uses EXCEPT ![t][Len(uses[t])] = u]

\* The uses below the base belong to what a timer goal has interrupted.
Base(t) == IF t = Console THEN goal.depth ELSE 0

\* t executes: it is not blocked, and no timer goal keeps it from running.
Executes(t) ==
    /\ mstatus[t] \notin {"blocked", "dead"}
    /\ goal # NoGoal => t = Console

HasUse(t, st) == Len(uses[t]) > Base(t) /\ Top(t).st = st

-----------------------------------------------------------------------------
(* Receiving.                                                              *)

\* A message is pushed back on t's queue: by another thread, by a timer goal
\* or by what comes from the Pedro server.
Send(t, k) ==
    /\ sent < MaxMessages
    /\ mstatus[t] # "dead"
    /\ sent' = sent + 1
    /\ kind' = [kind EXCEPT ![sent + 1] = k]
    /\ queue' = [queue EXCEPT ![t] = @ \union {sent + 1}]
    /\ UNCHANGED <<refs, committed, uses, mstatus, size, goal, taken>>

\* psi_broadcast pushes back one message for every thread there is.
Broadcast(k) ==
    LET live == {t \in Receivers : mstatus[t] # "dead"} IN
    /\ live # {}
    /\ sent + Cardinality(live) <= MaxMessages
    /\ \E order \in [live -> 1 .. Cardinality(live)] :
        /\ \A s, t \in live : s # t => order[s] # order[t]
        /\ queue' = [t \in Receivers |-> IF t \in live
                                         THEN queue[t] \union {sent + order[t]} ELSE queue[t]]
    /\ sent' = sent + Cardinality(live)
    /\ kind' = [m \in Messages |-> IF m \in sent + 1 .. sent' THEN k ELSE kind[m]]
    /\ UNCHANGED <<refs, committed, uses, mstatus, size, goal, taken>>

\* The references to m that no receive will give up.
LeftBehind(t, m) == refs[m] - Cardinality({i \in DOMAIN uses[t] : uses[t][i].pos = m})

\* psi_make_iterator, at the start of ipc_recv or ipc_peek.
MakeIterator(t, mode, pattern, timeout) ==
    /\ Executes(t)
    /\ Len(uses[t]) < MaxUses[t]
    /\ \A m \in queue[t] : LeftBehind(t, m) < MaxRefs
    /\ Len(uses[t]) = Base(t) \/ (HasUse(t, "match") /\ Top(t).mode = "peek")
    /\ IF goal = NoGoal THEN timeout \in Timeouts ELSE mode \in GoalModes /\ timeout = "poll"
    /\ Push(t, [mode |-> mode, pattern |-> pattern, timeout |-> timeout,
                st |-> "first", pos |-> End, seen |-> {}])
    /\ UNCHANGED <<sent, kind, refs, committed, queue, mstatus, size, goal, taken>>

\* IS_READY_MESSAGE with the iterator at m, then the end of psi_ipc_first
\* (from = End) or psi_ipc_next (from is the message it leaves), the call of
\* psi_ipc_get_message and the unification with the pattern.
IsReadyMessage(t, m, from) ==
    LET u == Top(t)
        p == SkipCommitted(t, m) IN
    \* Timed out, or just a poll: the iterator is deleted and the call fails.
    \/ /\ \/ mstatus[t] = "restart_time"
          \/ (p = End /\ u.timeout = "poll")
       /\ Pop(t)
       /\ mstatus' = [mstatus EXCEPT ![t] = "running"]
       /\ UNCHANGED <<refs, size>>
    \* Block the thread.
    \/ /\ mstatus[t] # "restart_time" /\ p = End /\ u.timeout # "poll"
       /\ SetTop(t, [u EXCEPT !.pos = End])
       /\ size' = [size EXCEPT ![t] = Cardinality(queue[t])]
       /\ mstatus' = [mstatus EXCEPT ![t] = "blocked"]
       /\ UNCHANGED refs
    \* There's a message to read.
    \/ /\ mstatus[t] # "restart_time" /\ p # End
       /\ SetTop(t, [u EXCEPT !.pos = p, !.seen = @ \union {p},
                              !.st = IF kind[p] \in u.pattern THEN "match" ELSE "next"])
       /\ refs' = [r \in Messages |-> refs[r] + (IF r = p THEN 1 ELSE 0)
                                              - (IF r = from THEN 1 ELSE 0)]
       /\ mstatus' = [mstatus EXCEPT ![t] = "running"]
       /\ UNCHANGED size

IpcFirst(t) ==
    /\ Executes(t)
    /\ HasUse(t, "first")
    /\ IsReadyMessage(t, Begin(t), End)
    /\ UNCHANGED <<sent, kind, committed, queue, goal, taken>>

IpcNext(t) ==
    /\ Executes(t)
    /\ HasUse(t, "next")
    /\ IsReadyMessage(t, Step(t, Top(t).pos), Top(t).pos)
    /\ UNCHANGED <<sent, kind, committed, queue, goal, taken>>

\* A bug the next definition avoids: who else refers to the message is not asked.
Unreferenced_always(m) == TRUE

\* !(*iter)->References(), after this reference is gone.
Unreferenced(m) == refs[m] = 1

\* psi_ipc_commit: the last that refers to the message deletes it.
IpcCommit(t) ==
    LET m == Top(t).pos IN
    /\ Executes(t)
    /\ HasUse(t, "match")
    /\ Top(t).mode = "recv"
    /\ committed' = [committed EXCEPT ![m] = TRUE]
    /\ refs' = [refs EXCEPT ![m] = @ - 1]
    /\ queue' = [queue EXCEPT ![t] = IF Unreferenced(m) THEN @ \ {m} ELSE @]
    /\ taken' = [taken EXCEPT ![m] = @ + 1]
    /\ Pop(t)
    /\ UNCHANGED <<sent, kind, mstatus, size, goal>>

\* What comes after ipc_peek fails: the thread backtracks into its choice point.
FailBack(t) ==
    /\ Executes(t)
    /\ HasUse(t, "match")
    /\ Top(t).mode = "peek"
    /\ SetTop(t, [Top(t) EXCEPT !.st = "next"])
    /\ UNCHANGED <<sent, kind, refs, committed, queue, mstatus, size, goal, taken>>

\* The choice point of a peek is cut: its iterator stays on the heap.
CutPeek(t) ==
    /\ Executes(t)
    /\ HasUse(t, "match")
    /\ Top(t).mode = "peek"
    /\ Pop(t)
    /\ UNCHANGED <<sent, kind, refs, committed, queue, mstatus, size, goal, taken>>

-----------------------------------------------------------------------------
(* Blocking, and what else happens to a thread.                            *)

\* BlockingMessageObject::unblock in the scheduler's walk.
Unblock(t) ==
    /\ mstatus[t] = "blocked"
    /\ goal = NoGoal
    /\ \/ /\ size[t] # Cardinality(queue[t])
          /\ SetTop(t, [Top(t) EXCEPT !.pos = Advance(t, IF size[t] = 0 THEN 0 ELSE size[t] - 1)])
          /\ mstatus' = [mstatus EXCEPT ![t] = "restart_msg"]
       \/ /\ size[t] = Cardinality(queue[t])
          /\ Top(t).timeout = "timed"
          /\ mstatus' = [mstatus EXCEPT ![t] = "restart_time"]
          /\ UNCHANGED uses
    /\ size' = [size EXCEPT ![t] = 0]
    /\ UNCHANGED <<sent, kind, refs, committed, queue, goal, taken>>

\* thread_throw from another thread: the uses above the catch are given up,
\* wherever they were, with their iterators and references.
Throw(t) ==
    /\ goal = NoGoal
    /\ mstatus[t] # "dead"
    /\ uses[t] # <<>>
    /\ \E n \in 0 .. Len(uses[t]) - 1 :
        /\ n > 0 => uses[t][n].st = "match"
        /\ uses' = [uses EXCEPT ![t] = SubSeq(@, 1, n)]
    /\ mstatus' = [mstatus EXCEPT ![t] = "running"]
    /\ size' = [size EXCEPT ![t] = 0]
    /\ UNCHANGED <<sent, kind, refs, committed, queue, goal, taken>>

\* A thread exits, or is made to: its queue goes with it.
ThreadEnds(t) ==
    /\ goal = NoGoal
    /\ t # Console
    /\ mstatus[t] # "dead"
    /\ queue' = [queue EXCEPT ![t] = {}]
    /\ uses' = [uses EXCEPT ![t] = <<>>]
    /\ mstatus' = [mstatus EXCEPT ![t] = "dead"]
    /\ size' = [size EXCEPT ![t] = 0]
    /\ UNCHANGED <<sent, kind, refs, committed, goal, taken>>

\* Scheduler::run_timer_goal: the goal runs in the initial thread, whatever
\* that thread is doing, and its choice points are gone when it is done.
GoalStart ==
    /\ goal = NoGoal
    /\ GoalModes # {}
    /\ mstatus[Console] \in Statuses \ {"dead"}
    /\ goal' = [depth |-> Len(uses[Console]), status |-> mstatus[Console]]
    /\ mstatus' = [mstatus EXCEPT ![Console] = "running"]
    /\ UNCHANGED <<sent, kind, refs, committed, queue, uses, size, taken>>

GoalEnd ==
    /\ goal # NoGoal
    /\ Len(uses[Console]) > goal.depth => Top(Console).st = "match" /\ Top(Console).mode = "peek"
    /\ uses' = [uses EXCEPT ![Console] = SubSeq(@, 1, goal.depth)]
    /\ mstatus' = [mstatus EXCEPT ![Console] = goal.status]
    /\ goal' = NoGoal
    /\ UNCHANGED <<sent, kind, refs, committed, queue, size, taken>>

MessageNext ==
    \/ \E k \in MessageKinds : Broadcast(k)
    \/ GoalStart
    \/ GoalEnd
    \/ \E t \in Receivers :
        \/ \E k \in MessageKinds : Send(t, k)
        \/ \E mode \in AllModes, pattern \in Patterns, timeout \in AllTimeouts :
            MakeIterator(t, mode, pattern, timeout)
        \/ IpcFirst(t)
        \/ IpcNext(t)
        \/ IpcCommit(t)
        \/ FailBack(t)
        \/ CutPeek(t)
        \/ Unblock(t)
        \/ Throw(t)
        \/ ThreadEnds(t)

MessageSpec == MessageInit /\ [][MessageNext]_messageVars

\* A thread that can run does so again and again, timer goals come to an end,
\* and the scheduler walks the blocked threads.
MessageFairness ==
    /\ WF_messageVars(GoalEnd)
    /\ \A t \in Receivers :
        SF_messageVars(IpcFirst(t) \/ IpcNext(t)) /\ SF_messageVars(Unblock(t))

-----------------------------------------------------------------------------
(* Properties.                                                             *)

\* The use is the one whose call is blocked, or timed out and not yet retried:
\* its iterator is at the end.
Stalled(t, i) ==
    LET status == IF t = Console /\ goal # NoGoal THEN goal.status ELSE mstatus[t]
        top    == IF t = Console /\ goal # NoGoal THEN goal.depth ELSE Len(uses[t]) IN
    /\ i = top
    /\ status \in {"blocked", "restart_time"}

\* An iterator that is to be followed is at a message that is still in the
\* queue: commits delete no message from under another receive, and a blocked
\* one is put back on a message before it is retried (block.cc:111).
IteratorsValid ==
    \A t \in Receivers : \A i \in DOMAIN uses[t] :
        uses[t][i].st # "first" /\ ~Stalled(t, i) => uses[t][i].pos \in queue[t]

\* A receive has looked at every message up to the one it is at: it skips none
\* that it could still take, also when it goes on after having been blocked.
NoneSkipped ==
    \A t \in Receivers : \A i \in DOMAIN uses[t] :
        LET u == uses[t][i] IN
        u.st # "first" /\ u.pos # End =>
            \A m \in queue[t] : m <= u.pos => m \in u.seen \/ committed[m]

\* No message is lost on a thread that is blocked: if there is one it has not
\* looked at, the size of its queue tells (block.cc:116).
NoneMissed ==
    \A t \in Receivers :
        mstatus[t] = "blocked" /\ size[t] = Cardinality(queue[t]) =>
            \A m \in queue[t] : m \in Top(t).seen \/ committed[m]

\* No message is taken twice: a receive that commits does so to a message that
\* nothing else has consumed since it looked (messages.h, "has message been
\* consummed?").
TakenOnce == \A m \in Messages : taken[m] <= 1

\* Seen from outside a thread has a mailbox, of the messages that have not been
\* committed to, whatever receives of it are under way (Mailbox.tla).
Box == [t \in Receivers |-> {m \in queue[t] : ~committed[m]}]

Mail == INSTANCE Mailbox WITH Threads <- Receivers, Kinds <- MessageKinds,
    alive <- {t \in Receivers : mstatus[t] # "dead"}, box <- Box

MailboxSpec == Mail!Spec

\* t is in a receive and there is a message for it that it has not looked at.
Scanning(t) ==
    /\ uses[t] # <<>>
    /\ Top(t).st # "match"
    /\ \E m \in Box[t] \ Top(t).seen : kind[m] \in Top(t).pattern

\* A receive for which there is a message comes to it, unless it times out or is
\* given up: the blocked thread is woken and none of its retries passes over it.
Served == \A t \in Receivers : Scanning(t) ~> ~Scanning(t)

\* Receives come to every message once, wherever they block and are tried again.
ReceivesSound == MessageTypeOK /\ IteratorsValid /\ NoneSkipped /\ NoneMissed /\ TakenOnce
=============================================================================
