---------------------------- MODULE TimerStack ----------------------------
(***************************************************************************)
(* The timer stack of the emulator (class TimerStack): the array timers    *)
(* below its index tos, sorted by expiry, which the scheduler polls with   *)
(* timer_ready and empties with make_timer_goal.  Element i of the         *)
(* sequence `timers' is the pointer timers[i-1]; a pointer is the id of    *)
(* its Timer object or NULL, `timer' is the memory it points into.  A goal *)
(* term is the id of its timer.  Once a NULL or freed pointer is           *)
(* dereferenced, or the array is overrun, nothing more is known about the  *)
(* program: status is "undefined" and the model stops.                     *)
(***************************************************************************)
EXTENDS Selection, SequencesExt

CONSTANTS
    Threads,        \* the threads that create timers
    Deltas,         \* the delays a caller asks for
    OneTimeFlags,   \* the values callers give to the argument OneTime
    DeleteCallers,  \* the threads that call delete_timer
    NULL,           \* an empty entry of the array
    TIMER_NUM,      \* the size of the array
    MaxTimers,      \* bound on the timers created
    MaxTime         \* bound on the clock

ASSUME TimerAssumption ==
    /\ Deltas \subseteq Nat
    /\ OneTimeFlags \subseteq BOOLEAN
    /\ DeleteCallers \subseteq Threads
    /\ TIMER_NUM \in Nat \ {0}
    /\ MaxTimers \in Nat
    /\ MaxTime \in Nat
    /\ NULL \notin Nat

VARIABLES
    timers,         \* the array below tos
    timer,          \* the Timer objects, by id
    freed,          \* the ids of the objects that were deleted
    now,            \* the clock
    goal,           \* the ids whose goals the last make_timer_goal returned
    status          \* "running", "fatal" (Fatal was called) or "undefined"

vars == <<timers, timer, freed, now, goal, status>>

tos == Len(timers)

\* Ids are given out in order, so the objects made so far are 1 .. next_id.
next_id == Len(timer)

Timer == [thread : Threads, time : Nat, delta : Deltas, one_time : OneTimeFlags]

Pointers(s) == {s[i] : i \in DOMAIN s}
Stacked == Pointers(timers) \ {NULL}

TypeOK ==
    /\ timers \in Seq(Nat \union {NULL})
    /\ Stacked \subseteq DOMAIN timer
    /\ timer \in Seq(Timer)
    /\ freed \subseteq DOMAIN timer
    /\ now \in Nat
    /\ goal \in Seq(DOMAIN timer)
    /\ status \in {"running", "fatal", "undefined"}

(***************************************************************************)
(* The array operations.                                                   *)
(***************************************************************************)

\* Where the shifting loop stops: it walks down from the top to the first
\* entry that is a timer not later than the new one.
InsertPoint(s, tm, it) ==
    Max({0} \union {i \in DOMAIN s : s[i] # NULL /\ ~(tm[it].time < tm[s[i]].time)}) + 1

\* A bug the next definition avoids: the new timer goes on top wherever it belongs.
insert_timer_onTop(s, tm, it) == Append(s, it)

insert_timer(s, tm, it) == InsertAt(s, InsertPoint(s, tm, it), it)

\* The loop clears the entry it finds and from then on copies timers[i+1]
\* over timers[i]: the cleared entry stays, the one after it is overwritten.
delete_timer(s, i) ==
    SubSeq(SubSeq(s, 1, i - 1) \o <<NULL>> \o SubSeq(s, i + 2, Len(s)), 1, Len(s) - 1)

Compress(s) == Keep(s, Nat)

\* Bugs the next definition avoids: only the first timer of the thread is removed;
\* the timers of every thread are.
delete_all_timers_first(s, tm, th) ==
    LET mine == {i \in DOMAIN s : s[i] # NULL /\ tm[s[i]].thread = th}
    IN  IF mine = {} THEN s ELSE RemoveAt(s, Min(mine))
delete_all_timers_all(s, tm, th) == <<>>

\* The entries of thread th are cleared, the rest is moved down in place, and
\* tos falls by the number of entries cleared: where a NULL was already there,
\* what the move left behind stays below tos.
delete_all_timers(s, tm, th) ==
    LET mine   == {p \in DOMAIN tm : tm[p].thread = th}
        kept   == Keep(s, Nat \ mine)
        Old(i) == IF s[i] \in mine \/ (i = Len(kept) + 1 /\ Last(s) \in mine \union {NULL})
                  THEN NULL ELSE s[i]
    IN  [i \in 1 .. Len(s) - Len(Keep(s, mine)) |-> IF i <= Len(kept) THEN kept[i] ELSE Old(i)]

\* One timer of the firing loop of make_timer_goal: a repeating timer is reset
\* and inserted again while its old entry is still in the array, a one-time
\* timer is deleted; the old entry is cleared.
Fire(st, i) ==
    LET p     == st.s[i]
        reset == [st.tm EXCEPT ![p].time = now + st.tm[p].delta]
    IN  IF st.tm[p].one_time
        THEN [st EXCEPT !.s[i] = NULL, !.freed = @ \union {p}]
        ELSE [st EXCEPT !.s = [insert_timer(st.s, reset, p) EXCEPT ![i] = NULL], !.tm = reset]

\* The firing loop, from the highest due entry n down to the first, and the
\* compress after it, which starts at the entry above the highest due one.
make_timer_goal(n) ==
    LET loop[i \in 0 .. n] ==
            IF i = 0 THEN [s |-> timers, tm |-> timer, freed |-> freed]
                     ELSE CHOOSE next \in {Fire(st, n - i + 1) : st \in {loop[i - 1]}} : TRUE
    IN  [loop[n] EXCEPT !.s = Compress(SubSeq(@, n + 1, Len(@)))]

Due(i) == timers[i] # NULL /\ timer[timers[i]].time <= now

\* A bug the next definition avoids: every entry is taken to be due.
HighestDue_all == tos

\* The highest due entry, 0 if there is none.
HighestDue == Max({0} \union {i \in DOMAIN timers : Due(i)})

Dangling(p) == p = NULL \/ p \in freed

\* A call of make_timer_goal dereferences every entry; an entry that is there
\* twice is freed twice if it fires once; the timers that fire and repeat are
\* all inserted before an entry is given back.
GoalUndefined ==
    \/ \E p \in Pointers(timers) : Dangling(p)
    \/ \E i, j \in 1 .. HighestDue : i # j /\ timers[i] = timers[j] /\ timers[i] # NULL
                                  /\ timer[timers[i]].one_time
    \/ tos + Len(Keep(SubSeq(timers, 1, HighestDue), {p \in DOMAIN timer : ~timer[p].one_time}))
         > TIMER_NUM

\* A timer of th that is there twice is read again after it was deleted.
ExitUndefined(th) ==
    \E i, j \in DOMAIN timers : /\ i # j
                               /\ timers[i] = timers[j] /\ timers[i] # NULL
                               /\ timer[timers[i]].thread = th

(***************************************************************************)
(* The operations.                                                         *)
(***************************************************************************)

Init ==
    /\ timers = <<>>
    /\ timer = <<>>
    /\ freed = {}
    /\ now = 0
    /\ goal = <<>>
    /\ status = "running"

\* An operation goes on normally while no pointer it may follow is dangling.
Running == status = "running" /\ Stacked \intersect freed = {}

psi_create_timer(th, d, ot) ==
    /\ Running
    /\ next_id < MaxTimers
    /\ timer' = Append(timer, [thread |-> th, time |-> now + d, delta |-> d, one_time |-> ot])
    /\ timers' = insert_timer(timers, timer', next_id + 1)
    /\ status' = IF tos + 1 < TIMER_NUM - 1 THEN "running" ELSE "fatal"
    /\ UNCHANGED <<freed, now, goal>>

\* Fails without effect if no entry is a timer of th with this id.
psi_delete_timer(th, id) ==
    /\ Running
    /\ id \in Stacked /\ timer[id].thread = th
    /\ timers' = delete_timer(timers, SelectInSeq(timers, LAMBDA p : p = id))
    /\ freed' = freed \union {id}
    /\ UNCHANGED <<timer, now, goal, status>>

\* thread_exit calls delete_all_timers.
psi_thread_exit(th) ==
    /\ Running
    /\ ~ExitUndefined(th)
    /\ timers' = delete_all_timers(timers, timer, th)
    /\ freed' = freed \union {p \in Stacked : timer[p].thread = th}
    /\ UNCHANGED <<timer, now, goal, status>>

\* The call of make_timer_goal by the pseudo-instruction psi_timer_goals; it
\* fails without effect if no timer is due.
psi_timer_goals ==
    /\ Running
    /\ HighestDue > 0
    /\ ~GoalUndefined
    /\ \E end \in {make_timer_goal(HighestDue)} :
         timers' = end.s /\ timer' = end.tm /\ freed' = end.freed
    /\ goal' = SubSeq(timers, 1, HighestDue)
    /\ UNCHANGED <<now, status>>

\* A bug the next definition avoids: looking at the last entry.
timer_ready_last == tos > 0 /\ Due(tos)

\* timer_ready looks at the first entry only.
timer_ready == tos > 0 /\ Due(1)

\* The scheduler's poll: the timer goals are made if timer_ready says so.
run_timer_goal == timer_ready /\ psi_timer_goals

\* A step that follows a pointer to no timer, or overruns the array: the poll,
\* the firing loop, the exit of a thread, or any operation on a stack that
\* holds a freed timer.
Undefined ==
    /\ status = "running"
    /\ \/ Stacked \intersect freed # {}
       \/ tos > 0 /\ timers[1] = NULL
       \/ HighestDue > 0 /\ GoalUndefined
       \/ \E th \in Threads : ExitUndefined(th)
    /\ status' = "undefined"
    /\ UNCHANGED <<timers, timer, freed, now, goal>>

Tick ==
    /\ Running
    /\ now < MaxTime
    /\ now' = now + 1
    /\ UNCHANGED <<timers, timer, freed, goal, status>>

Next ==
    \/ \E th \in Threads, d \in Deltas, ot \in OneTimeFlags : psi_create_timer(th, d, ot)
    \/ \E th \in DeleteCallers, id \in 1 .. MaxTimers : psi_delete_timer(th, id)
    \/ \E th \in Threads : psi_thread_exit(th)
    \/ psi_timer_goals
    \/ run_timer_goal
    \/ Undefined
    \/ Tick

\* The scheduler polls the timers before and after it runs a thread and when it
\* sleeps, and the clock goes on.
Spec == Init /\ [][Next]_vars /\ WF_vars(run_timer_goal) /\ WF_vars(Tick)

(***************************************************************************)
(* Properties.                                                             *)
(***************************************************************************)

\* The entries that are timers are sorted by expiry, whatever NULL entries lie
\* between them.  make_timer_goal fires everything below the highest due
\* entry and timer_ready looks at the first entry only: both rely on it.
StackSorted ==
    \A i, j \in DOMAIN timers :
        i < j /\ timers[i] # NULL /\ timers[j] # NULL
          => timer[timers[i]].time <= timer[timers[j]].time

\* A timer's goal is never called early: whatever make_timer_goal returns was
\* due, and a timer that repeats is then due no sooner than a period later.
NeverEarly ==
    [][goal' # goal =>
         \A i \in DOMAIN goal' :
            /\ timer[goal'[i]].time <= now
            /\ ~timer[goal'[i]].one_time => timer'[goal'[i]].time = now + timer[goal'[i]].delta]_vars

\* After thread_exit no entry points to a timer of that thread, so no goal of
\* an exited thread is called: a timer of th is stacked only if it was made
\* after the last exit of th.
ExitRemovesTimers ==
    [][\A th \in Threads : psi_thread_exit(th) =>
          \A p \in Pointers(timers') : p # NULL => timer'[p].thread # th]_vars

\* No timer is lost: a timer leaves the array only when it is a one-time timer
\* that fires, when its creator deletes it or when its creator exits.
NoTimerLost ==
    [][\A p \in Stacked :
          \/ p \in Pointers(timers')
          \/ timer[p].one_time /\ timer[p].time <= now
          \/ psi_delete_timer(timer[p].thread, p)
          \/ psi_thread_exit(timer[p].thread)]_vars

\* The array refines the promised service.
Service == INSTANCE TimerService WITH
    TimerIds <- 1 .. MaxTimers,
    armed <- {[thread |-> timer[p].thread, time |-> timer[p].time, id |-> p,
               delta |-> timer[p].delta, one_time |-> timer[p].one_time] : p \in Stacked}

RefinesService == Service!Spec

\* A due timer is delivered: it does not stay on the stack undelivered.
DueIsDelivered ==
    \A id \in 1 .. MaxTimers :
        (id \in Stacked /\ timer[id].time <= now)
          ~> (id \notin Stacked \/ timer[id].time > now)

\* The array has its type and its order.
StackRight == TypeOK /\ StackSorted
=============================================================================
