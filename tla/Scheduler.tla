----------------------------- MODULE Scheduler -----------------------------
(***************************************************************************)
(* The thread scheduler of the emulator: Scheduler::Schedule walks down    *)
(* run_queue and executes each thread that is not blocked until it drops   *)
(* out of Thread::Execute; threads block by putting a BlockingObject in    *)
(* blocked_queue; timer goals run in the initial thread between slices;    *)
(* SIGINT is handled in a thread of its own, inside the scheduler; and     *)
(* schedule_threads_now runs a second, nested scheduler for one round.     *)
(* Everything runs in one process: only the arrival of signals, of the end *)
(* of the time slice and of what threads wait for is asynchronous.         *)
(*                                                                         *)
(* pc names the place in the scheduler's code, ret the place to which the  *)
(* timer goal, the sleep or the signal handler in progress goes back.  What*)
(* Prolog code does in a slice is any sequence of the operations below;    *)
(* the constants ThreadOps, TimerOps and HandlerOps say which of them the  *)
(* threads, the timer goals and the signal handlers of the program use.    *)
(* When the node at the iterator of the walk is erased by someone else, pc *)
(* becomes "erased"; where the code follows another iterator or a pointer  *)
(* to something deleted, "undefined".  Then nothing more is said.          *)
(***************************************************************************)
EXTENDS Integers, Sequences, FiniteSets

CONSTANTS
    Threads,      \* the addresses of Thread objects
    Initial,      \* the initial thread
    NULL,
    TableSize,    \* the size of the thread table
    Kinds,        \* the kinds of blocking operations used, of those in AllKinds
    ThreadOps,    \* the operations threads use, of those in AllOps
    TimerOps,     \* the operations timer goals use
    HandlerOps,   \* the operations signal handlers use
    MaxSignals,   \* bound on the number of signals
    MaxObjects    \* bound on the blocking objects in the queue

AllKinds == {"IO", "MSG", "TIME", "WAIT"}
AllOps == {"fork", "exit", "kill", "throw", "wait", "yield", "atomic", "schedule", "halt"}

ASSUME SchedulerAssumption ==
    /\ Initial \in Threads
    /\ NULL \notin Threads
    /\ TableSize \in Nat \ {0}
    /\ Kinds \subseteq AllKinds
    /\ ThreadOps \subseteq AllOps
    /\ TimerOps \subseteq AllOps
    /\ HandlerOps \subseteq AllOps
    /\ MaxSignals \in Nat
    /\ MaxObjects \in Nat

VARIABLES
    \* Scheduler
    run_queue,      \* the threads to run
    blocked_queue,  \* the blocking objects
    iter,           \* the thread at the iterator of the walk, NULL at the end
    result,         \* why the thread at iter last dropped out of Execute
    pc, ret,        \* where the scheduler is, where it returns to
    enable,         \* scheduler_status.testEnableTimeslice()
    timeslice,      \* scheduler_status.testTimeslice()
    sub,            \* what is left of the nested scheduler's list
    saved,          \* what is restored after a timer goal or a nested scheduler
    \* the thread table
    array,          \* the thread of each slot
    live,           \* the number of live threads
    \* Thread
    condition,      \* thread condition, "FREE" for memory that holds no thread
    block_status,
    waiting,        \* the kind of blocking operation the thread's program counter is at
    forbid,         \* ~status.testTimeslicing(): the thread is in an atomic goal
    \* signals and timers
    signalled,      \* signals.Status().testSignals()
    pending,        \* the count of signals[SIGINT]
    signals,        \* the number of signals still to arrive
    handler,        \* the thread that handles the signal, NULL outside HandleSignal
    hresult,        \* why the signal handler last ended
    timer           \* timerStack.timer_ready()

queueVars  == <<run_queue, blocked_queue>>
placeVars  == <<iter, result, pc, ret, sub, saved>>
statusVars == <<enable, timeslice>>
tableVars  == <<array, live>>
threadVars == <<condition, block_status, waiting, forbid>>
signalVars == <<signalled, pending, signals, handler, hresult>>

vars == <<queueVars, placeVars, statusVars, tableVars, threadVars, signalVars, timer>>

Slots == 0 .. TableSize - 1

Restarts == {"RESTART_IO", "RESTART_MSG", "RESTART_TIME", "RESTART_WAIT"}
BlockStatuses == {"RUNNABLE", "BLOCKED"} \union Restarts

\* A blocking object: the blocked thread and what it waits for.  ptr is the
\* object's address: a thread can have several objects of a kind.
BlockingObject == [thread : Threads, kind : AllKinds, ptr : Nat]

Places == {"round", "walk", "visit", "exec", "switch", "timers", "advance", "sleep",
           "tgoal", "tgoaldone", "handler", "hsleep", "handlerdone",
           "subvisit", "subexec", "halted", "fatal", "erased", "undefined"}

Results == {"NONE", "TIMESLICE", "EXIT", "BLOCK", "SIGNAL", "YIELD", "HALT", "ERROR"}

\* What is restored: of the initial thread after a timer goal, and of the
\* scheduler and of whoever called it after a nested one.
Saved == [status : BlockStatuses, forbid : BOOLEAN,
          enable : BOOLEAN, timeslice : BOOLEAN, pc : Places, ret : Places]

TypeOK ==
    /\ run_queue \in Seq(Threads)
    /\ blocked_queue \subseteq BlockingObject
    /\ iter \in Threads \union {NULL}
    /\ result \in Results
    /\ pc \in Places
    /\ ret \in Places
    /\ enable \in BOOLEAN
    /\ timeslice \in BOOLEAN
    /\ sub \in Seq(Threads)
    /\ saved \in Saved
    /\ array \in [Slots -> Threads \union {NULL}]
    /\ live \in Int
    /\ condition \in [Threads -> {"FREE", "RUNNABLE", "EXITED"}]
    /\ block_status \in [Threads -> BlockStatuses]
    /\ waiting \in [Threads -> AllKinds \union {NULL}]
    /\ forbid \in [Threads -> BOOLEAN]
    /\ signalled \in BOOLEAN
    /\ pending \in Int
    /\ signals \in Nat
    /\ handler \in Threads \union {NULL}
    /\ hresult \in Results
    /\ timer \in BOOLEAN

(***************************************************************************)
(* The queues and the table.                                               *)
(***************************************************************************)

Queued == {run_queue[i] : i \in DOMAIN run_queue}
Tabled == {array[s] : s \in Slots} \ {NULL}
Listed == {sub[i] : i \in DOMAIN sub}

\* The first node of t in the run queue.
Node(t) == CHOOSE i \in DOMAIN run_queue :
               run_queue[i] = t /\ \A j \in 1 .. i - 1 : run_queue[j] # t

\* iter++
After(t) == IF Node(t) = Len(run_queue) THEN NULL ELSE run_queue[Node(t) + 1]

\* A bug the next definition avoids: the node behind that of t is taken out.
Erase_next(t) == SubSeq(run_queue, 1, Node(t)) \o SubSeq(run_queue, Node(t) + 2, Len(run_queue))

\* The first node of t is taken out.
Erase(t) == SubSeq(run_queue, 1, Node(t) - 1) \o SubSeq(run_queue, Node(t) + 1, Len(run_queue))

\* The bug the next definition avoids: the new thread goes behind its parent.
insertThread_behind(parent, t) ==
    IF parent \in Queued
    THEN SubSeq(run_queue, 1, Node(parent)) \o <<t>>
           \o SubSeq(run_queue, Node(parent) + 1, Len(run_queue))
    ELSE run_queue

\* The new thread goes in front of its parent, and nowhere if the parent is not
\* in the run queue.
insertThread(parent, t) ==
    IF parent \in Queued
    THEN SubSeq(run_queue, 1, Node(parent) - 1) \o <<t>>
           \o SubSeq(run_queue, Node(parent), Len(run_queue))
    ELSE run_queue

\* The lowest free slot.
FreeSlot == CHOOSE s \in Slots : array[s] = NULL /\ \A r \in 0 .. s - 1 : array[r] # NULL

\* Bugs the next definition avoids: the slot is not cleared, and the search for
\* it misses the first slot.
RemoveID_kept(t) == array
RemoveID_offByOne(t) == [s \in 1 .. TableSize - 1 |-> IF array[s] = t THEN NULL ELSE array[s]]

\* Removing t from the table: its slot is cleared.
RemoveID(t) == [s \in Slots |-> IF array[s] = t THEN NULL ELSE array[s]]

\* A bug the next definition avoids: the blocking objects are left in the queue.
ObjectsOf_left(t) == {}

\* What deleteThread and resetThread look for in the queue.
ObjectsOf(t) == {o \in blocked_queue : o.thread = t}

\* The lowest address at which no object is.
NewPtrs == {p \in 0 .. MaxObjects :
               /\ \A o \in blocked_queue : o.ptr # p
               /\ \A q \in 0 .. p - 1 : \E o \in blocked_queue : o.ptr = q}

Restarted(t) == block_status[t] \in Restarts

\* What unblock sets: that the event came, or that the time is over.
RestartStatuses(k) ==
    CASE k = "IO" -> {"RESTART_IO"}
      [] k = "MSG" -> {"RESTART_MSG", "RESTART_TIME"}
      [] k = "TIME" -> {"RESTART_TIME"}
      [] k = "WAIT" -> {"RESTART_WAIT", "RESTART_TIME"}

\* The objects in woken, whatever they waited for having come, leave the queue
\* and mark their threads to be restarted.  If a thread has several, the one
\* unblocked last counts.
InterQuantum(woken) ==
    /\ blocked_queue' = blocked_queue \ woken
    /\ \E status \in [{o.thread : o \in woken} -> UNION {RestartStatuses(o.kind) : o \in woken}] :
         /\ \A t \in DOMAIN status :
              \E o \in woken : o.thread = t /\ status[t] \in RestartStatuses(o.kind)
         /\ block_status' = [t \in Threads |-> IF t \in DOMAIN status THEN status[t]
                                               ELSE block_status[t]]

\* unblock follows the object's pointer to its thread.
Dangling == {o \in blocked_queue : condition[o.thread] = "FREE"}

\* new Thread, AddID, IncLive: at address t, which must be free.
NewThread(t) ==
    /\ array' = [array EXCEPT ![FreeSlot] = t]
    /\ live' = live + 1
    /\ condition' = [condition EXCEPT ![t] = "RUNNABLE"]

\* RemoveID, DecLive, delete: the address is free again.
DeleteThread(t) ==
    /\ array' = RemoveID(t)
    /\ live' = live - 1
    /\ condition' = [condition EXCEPT ![t] = "FREE"]
    /\ waiting' = [waiting EXCEPT ![t] = NULL]
    /\ forbid' = [forbid EXCEPT ![t] = FALSE]

(***************************************************************************)
(* Schedule: the walk down the run queue.                                  *)
(***************************************************************************)

Init ==
    /\ run_queue = <<Initial>>
    /\ blocked_queue = {}
    /\ iter = NULL
    /\ result = "NONE"
    /\ pc = "round" /\ ret = "round"
    /\ enable = TRUE /\ timeslice = FALSE
    /\ sub = <<>>
    /\ saved = [status |-> "RUNNABLE", forbid |-> FALSE,
                enable |-> TRUE, timeslice |-> FALSE, pc |-> "round", ret |-> "round"]
    /\ array = [s \in Slots |-> IF s = 0 THEN Initial ELSE NULL]
    /\ live = 1
    /\ condition = [t \in Threads |-> IF t = Initial THEN "RUNNABLE" ELSE "FREE"]
    /\ block_status = [t \in Threads |-> "RUNNABLE"]
    /\ waiting = [t \in Threads |-> NULL]
    /\ forbid = [t \in Threads |-> FALSE]
    /\ signalled = FALSE /\ pending = 0 /\ signals = MaxSignals
    /\ handler = NULL /\ hresult = "NONE"
    /\ timer = FALSE

Goto(p) == pc' = p /\ UNCHANGED <<ret, sub, saved>>

\* The head of the while loop and the place behind the execution of a thread:
\* if a timer is ready the initial thread runs the timer goals, on top of
\* whatever it was doing.
NoTimerGoal ==
    /\ pc \in {"round", "timers"}
    /\ ~timer
    /\ Goto(IF pc = "round" THEN "walk" ELSE "advance")
    /\ UNCHANGED <<queueVars, iter, result, statusVars, tableVars, threadVars, signalVars, timer>>

\* The goals start as a call: their first pseudo-instruction succeeds and makes
\* the initial thread's block status RUNNABLE.
RunTimerGoal ==
    /\ pc \in {"round", "timers"}
    /\ timer
    /\ pc' = "tgoal" /\ ret' = IF pc = "round" THEN "walk" ELSE "advance"
    /\ saved' = [saved EXCEPT !.status = block_status[Initial], !.forbid = forbid[Initial]]
    /\ block_status' = [block_status EXCEPT ![Initial] = "RUNNABLE"]
    /\ timeslice' = FALSE
    /\ timer' = FALSE
    /\ UNCHANGED <<queueVars, iter, result, sub, enable, tableVars, condition, waiting, forbid,
                   signalVars>>

\* However the goals ended, registers and block status are put back, and the
\* copies of them are gone.
TimerGoalDone ==
    /\ pc = "tgoaldone"
    /\ block_status' = [block_status EXCEPT ![Initial] = saved.status]
    /\ saved' = [saved EXCEPT !.status = "RUNNABLE", !.forbid = FALSE]
    /\ pc' = ret
    /\ UNCHANGED <<queueVars, iter, result, ret, sub, statusVars, tableVars, condition, waiting, forbid,
                   signalVars, timer>>

StartWalk ==
    /\ pc = "walk"
    /\ iter' = Head(run_queue)
    /\ Goto("visit")
    /\ UNCHANGED <<queueVars, result, statusVars, tableVars, threadVars, signalVars, timer>>

\* A bug the next definition avoids: going on in an atomic goal.
MayAdvance_always == TRUE

\* It is all right to go on to another thread.
MayAdvance == enable

\* A thread that the nested scheduler left exited is removed.
VisitExited ==
    /\ pc = "visit" /\ iter # NULL
    /\ condition[iter] = "EXITED"
    /\ blocked_queue' = blocked_queue \ ObjectsOf(iter)
    /\ DeleteThread(iter)
    /\ block_status' = [block_status EXCEPT ![iter] = "RUNNABLE"]
    /\ Goto(IF enable THEN "visit" ELSE "fatal")
    /\ iter' = After(iter)
    /\ run_queue' = Erase(iter)
    /\ UNCHANGED <<result, statusVars, signalVars, timer>>

\* After InterQuantum a blocked thread is passed over, in an atomic goal slept
\* for; any other is executed with a new time slice.
Visit ==
    /\ pc = "visit" /\ iter # NULL
    /\ condition[iter] # "EXITED"
    /\ \E woken \in SUBSET (blocked_queue \ Dangling) : InterQuantum(woken)
    /\ \/ /\ block_status'[iter] = "BLOCKED" /\ MayAdvance
          /\ iter' = After(iter)
          /\ Goto("visit")
          /\ UNCHANGED timeslice
       \/ /\ block_status'[iter] = "BLOCKED" /\ ~MayAdvance
          /\ pc' = "sleep" /\ ret' = "visit"
          /\ UNCHANGED <<iter, sub, saved, timeslice>>
       \/ /\ block_status'[iter] # "BLOCKED"
          /\ timeslice' = FALSE
          /\ Goto("exec")
          /\ UNCHANGED iter
    /\ UNCHANGED <<run_queue, result, enable, tableVars, condition, waiting, forbid, signalVars,
                   timer>>

\* Advance the iterator if appropriate.
Advance ==
    /\ pc = "advance"
    /\ \/ /\ result = "EXIT"
          /\ run_queue' = Erase(iter)
          /\ iter' = After(iter)
          /\ Goto(IF enable THEN "visit" ELSE "fatal")
       \/ /\ result # "EXIT" /\ MayAdvance
          /\ iter' = After(iter)
          /\ Goto("visit")
          /\ UNCHANGED run_queue
       \/ /\ result = "BLOCK" /\ ~MayAdvance
          /\ pc' = "sleep" /\ ret' = "visit"
          /\ UNCHANGED <<run_queue, iter, sub, saved>>
       \/ /\ result \notin {"EXIT", "BLOCK"} /\ ~MayAdvance
          /\ Goto("visit")
          /\ UNCHANGED <<run_queue, iter>>
    /\ UNCHANGED <<blocked_queue, result, statusVars, tableVars, threadVars, signalVars, timer>>

\* A bug the next definition avoids: one thread that is not blocked is missed.
NoneRunnable_butOne == Cardinality(blocked_queue) + 1 >= Len(run_queue)

\* As the code tells it: by the lengths of the two queues.
NoneRunnable == Cardinality(blocked_queue) = Len(run_queue)

\* The end of the walk: sleep if as many objects as threads are queued.
RoundEnd ==
    /\ pc = "visit" /\ iter = NULL
    /\ IF NoneRunnable
       THEN pc' = "sleep" /\ ret' = "round" /\ UNCHANGED <<sub, saved>>
       ELSE Goto("round")
    /\ UNCHANGED <<queueVars, iter, result, statusVars, tableVars, threadVars, signalVars, timer>>

\* Until what some thread waits for has come, a signal has to be handled, or
\* select reports something else, such as a timer.
Sleep ==
    /\ pc = "sleep"
    /\ \E woken \in SUBSET (blocked_queue \ Dangling) : InterQuantum(woken)
    /\ Goto(ret)
    /\ UNCHANGED <<run_queue, iter, result, statusVars, tableVars, condition, waiting, forbid,
                   signalVars, timer>>

\* An object whose thread is deleted may be asked whether it can be unblocked.
UnblockFreed ==
    /\ Dangling # {}
    /\ \/ pc \in {"sleep", "hsleep"}
       \/ pc = "visit" /\ iter # NULL /\ condition[iter] # "EXITED"
       \/ pc = "subvisit" /\ sub # <<>>
    /\ Goto("undefined")
    /\ UNCHANGED <<queueVars, iter, result, statusVars, tableVars, threadVars, signalVars, timer>>

(***************************************************************************)
(* Execute: the operations of the thread that runs.                        *)
(***************************************************************************)

Executing == pc \in {"exec", "subexec", "tgoal", "handler"}

\* Who executes at a place.
Runs(p) == CASE p = "exec" -> iter
             [] p = "subexec" -> Head(sub)
             [] p = "tgoal" -> Initial
             [] p = "handler" -> handler

Self == Runs(pc)

Ops == CASE pc = "tgoal" -> TimerOps
         [] pc = "handler" -> HandlerOps
         [] OTHER -> ThreadOps

\* Self is not in the middle of a blocking operation; a timer goal runs on top
\* of the one the initial thread may be in.
AtCall == Executing /\ (pc = "tgoal" \/ waiting[Self] = NULL)

Does(op) == AtCall /\ op \in Ops

in_sigint == handler # NULL

running_sub_scheduler ==
    \/ pc \in {"subvisit", "subexec"}
    \/ pc \in {"switch", "handler", "hsleep", "handlerdone"} /\ ret = "subvisit"

\* HANDLE_PSI: a pseudo-instruction that succeeds or fails.
Continues == block_status' = [block_status EXCEPT ![Self] = "RUNNABLE"]

\* The thread leaves Execute with return value r.  A timer goal is abandoned
\* whatever r is; a signal handler that did not block is finished.
DropOut(r) ==
    /\ pc' = CASE r = "HALT" -> "halted"
               [] r # "HALT" /\ pc = "tgoal" -> "tgoaldone"
               [] r # "HALT" /\ pc = "handler" -> IF r = "BLOCK" THEN "hsleep" ELSE "handlerdone"
               [] r # "HALT" /\ pc = "exec" -> IF r = "SIGNAL" THEN "switch" ELSE "timers"
               [] r # "HALT" /\ pc = "subexec" -> IF r = "SIGNAL" THEN "switch" ELSE "subvisit"
    /\ ret' = CASE pc = "exec" /\ r = "SIGNAL" -> "timers"
                [] pc = "subexec" /\ r = "SIGNAL" -> "subvisit"
                [] OTHER -> ret
    /\ result' = IF pc = "exec" THEN r ELSE result
    /\ hresult' = IF pc = "handler" THEN r ELSE hresult
    /\ sub' = IF pc = "subexec" THEN Tail(sub) ELSE sub
    /\ UNCHANGED <<iter, saved>>

\* A full table is an allocation failure.
Fork(t) ==
    /\ Does("fork")
    /\ condition[t] = "FREE" /\ live < TableSize
    /\ NewThread(t)
    /\ run_queue' = insertThread(Self, t)
    /\ Continues
    /\ UNCHANGED <<blocked_queue, placeVars, statusVars, waiting, forbid, signalVars, timer>>

\* thread_exit: the memory of a thread that Schedule executes is freed, its
\* node stays until the iterator advances.  The signal handler, having no
\* parent, counts as an initial thread.
ExitSelf ==
    /\ Does("exit")
    /\ IF Self = Initial \/ pc = "handler"
       THEN DropOut("HALT") /\ UNCHANGED <<tableVars, threadVars>>
       ELSE /\ DropOut("EXIT")
            /\ \/ /\ pc = "exec"
                  /\ DeleteThread(Self)
                  /\ Continues
               \/ /\ pc = "subexec"
                  /\ condition' = [condition EXCEPT ![Self] = "EXITED"]
                  /\ UNCHANGED <<tableVars, block_status, waiting, forbid>>
    /\ UNCHANGED <<queueVars, statusVars, signalled, pending, signals, handler, timer>>

\* thread_exit(y): the thread, its node and its blocking objects are deleted at
\* once, even if an iterator is at the node; a thread that is in no run queue is
\* only marked.
Kill(y) ==
    /\ Does("kill")
    /\ y \in Tabled \ {Self}
    /\ \/ /\ y = Initial
          /\ DropOut("HALT")
          /\ UNCHANGED <<queueVars, tableVars, threadVars>>
       \/ /\ y # Initial /\ y \notin Queued
          /\ condition' = [condition EXCEPT ![y] = "EXITED"]
          /\ Continues
          /\ UNCHANGED <<queueVars, tableVars, waiting, forbid, placeVars, hresult>>
       \/ /\ y # Initial /\ y \in Queued
          /\ blocked_queue' = blocked_queue \ ObjectsOf(y)
          /\ run_queue' = Erase(y)
          /\ DeleteThread(y)
          /\ block_status' = [block_status EXCEPT ![Self] = "RUNNABLE", ![y] = "RUNNABLE"]
          /\ Goto(IF y = iter THEN "erased" ELSE IF y \in Listed THEN "undefined" ELSE pc)
          /\ UNCHANGED <<iter, result, hresult>>
    /\ UNCHANGED <<statusVars, signalled, pending, signals, handler, timer>>

\* thread_throw and thread_push_goal make another thread continue with throw/1
\* or the pushed goal: resetThread removes its first blocking object.
Throw(y) ==
    /\ Does("throw")
    /\ y \in Tabled \ {Self} /\ condition[y] = "RUNNABLE"
    /\ IF ObjectsOf(y) = {}
       THEN blocked_queue' = blocked_queue
       ELSE \E o \in ObjectsOf(y) : blocked_queue' = blocked_queue \ {o}
    /\ block_status' = [block_status EXCEPT ![Self] = "RUNNABLE", ![y] = "RUNNABLE"]
    /\ waiting' = [waiting EXCEPT ![y] = NULL]
    /\ UNCHANGED <<run_queue, placeVars, statusVars, tableVars, condition, forbid, signalVars, timer>>

\* Whether an operation of kind k blocks if what it waits for is not there:
\* only IO does not look at how the thread was restarted.
MayBlock(k) ==
    CASE k = "IO" -> TRUE
      [] k = "MSG" -> block_status[Self] # "RESTART_TIME"
      [] k \in {"TIME", "WAIT"} -> ~Restarted(Self)

Wait(k) ==
    /\ Executing /\ "wait" \in Ops
    /\ AtCall \/ waiting[Self] = k
    /\ MayBlock(k)
    /\ Cardinality(blocked_queue) < MaxObjects
    /\ \E p \in NewPtrs :
         blocked_queue' = blocked_queue \union {[thread |-> Self, kind |-> k, ptr |-> p]}
    /\ block_status' = [block_status EXCEPT ![Self] = "BLOCKED"]
    /\ waiting' = IF pc = "tgoal" THEN waiting ELSE [waiting EXCEPT ![Self] = k]
    /\ DropOut("BLOCK")
    /\ UNCHANGED <<run_queue, statusVars, tableVars, condition, forbid, signalled, pending, signals,
                   handler, timer>>

\* The blocking operation, tried again, finds what it waited for or gives up.
WaitDone ==
    /\ Executing /\ ~AtCall
    /\ Restarted(Self) \/ waiting[Self] \in {"IO", "MSG"}
    /\ waiting' = [waiting EXCEPT ![Self] = NULL]
    /\ Continues
    /\ UNCHANGED <<queueVars, placeVars, statusVars, tableVars, condition, forbid, signalVars, timer>>

Yield ==
    /\ Does("yield")
    /\ Continues
    /\ DropOut("YIELD")
    /\ UNCHANGED <<queueVars, statusVars, tableVars, condition, waiting, forbid, signalled, pending,
                   signals, handler, timer>>

\* thread_atomic_goal turns time slicing off for the thread and for the
\* scheduler, and back on unless it was off before.
Forbid ==
    /\ Does("atomic")
    /\ ~forbid[Self]
    /\ forbid' = [forbid EXCEPT ![Self] = TRUE]
    /\ enable' = FALSE
    /\ Continues
    /\ UNCHANGED <<queueVars, placeVars, timeslice, tableVars, condition, waiting, signalVars, timer>>

Permit ==
    /\ Does("atomic")
    /\ forbid[Self] /\ ~(pc = "tgoal" /\ saved.forbid)
    /\ forbid' = [forbid EXCEPT ![Self] = FALSE]
    /\ enable' = TRUE
    /\ Continues
    /\ UNCHANGED <<queueVars, placeVars, timeslice, tableVars, condition, waiting, signalVars, timer>>

\* halt, or the goal of the initial thread ends.
Halt ==
    /\ Does("halt")
    /\ DropOut("HALT")
    /\ UNCHANGED <<queueVars, statusVars, tableVars, threadVars, signalled, pending, signals, handler,
                   timer>>

\* The goals of the timers, or of the signal handler, are done, and with them
\* every atomic goal they ran.
GoalDone ==
    /\ AtCall /\ pc \in {"tgoal", "handler"}
    /\ forbid[Self] => pc = "tgoal" /\ saved.forbid
    /\ DropOut("EXIT")
    /\ UNCHANGED <<queueVars, statusVars, tableVars, threadVars, signalled, pending, signals, handler,
                   timer>>

\* Every call looks for signals first, then for the end of the time slice.
SignalCheck ==
    /\ AtCall
    /\ signalled /\ ~in_sigint
    /\ DropOut("SIGNAL")
    /\ UNCHANGED <<queueVars, statusVars, tableVars, threadVars, signalled, pending, signals, handler,
                   timer>>

Timeslice ==
    /\ AtCall
    /\ ~(signalled /\ ~in_sigint)
    /\ enable /\ timeslice
    /\ DropOut("TIMESLICE")
    /\ UNCHANGED <<queueVars, statusVars, tableVars, threadVars, signalled, pending, signals, handler,
                   timer>>

(***************************************************************************)
(* run_scheduler: one round over a list of other threads, inside the       *)
(* thread, the timer goal or the signal handler that calls it.             *)
(***************************************************************************)

ScheduleNow(list) ==
    /\ Does("schedule")
    /\ ~running_sub_scheduler
    /\ \A i \in DOMAIN list : list[i] \in Tabled \ {Self}
    /\ sub' = list
    /\ saved' = [saved EXCEPT !.enable = enable, !.timeslice = timeslice, !.pc = pc, !.ret = ret]
    /\ enable' = TRUE /\ timeslice' = TRUE
    /\ pc' = "subvisit"
    /\ UNCHANGED <<queueVars, iter, result, ret, tableVars, threadVars, signalVars, timer>>

\* Inside a nested scheduler a second one fails.
ScheduleFails ==
    /\ Does("schedule")
    /\ running_sub_scheduler
    /\ Continues
    /\ UNCHANGED <<queueVars, placeVars, statusVars, tableVars, condition, waiting, forbid, signalVars,
                   timer>>

\* An exited thread is erased from the run queue through an iterator of the
\* other list, unless it exited in an atomic goal.
SubVisit ==
    /\ pc = "subvisit" /\ sub # <<>>
    /\ \/ /\ condition[Head(sub)] = "EXITED"
          /\ pc' = IF enable THEN "undefined" ELSE "fatal"
          /\ UNCHANGED <<sub, timeslice, blocked_queue, block_status>>
       \/ /\ condition[Head(sub)] # "EXITED"
          /\ \E woken \in SUBSET (blocked_queue \ Dangling) : InterQuantum(woken)
          /\ IF block_status'[Head(sub)] = "BLOCKED"
             THEN pc' = pc /\ sub' = Tail(sub) /\ UNCHANGED timeslice
             ELSE pc' = "subexec" /\ timeslice' = FALSE /\ UNCHANGED sub
    /\ UNCHANGED <<run_queue, iter, result, ret, saved, enable, tableVars, condition, waiting,
                   forbid, signalVars, timer>>

SubDone ==
    /\ pc = "subvisit" /\ sub = <<>>
    /\ enable' = saved.enable /\ timeslice' = saved.timeslice
    /\ block_status' = [block_status EXCEPT ![Runs(saved.pc)] = "RUNNABLE"]
    /\ pc' = saved.pc /\ ret' = saved.ret
    /\ saved' = [saved EXCEPT !.enable = TRUE, !.timeslice = FALSE, !.pc = "round", !.ret = "round"]
    /\ UNCHANGED <<queueVars, iter, result, sub, tableVars, condition, waiting, forbid,
                   signalVars, timer>>

(***************************************************************************)
(* HandleSignal, called where a thread dropped out for a signal and by     *)
(* Sleep.  The flag is reset when the handler starts and again when it     *)
(* ends.                                                                   *)
(***************************************************************************)

AtHandleSignal == pc = "switch" \/ (pc = "sleep" /\ signalled /\ ~in_sigint)

StartHandler(t) ==
    /\ AtHandleSignal
    /\ condition[t] = "FREE" /\ live < TableSize
    /\ NewThread(t)
    /\ handler' = t
    /\ signalled' = FALSE
    /\ pending' = pending - 1
    /\ Goto("handler")
    /\ UNCHANGED <<queueVars, iter, result, statusVars, block_status, waiting, forbid, signals, hresult,
                   timer>>

NoHandler ==
    /\ AtHandleSignal
    /\ live >= TableSize
    /\ Goto("fatal")
    /\ UNCHANGED <<queueVars, iter, result, statusVars, tableVars, threadVars, signalVars, timer>>

HandlerSleep ==
    /\ pc = "hsleep"
    /\ \E woken \in SUBSET (blocked_queue \ Dangling) : InterQuantum(woken)
    /\ Goto("handler")
    /\ UNCHANGED <<run_queue, iter, result, statusVars, tableVars, condition, waiting, forbid,
                   signalVars, timer>>

\* The handler's blocking objects stay in the queue.
HandlerDone ==
    /\ pc = "handlerdone"
    /\ DeleteThread(handler)
    /\ block_status' = [block_status EXCEPT ![handler] = "RUNNABLE"]
    /\ handler' = NULL
    /\ signalled' = FALSE
    /\ hresult' = "NONE"
    /\ Goto(ret)
    /\ UNCHANGED <<queueVars, iter, result, statusVars, pending, signals, timer>>

(***************************************************************************)
(* What comes from outside.                                                *)
(***************************************************************************)

SliceEnds ==
    /\ pc \in {"exec", "subexec"} /\ ~timeslice
    /\ timeslice' = TRUE
    /\ UNCHANGED <<queueVars, placeVars, enable, tableVars, threadVars, signalVars, timer>>

handle_sigint ==
    /\ signals > 0
    /\ signals' = signals - 1
    /\ pending' = pending + 1
    /\ signalled' = TRUE
    /\ UNCHANGED <<queueVars, placeVars, statusVars, tableVars, threadVars, handler, hresult, timer>>

TimerDue ==
    /\ TimerOps # {} /\ ~timer
    /\ timer' = TRUE
    /\ UNCHANGED <<queueVars, placeVars, statusVars, tableVars, threadVars, signalVars>>

Walk ==
    \/ NoTimerGoal \/ RunTimerGoal \/ TimerGoalDone
    \/ StartWalk \/ VisitExited \/ Visit \/ Advance \/ RoundEnd
    \/ SubVisit \/ SubDone
    \/ (\E t \in Threads : StartHandler(t)) \/ NoHandler \/ HandlerDone

Execute ==
    \/ \E t \in Threads : Fork(t) \/ Kill(t) \/ Throw(t)
    \/ \E k \in Kinds : Wait(k)
    \/ \E n \in 0 .. TableSize - 1 : \E list \in [1 .. n -> Threads] : ScheduleNow(list)
    \/ ScheduleFails
    \/ ExitSelf \/ WaitDone \/ Yield \/ Forbid \/ Permit \/ Halt \/ GoalDone
    \/ SignalCheck \/ Timeslice

Environment == SliceEnds \/ handle_sigint \/ TimerDue

Next == Walk \/ Execute \/ Sleep \/ HandlerSleep \/ UnblockFreed \/ Environment

Spec == Init /\ [][Next]_vars

\* The scheduler goes on, the time slice ends, and every thread comes to its
\* next call and out of a blocking operation it has been restarted in.
FairSpec ==
    /\ Spec
    /\ WF_vars(Walk)
    /\ WF_vars(SliceEnds)
    /\ WF_vars(SignalCheck) /\ WF_vars(Timeslice)
    /\ WF_vars(WaitDone \/ \E k \in Kinds : ~AtCall /\ Wait(k))

(***************************************************************************)
(* Properties.                                                             *)
(***************************************************************************)

Stopped == pc \in {"halted", "fatal", "erased", "undefined"}

\* Where the scheduler is, and where it returns to, but for a nested one.
place == IF running_sub_scheduler THEN saved.pc ELSE pc
back  == IF running_sub_scheduler THEN saved.ret ELSE ret

InTimerGoal == place \in {"tgoal", "tgoaldone"}
InHandler   == place \in {"switch", "handler", "hsleep", "handlerdone"}

\* The block status of t, which a timer goal hides while it runs.
Status(t) == IF t = Initial /\ InTimerGoal THEN saved.status ELSE block_status[t]

\* A thread that exited in its slice keeps its node until the iterator advances.
Deleted == /\ result = "EXIT"
           /\ place \in {"timers", "advance"} \/ (InTimerGoal /\ back = "advance")

Nodes == IF Deleted THEN Erase(iter) ELSE run_queue

\* A blocking object belongs to a thread that exists and is blocked, and a
\* blocked thread has exactly one: otherwise it would never be woken, or be
\* restarted out of an operation it is not in.
BlockedConsistent ==
    ~Stopped =>
        /\ \A o \in blocked_queue : condition[o.thread] # "FREE" /\ Status(o.thread) = "BLOCKED"
        /\ \A t \in Tabled : Status(t) = "BLOCKED" =>
              Cardinality({o \in blocked_queue : o.thread = t}) = 1

\* The thread table, its counter of live threads, the threads themselves and the
\* run queue agree, whatever forks, exits and deletions there are in a walk.
TableConsistent ==
    ~Stopped =>
        /\ live = Cardinality({s \in Slots : array[s] # NULL})
        /\ live = Cardinality(Tabled)
        /\ Tabled = {t \in Threads : condition[t] # "FREE"}
        /\ {Nodes[i] : i \in DOMAIN Nodes} = Tabled \ {handler}
        /\ Len(Nodes) = Cardinality(Tabled \ {handler})

\* Where the iterator must be at a node: a thread is executed or was just now.
AtNode ==
    \/ place \in {"exec", "timers", "advance"}
    \/ InTimerGoal /\ back = "advance"
    \/ InHandler /\ back = "timers"

BetweenWalks ==
    \/ place \in {"round", "walk"}
    \/ InTimerGoal /\ back = "walk"
    \/ (place = "sleep" \/ InHandler) /\ back = "round"

\* The initial thread is never removed, and the iterator of the walk is at a node
\* of the run queue that only the walk itself erases, whatever is forked and
\* exits between two of its steps and whatever nested schedulers do.
IteratorValid ==
    /\ Initial \in Queued
    /\ pc # "erased"
    /\ iter # NULL => iter \in Queued
    /\ AtNode => iter # NULL
    /\ BetweenWalks => iter = NULL

\* No pointer to a deleted thread, and no iterator at an erased node, is used.
NothingFreedUsed == pc \notin {"erased", "undefined"}

\* The walk ends in select only if every thread of the run queue is blocked.
NoSleepWhileRunnable ==
    pc = "sleep" /\ ret = "round" => \A t \in Queued : Status(t) = "BLOCKED"

\* While a thread is in an atomic goal time slicing is off, and no other thread
\* of the run queue executes.
AtomicGoal ==
    \A t \in Threads : forbid[t] =>
        /\ ~enable
        /\ pc \in {"exec", "subexec"} => Self = t

\* A signal that has been counted and has no handler yet is still flagged.
SignalKept == pending > 0 /\ ~in_sigint => signalled

\* The signal handler runs until its goal is done.
HandlerRunsToCompletion ==
    [][pc = "handler" /\ pc' = "handlerdone" => hresult' = "EXIT"]_vars

\* Every walk down the run queue ends, however many threads are forked in it.
WalkEnds == pc = "walk" ~> pc \in {"round", "sleep"} \/ Stopped

\* A thread that has been unblocked gets to retry its operation.
UnblockedRuns == \A t \in Threads : Restarted(t) ~> ~Restarted(t) \/ Stopped

=============================================================================
