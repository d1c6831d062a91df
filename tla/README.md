# Qu-Prolog's run-time system in TLA+

Qu-Prolog is a Prolog for reasoning with object variables, quantifiers and
substitutions.  Its emulator `qem` (C++, `src/src/`) runs many Prolog threads
inside one operating-system process, with its own scheduler, timers, signal
handling, messages and a dynamic database that is shared by all threads.  That
run-time system is what these modules are about: the code in it that is
sequential on paper, but is entered, left and entered again at so many points
that no test goes through the orders that matter; and, below it, the machine
that executes the threads, its heap and collector, the tables, the algorithms
on terms with object variables, and the compiler of clauses, whose mistakes
show in a few programs only.

Contents: 1 the inventory, 2 the modules and how they correspond to the code,
3 what is checked, 4 what is proved, 5 disagreements found, 6 what is not
modelled, 7 the plan.

## 1. Inventory

### The scheduler — `scheduler.cc`, `scheduler.h`, `scheduler_status.h`

State: `run_queue` (a list of threads), `blocked_queue` (a list of blocking
objects), two flags (time slicing enabled; the slice has ended), and the
iterator of the walk.
Operations: `Schedule` (the loop: timer goals, then a walk down the run queue
that executes every thread that is not blocked, then sleep if none can run),
`InterQuantum`/`processBlockedThreads`, `run_timer_goal`, `Sleep`,
`HandleSignal`, `insertThread`, `deleteThread`, `resetThread`, and
`run_scheduler`, a nested round for `schedule_threads_now/2`.
Interaction: it calls `Thread::Execute` and is called back from inside it by the
escapes that fork, exit, throw and block.
What is hard: the walk holds a list iterator while Prolog code changes the list;
sleeping is decided by comparing the *lengths* of two queues; a timer goal runs
in the initial thread on top of whatever that thread was doing; a signal handler
is a thread that is in no queue; a nested scheduler runs inside a slice of the
outer one.
Correct means: the iterator is always at a node of the list; queue, table,
counters and threads agree; a blocked thread has its one object and an object has
a blocked thread; the process never sleeps while a thread can run; in an atomic
goal nobody else runs; every walk ends and every woken thread gets its turn.

### Thread operations — `thread_escapes.cc`, `thread.cc`, `yield.cc`, `thread_options.h`

State: each thread's condition, block status, restart status, flags.
Operations: fork, exit (of oneself and of others), throw and push_goal into
another thread, wait, yield, forbid and permit time slicing
(`thread_atomic_goal`), `schedule_threads_now`, symbols, suspend and resume.
What is hard: every one of them reaches into structures that a loop further up
the C++ stack is walking.

### Thread table — `thread_table.cc`, `thread_table.h`

State: slots, a counter of live threads, a hash table of names.  Operations:
AddID, RemoveID, IncLive/DecLive, MakeName, AddName, RemoveName.  Correct means:
slots, counter and run queue agree; the name of a running thread leads to it,
and no name to a stranger.  The table of names is the open hash table of
`dynamic_hash_table.h`, with marks for removed entries.

### Blocking objects — `block.cc`, `block.h`

State: an object per blocked thread (input/output, message, timeout, wait for
predicates or the record database) with what it waits for.  Operations:
construction, `unblock`, `hasTimedOut`.  What is hard: an object outlives the
call that made it, points to its thread and is deleted by others; after an event
the operation is tried again and must tell "event" from "timeout".

### Timers — `timer.cc`, `timer.h`, `timer_escapes.cc`

State: an array of pointers to timers sorted by expiry.  Operations: create,
delete, delete all timers of a thread that exits, `timer_ready`,
`make_timer_goal`.  What is hard: one loop clears, inserts and compresses the
same array.  Correct means: a timer is never early, never lost, and a due one is
delivered.

### Signals — `signals.h`, `signal.cc`, `interrupt*.cc`, `qem.cc`

State: a flag and a count per signal, `in_sigint`.  Operations: the handler of
the operating system's signal, the checks at calls and in `Sleep`,
`HandleSignal`.  Correct means: a signal that arrived is handled, once, and its
handler runs until it is done.

### Dynamic predicates — `dynamic_code.cc`, `dyn_code.cc`, `dynamic_hash_table.cc`

State: per predicate the chain of all clauses, the chain of those with a variable
in the index argument, a chain for every other index argument, a time stamp, a
count of references and a flag that something was retracted; per clause the
stamps of creation and deletion.  Operations: assert, retract, call, backtracking
to the next clause, first and next clause for `clause/2` and `retract/1`, release
and collection.  Interaction: references are kept on the trail of each thread,
so it is cuts, backtracking and exits of threads that release them.
What is hard: uses by several threads interleave between any two clauses, a call
goes on with the clauses of *its* time, and clauses are freed as soon as nobody
is counted any more.
Correct means: the logical update view; no clause freed while in use; none left
when nobody uses the predicate; the index agrees with the list of all clauses.

### Messages between threads — `messages.h`, `ipc_escapes.cc`

State: a queue of messages per thread, each with a count of references and a
flag "to delete", and iterators held in the heap of a thread.  Operations: send,
first and next message with their retries after a block, commit, reset, discard
at exit.  What is hard: an iterator outlives a block, so messages are inserted and
committed under it.

### Sockets and the Pedro connection — `tcp*.cc`, `pedro_*.cc`, `pipe.cc`, `process.cc`

Channels that append to message queues and that `Sleep` polls.

### The abstract machine — `execute.cc`, `environment.h`, `choice.h`, `cut.cc`

State: program counter, continuation, X registers, stacks of environments and
choice points, cut point, `restart_status`.  Operations: the put, get, unify and
set instructions, calls, choice and switch instructions, cuts, escapes; and the
checks for signals, the end of the slice and a full heap at every call.
What is hard: environments are trimmed and reused under choice points; a call
that was interrupted is executed again, but not all of it; other threads set the
program counter.  Correct means: it finds the answers of resolution, in order,
however it is interrupted, and stops when there are no more.

### Heap, trails, choice points — `heap*.cc`, `trail.*`, `choice.*`, `bind.*`

State per thread: the terms, the trails, the tops that choice points saved.
Correct means: backtracking restores what held at the choice point; tidying the
trail drops only entries nobody will need; no term contains itself.

### Garbage collector — `gc.cc`, `gc_escapes.cc`

Marking from registers, environments, choice points and trail, and sliding, at
any call.  Correct means: no thread can tell that it happened.

### Unification, delayed problems, substitutions — `unify.cc`, `delay*.cc`, `freeness.cc`, `substitution.cc`, `occurs_check.cc`, …

Sequential algorithms on terms with binders, whose answers are partly put off:
a problem that cannot be decided is delayed on a variable and woken when that is
bound.  Correct means: what is left after a constraint has exactly the
solutions that satisfy it.

### The compiler of clauses — `compile.cc`, `unravel.cc`, `regalloc.cc`, `compiler_support.cc`

A clause is taken apart into moves between variables, variables get registers
by their lifetimes and preferences, moves are left out when a register is
believed to have the value.  Correct means: the code does what the clause says,
and leaves an environment that can be collected.

### Hash table of terms — `user_hash_table*.cc`

Terms that outlive backtracking, in a heap of their own, replaced in place when they fit.

### Tables, atoms, streams, arithmetic, tools

Atom, string, name, code and record tables; reading, writing and encoding of
terms; arithmetic and comparison; the batch programs `qa`, `ql`, `qod`, `qdeal`
(assembler, linker, dumper, loader); the library and the first passes of the
compiler in Prolog (`src/prolog/`); graphical interfaces, installers, the manual.

`PROJECT.json` lists each component with its files, the modules that model it
and what is left out, and every hazard with its line and the properties that
would notice it.

## 2. The modules

| module | what it is |
|---|---|
| `Scheduler` | the scheduler with the thread table, the operations of threads, blocking, timer goals and SIGINT |
| `MCScheduler` | symmetry for TLC |
| `SchedulerProofs` | theorems about `Scheduler` |
| `TimerStack` | the sorted array of timers |
| `TimerService` | what timers promise: a set of armed timers |
| `MCTimerStack` | timers for TLC |
| `TimerStackProofs` | theorems about `TimerStack` |
| `Selection` | the loops that go down a chain or an array once and leave elements out |
| `SelectionProofs` | lemmas about them |
| `DynamicPredicate` | clauses, chains, stamps, uses, count of references, collection |
| `LogicalUpdateView` | what a dynamic predicate promises to its users |
| `MCDynamicPredicate` | symmetry for TLC |
| `DynamicPredicateProofs` | theorems about `DynamicPredicate` |
| `MessageQueue` | the message queues of threads and their receives |
| `Mailbox` | what a message queue promises |
| `MessageQueueProofs` | theorems about `MessageQueue` |
| `WaitPredicates` | waiting for changes of the database |
| `WaitPredicatesProofs` | theorems about `WaitPredicates` |
| `Store` | heap and trails of a thread, binding, unification |
| `Collector` | the garbage collector |
| `Machine` | the instructions, environments, choice points, calls and their interruptions |
| `Resolution` | the answers of a goal by resolution, the reference for `Machine` |
| `MCMachine` | programs for `Machine` |
| `MCRuntime` | `Machine`, `MessageQueue` and `WaitPredicates` in one run |
| `HashTable` | the open hash table |
| `HashTableProofs` | theorems about it, for all tables |
| `ThreadTable` | slots, live threads and names |
| `NameDirectory` | what the names of threads promise |
| `UserHash` | the hash table of terms and its heap |
| `TableProofs` | theorems about `ThreadTable` and `UserHash` |
| `Terms` | terms with object variables, quantifiers and substitutions, and what they mean |
| `Freeness` | the freeness test, its delayed problems, simplification |
| `FreenessCheck` | what `Freeness` must agree with |
| `Unravel`, `Registers`, `Peephole` | the phases of the compiler of clauses |
| `CompilerCheck` | what a clause means and what its code does |
| `MCData` | `ThreadTable`, `UserHash`, `FreenessCheck` and `CompilerCheck` in one run |

`TimerStack` implements `TimerService` under the mapping `armed <- ` the timers
in the array (property `RefinesService`).  `DynamicPredicate` implements
`LogicalUpdateView` under the mapping `db <-` the clauses alive now, `given <-`
the clause a use that is counted has, `rest <-` the clauses of its chain alive at its time behind
where it stands (property `RefinesView`).  `MessageQueue` implements `Mailbox` (property
`MailboxSpec`) under the mapping `box <-` the messages not committed to, and
`ThreadTable` implements `NameDirectory` (property `NamesAreDirectory`) under
the mapping of a hash table to its pairs.  `Scheduler` meets the timers in one
flag, `timer` ("`timer_ready` says yes"), which may become true at any moment;
`TimerStack` in turn has `run_timer_goal` as the scheduler's poll.

Every definition that models code is named after it where TLA+ allows, and
`PROJECT.json` `map` gives the lines.  Definitions with a suffix
(`Erase_next`, `MayCollect_before`, …), each under a comment that starts with "A bug",
are not part of the system: they are mistakes that the definition after them
avoids, kept to show that the properties notice them.

### Scheduler

Everything runs in one process, so a state is a place in the scheduler's code
together with the data.  `pc` is that place; `ret` is where the timer goal, the
sleep or the handler in progress returns to:

| `pc` | code |
|---|---|
| `round`, `walk` | the head of the loop of `Schedule`, before and after its poll of the timers |
| `visit` | the head of the walk: exited, blocked, or to be executed |
| `exec` | inside `Thread::Execute` of the thread at `iter` |
| `switch` | after it dropped out with `RV_SIGNAL`, in `HandleSignal` |
| `timers`, `advance` | the second poll of the timers; the advance of the iterator |
| `sleep` | in `Sleep` (at the end of a walk, or in an atomic goal) |
| `tgoal`, `tgoaldone` | in `run_timer_goal`, executing and after |
| `handler`, `hsleep`, `handlerdone` | in `HandleSignal`: executing, sleeping for it, after |
| `subvisit`, `subexec` | the same as visit and exec in the nested `run_scheduler` |
| `halted`, `fatal` | the process stopped; `Fatal` |
| `erased` | the node at the iterator of the walk was erased by someone else; the code goes on with `iter++` |
| `undefined` | the code followed another iterator, or a pointer, to something deleted |

Prolog code is any sequence of the operations `fork`, `exit`, `kill` (exit of
another thread), `throw`, `wait`, `yield`, `atomic`, `schedule`, `halt`; the
constants `ThreadOps`, `TimerOps` and `HandlerOps` say which of them threads,
timer goals and handlers use, so that a run and a theorem can say for which
programs it holds.  `schedule_threads_now` can be called by all three, and fails
inside a nested scheduler (`running_sub_scheduler`); `saved` is what is put back after a timer goal
or a nested scheduler, with the place of whoever called it.  An operation that blocks is modelled with its retry:
`waiting` is the operation a thread is in the middle of, `block_status` what
`unblock` said, and `MayBlock` is what each kind of operation looks at when it is
tried again.  What is waited for comes at any moment (`InterQuantum` wakes any
subset).  An object is identified by its address `ptr`, because a thread can have
two of the same kind.  A thread's address becomes free when it is deleted and may be that of
the next thread, as memory allocation does; `UnblockFreed` is the step that
follows an object to a deleted thread.

### TimerStack

`timers` is the array below `tos`; ids stand for pointers, `timer` is the memory
they point to, `freed` what was deleted.  The shifts and compressions are
modelled with the entries they leave behind, since that is where timers get lost:
`delete_timer` copies `timers[i+1]` from the wrong index, `delete_all_timers`
leaves what the move left, `make_timer_goal` inserts repeating timers while it
clears entries and compresses from above the highest due entry.  `Compress` and the
move of `delete_all_timers` are `Keep` of `Selection`, the loop that `DynamicPredicate`
has as `gcChain`.  A NULL or freed
pointer that is followed, or an overrun of the array, makes `status` "undefined".

### DynamicPredicate

A *use* is a call of the predicate, or a `clause/2` or `retract/1`, of some
thread, from its first clause until its trail entry is gone.  `cur` is the clause it executes
or looks at, `next` the one in its choice point, `held` whether its
reference is on the trail, `chain` the chain it follows, `time` the stamp at
which it began.  Which way a use ends (backtracking, cut, exception, exit of the
thread) makes no difference to the predicate and is one action, `End`; a cut *by
the clause itself* is another, `OwnCut`, since the clause goes on being executed.
The open addressing of the hash table is abstracted to the set `entries`;
`key` is the index argument of a clause, `"var"` if it is a variable.

### MessageQueue

A *use* is a receive: its iterator `pos`, the pattern, the messages it has
`seen`, and `st`, where it is between its escapes.  Receives nest, as what is
called after `ipc_peek` may receive itself, and a timer goal may receive on the
initial thread in between (`goal`).  `size` is what a blocked receive remembers
of the queue to tell that a message came.  A message is a number in the order of arrival;
`kind` is what patterns tell apart in it.

### WaitPredicates

`object` is the blocking object with the stamps it saw; `since` is a history of
what was current when the goal was last tried, which the properties compare it with.

### Machine, Store, Collector

A store is a heap of objects in the order of their addresses, a binding trail and
the tags that ask for an occurs check; a word is a constant, a reference, or a
slot of a structure that is being built.  An instruction is a tuple of its name and
operands, code is a function from labels, and both opcodes of a pair (X and Y
register) are one action.  The areas are moved by `Collected`, which may
happen at any call.  `was` in a choice point is a history: the terms that
the arguments and Y registers had when it was made.

### Freeness

`known` is what is known of the object variables and variables: bindings,
distinctness, delayed problems.  A *world* assigns a name to each object
variable and a closed term to each variable; `Value` is what a term means in it.
The algorithms are operators on `known`, and the properties compare the worlds before with those after.

### The compiler

The phases are operators from a clause to a list of instructions.  `Meaning`
is the trace of goals, cuts and failures of the clause with some arguments,
`Run` that of the code: registers hold garbage at first and after each call,
where only the environment survives.

## 3. What TLC checks

| run | question | result |
|---|---|---|
| `sched_goals` | threads that fork, exit, kill, throw, wait, yield and use atomic goals, with timer goals that fork and throw and a handler that throws and halts at any moment | `TypeOK`, `IteratorValid`, `BlockedConsistent`, `TableConsistent`, `NoSleepWhileRunnable`, `AtomicGoal`, `NothingFreedUsed` hold |
| `sched_now` | nested schedulers, called by threads, timer goals and a handler that may also block, with threads that fork, exit and block in them | `IteratorValid` holds |
| `sched_live` | fairness | `WalkEnds`, `UnblockedRuns` hold |
| `timers_all` | all operations on the array | `ExitRemovesTimers` holds |
| `timers_repeat` | one-time and repeating timers, no `delete_timer` | `StackRight`, `NeverEarly` hold |
| `timers_oneshot` | one-time timers, no `delete_timer` | `RefinesService`, `DueIsDelivered` hold |
| `dyn_calls` | calls, `clause/2`, one `retract/1`, clauses that may cut | `TypeOK`, `ReferencesValid`, `IndexConsistent`, `NoGarbage`, `RefinesView` hold |
| `runtime` | the machine; receives; waits for changes | `HeapSound`, `ChoicesRestorable`, `AnswersRight`, `OnceEach`, `Terminates`; `ReceivesSound`, `MailboxSpec`, `Served`; `WaitSound`, `TriesRight`, `ChangeTried` hold |
| `data` | the thread table; the hash table of terms; freeness; the compiler | `TableRight`, `NamesAreDirectory`; `HashRight`; `FreenessRight`; `CompiledRight` hold |
| `dyn_cut` | a clause that has been retracted and cuts | `RunningCodeValid` violated |
| `throw_restart` | a throw into a thread that was stopped in an escape | `OnceEach` violated |
| `stale_move` | a list cell put into a register that was copied | `CodeRight` violated |

The properties:

* `BlockedConsistent`: a blocking object belongs to a blocked thread that exists,
  and a blocked thread has exactly one.
* `TableConsistent`: slots, counter, threads and run queue name the same threads.
* `IteratorValid`: the iterator of the walk is at a node of the run queue wherever the code
  is about to use it, nobody but the walk itself erases that node, and the initial thread is never removed.
  It fails in the state in which the node is erased (`pc = "erased"`), not only when the iterator is
  advanced.  It speaks of the iterator of `Schedule`.  That of `run_scheduler` is not in it: where the nested loop
  erases from the wrong list (`scheduler.cc:1000`) `pc` becomes "undefined", which
  `sched_now` reaches and `NothingFreedUsed` excludes.
* `NothingFreedUsed`: neither happens, nor is a blocking object asked for the status of a
  thread that is deleted.
* `NoSleepWhileRunnable`: the walk ends in `select` only if all are blocked.
* `AtomicGoal`: while a thread is in an atomic goal nobody else of the run queue
  executes, through blocks, ends of slices, timer goals and signals.
* `WalkEnds`: a forked thread goes in front of its parent, so a walk cannot be
  kept going by forks.  `UnblockedRuns`: a woken thread comes to its turn.
* `StackRight`, `NeverEarly`, `ExitRemovesTimers`, `DueIsDelivered`,
  `RefinesService`: see the inventory.
* `ReferencesValid`: no clause is freed while a use that is counted has it in its
  registers or choice point.  `RunningCodeValid`: nor while it is executed after its own cut.
  `NoGarbage`: none is left retracted when nobody uses the predicate.
  `IndexConsistent`: each chain of the index is the list of all clauses filtered,
  in order.  `RefinesView`: the logical update view.
* `HeapSound`: environments that can be come back to exist below the protected top, variables in structures
  are marked for the occurs check, no term contains itself, what is on the trail
  survives a collection.  `ChoicesRestorable`: what a choice point would restore
  now are the terms it was made with.  `AnswersRight`: the answers of
  resolution, in order.  `OnceEach`: a goal is entered with the right
  continuation and cut point however often its call was interrupted.
  `Terminates`: the programs stop.
* `ReceivesSound`: an iterator that will be followed is at a message that exists,
  none was skipped, a blocked receive can tell that there is a new one, and none
  is taken twice.  `Served`: a receive comes to a message that is there for it.
* `WaitSound`: a change that the goal has not seen is visible in the stamps.
  `TriesRight`: a wait fails only in time, and the goal is told of every
  change.  `ChangeTried`: an unseen change has the goal tried again.
* `TableRight`: the table of names is well formed, the name of a running thread
  leads to it, a name leads to a thread that has had it, and the count of live
  threads is that of taken slots.
* `HashRight`: a lookup gives what was stored last, intact; the search goes
  through each key once.
* `FreenessRight`: "no" is right in all worlds; the worlds left after
  `not_free_in` are those in which the variable is not free; simplification
  keeps the value of a term in each.
* `CompiledRight`: code and clause have the same trace; at each call every Y
  register that stays has a value.

Two runs are sums: `runtime` and `data` check several modules that share
no state, and the variable `focus` says which of them a behaviour is of.  The
product of the modules would only repeat each for every state of the others.

A constant of a run that is defined in an MC module has two names there
(`AllClauses`, and `MCClauses` that is put for the constant), since TLC works out a definition
once, but one that stands for a constant at each use.

**Bounds.**  Every bound is a constant.

* `Threads`, `TableSize`: 3 addresses.  Three threads give a walk with a
  thread before and one after the iterator.  A full table (no fork, `Fatal` in
  `HandleSignal`) is reached in `sched_goals`.  The real table has 100 slots by default.
* `MaxObjects` is the number of threads in all runs but `sched_now`, which has 1: a thread that blocks there
  only lets the nested round or the walk pass over it.  The
  real list has no bound.  A thread blocks only if there is room, which matters
  only for handlers that leave objects behind.
* `MaxSignals`: 1.
* the list of `schedule_threads_now` has at most `TableSize - 1` threads (itself
  excluded, it may repeat one).
* `MaxTimers` 3 or 4, `MaxTime` 2 or 3, two delays: two repeating timers due together
  with a third between them.  `TIMER_NUM` is 20, or 7 where timers cannot
  overrun it; the real one is 100.
* `MaxStamp` 5 with three clauses: a clause can be asserted, retracted, collected
  and its address used again while another use goes on.  One index argument and
  the variable give all the chains there are; more only add independent chains.
* `MaxMessages` 3, two nested receives on the initial thread and a timer goal
  that receives: a message can be committed to under an iterator while another
  arrives and a third is looked at.  `MaxRefs` 1 cuts off what leaked references
  would count up.
* `MaxChanges` 2 with lists of 2 (the same predicate listed in two ways): a change before, between and after two looks.
* `MaxCollections`, `MaxInterruptions` 3 and `MaxThrows` 1: a collection or an interruption at any
  call, thrice in a goal.  The programs of `MCMachine` use each instruction.
* `ArraySize` 3 and `MaxNumber` 3 give names that are made again after their
  thread has gone.  `TableSize` and `HashSize` 2 give tables of four places, that of a new table with the
  least size for which no insertion can abort (section 5); with names that are made again, and with four keys and
  four writes, they are made anew at the same size and doubled, and the hashes of `MCData` collide.
* `HeapSize` 4, `MaxWrites` 4: the heap of terms is copied twice.
* three object variables and a variable, all their equalities and
  distinctness, six sets of delayed problems, substitutions of up to two blocks of up to two entries.
* `NumberXRegisters` 5 instead of 100, so that the compiler runs out of them.
  Clauses with two head arguments and one or two goals over three variables.

Symmetry is used in safety runs only, over thread addresses other than the initial thread's, or over
clauses and over uses that are alike.  `CHECK_DEADLOCK FALSE` is set where the system stops:
a process that has halted, failed or reached an undefined state, a
blocked program for which no event comes, a bounded clock or stamp that has run out, a
term that has been tested.  `runtime` checks for deadlock: a machine always has
an instruction to execute until it has exited.

**Fairness.**  `FairSpec` of `Scheduler` assumes: the scheduler goes on (`Walk`);
the slice ends (`SliceEnds`: a virtual timer of the operating system); a thread
comes to its next call, where signals and the end of the slice are looked at
(`SignalCheck`, `Timeslice`: each call instruction does); and a restarted thread
comes out of its operation or blocks again (`WaitDone` or `Wait`).  Nothing is assumed
about events, about what threads wait for, or that any thread calls anything.
An atomic goal may last for ever, so `sched_live` is without them; timer goals and
handlers too may last for ever.  `TimerStack!Spec` assumes that the poll happens
and that the clock goes on; both are in the loop of the scheduler.
The machine of a thread has the fairness `Steps`: weak fairness of its
instructions, written without `ENABLED` (it always has one to execute, so if it
runs for ever it executes infinitely many), and `WF(Resume)`, the scheduler.
`MessageFairness`: timer goals come to an end, a thread that can go on with a
receive does (strongly, since timer goals on the initial thread come in between again and
again), and so does the walk over the blocked ones.  `WaitFairness`: the same for waits.

**Seen by changing constants** (not kept as runs, each within seconds):

* a handler that blocks and is then done leaves its object in `blocked_queue`:
  `BlockedConsistent` fails with `"wait"` in `HandlerOps`, which `sched_now` has;
* `"kill"` in `TimerOps` or in `HandlerOps`, or together with `"schedule"` in `ThreadOps`, breaks
  `IteratorValid`: the thread at the iterator is exited by someone else while the walk stands at its node.
  With `"kill"` in `TimerOps` and `HandlerOps` the other properties of `sched_goals`, but `NothingFreedUsed`, still hold:
  `BlockedConsistent` and `TableConsistent` are claimed up to that state;
* `"schedule"` in `ThreadOps` breaks `NothingFreedUsed`: a list that names a thread twice, which exits at its first turn.
  `"schedule"` in `TimerOps` breaks `BlockedConsistent`: the nested scheduler takes the blocking object of the
  initial thread, and the timer goal then puts back that it is blocked;
* `"atomic"` in `HandlerOps` breaks `AtomicGoal`: there is one flag for the
  atomic goals of all threads; and so does `"atomic"` with `"schedule"` in `ThreadOps`: an atomic goal
  that calls `schedule_threads_now` lets other threads run;
* `"fork"` in `HandlerOps` breaks `TableConsistent`: the handler is in no run
  queue, so `insertThread` (whose assertion is compiled out) inserts nothing;
* two uses in `Retractors` break `RefinesView`: the second `retract/1` of a clause
  moves its time of deletion;
* `DeleteCallers # {}` breaks `NoTimerLost`, and with `MaxTimers` 5 also `StackSorted` and
  `NeverEarly`: `delete_timer` leaves a NULL, the exit of a thread then leaves a timer
  twice, and when such a timer fires and repeats it is out of order;
* repeating timers of different delays break `NoTimerLost`: the compress of
  `make_timer_goal` starts above the highest due entry, and a timer put back below it is dropped.
  So does a repeating timer below a one-time timer that is due at the same time, even if all have one
  delay: the entry of the one-time timer is cleared first, and the repeating one is then put back next to
  its old entry, below the start of the compress.  Only repeating timers, all of one delay, do not;
* `"wait"` in `TimerOps` breaks `NoSleepWhileRunnable`; a second signal
  (`MaxSignals` 2) breaks `SignalKept`, a slice that has run out `HandlerRunsToCompletion`;
* `Renamers` with a thread that changes its name, and `MayFreeze = TRUE`, break `TableRight`;
* `GoalModes` with `"recv"` breaks `ReceivesSound`: a message is taken twice;
* `FreenessCheck!TestYes` and `WaitPredicates!OnlyChangedReported`, what comments and the manual say, do not hold.

## 4. What is proved

TLAPS checks, for all values of the constants that satisfy the named
assumptions of the modules (`SchedulerAssumption`, `DynamicAssumption`, `TimerAssumption` and
so on, none of which restricts what programs do: types of the constants, the initial thread is one, NULL is no thread, clause or
timer, there are finitely many uses, receivers and messages, hash tables are created with a size of at least 2):

| theorem | statement |
|---|---|
| `SchedulerProofs!TypeCorrect` | `Spec => []TypeOK` |
| `SchedulerProofs!IteratorSafe` | `Spec => []IteratorValid`, if `KillsApart` |
| `SchedulerProofs!FreedNeverUsed` | `Spec => []NothingFreedUsed`, if `PlainGoals`, `KillsApart` and `NeverNested` |
| `SchedulerProofs!AtomicSafe` | `Spec => []AtomicGoal`, if `OnlyThreadsAreAtomic` |
| `SchedulerProofs!TableAgrees` | `Spec => []TableConsistent`, if `PlainGoals` |
| `SchedulerProofs!BlockedAgrees` | `Spec => []BlockedConsistent`, if `PlainGoals` |
| `SchedulerProofs!SleepsOnlyWhenBlocked` | `Spec => []NoSleepWhileRunnable`, if `PlainGoals` |
| `DynamicPredicateProofs!TypeCorrect` | `Spec => []TypeOK` |
| `DynamicPredicateProofs!ReferencesSafe` | `Spec => []ReferencesValid` |
| `DynamicPredicateProofs!RunningCodeSafe` | `Spec => []RunningCodeValid` if no clause cuts while it is executed |
| `DynamicPredicateProofs!GarbageFree` | `Spec => []NoGarbage` |
| `DynamicPredicateProofs!IndexRight` | `Spec => []IndexConsistent` |
| `DynamicPredicateProofs!ViewImplemented` | `Spec => RefinesView`, if `OneRetractor` |
| `MessageQueueProofs!ReceivesAreSound` | `MessageSpec => []ReceivesSound`, if `GoalsOnlyPeek` |
| `MessageQueueProofs!QueuesAreMailboxes` | `MessageSpec => MailboxSpec`, if `GoalsOnlyPeek` |
| `WaitPredicatesProofs!NoChangeIsMissed` | `WaitSpec => []WaitSound` |
| `WaitPredicatesProofs!TriesAreRight` | `WaitSpec => TriesRight` |
| `TimerStackProofs!TypeCorrect` | `Spec => []TypeOK` |
| `TimerStackProofs!ExitRight` | `Spec => ExitRemovesTimers` |
| `TimerStackProofs!StackOrdered` | `Spec => []StackRight`, if `NoDeletes` |
| `TimerStackProofs!GoalsNotEarly` | `Spec => NeverEarly`, if `NoDeletes` |
| `TimerStackProofs!ServiceImplemented` | `Spec => RefinesService`, if `Regular` |
| `TimerStackProofs!NothingLost` | `Spec => NoTimerLost`, if `Regular` |
| `HashTableProofs!ProbesReachAll` | in a table whose size is a power of 2 the probes for any hash reach every place |
| `HashTableProofs!InsertionRight` | inserting a new key in a well-formed table gives one that has what it had and the new entry, through both resizings |
| `TableProofs!TableIsAlwaysRight` | `TableSpec => []TableRight`, if `NamesAreKept` |
| `TableProofs!NamesFormDirectory` | `TableSpec => NamesAreDirectory`, if `NamesAreKept` |
| `TableProofs!TermsAreAlwaysRight` | `UserSpec => []HashRight` |

The hypotheses say for which programs a theorem holds.  Without each of them TLC finds
one of the properties violated (section 3), and each names a flaw of the code (section 5):

* `KillsApart`: timer goals and handlers exit no other thread, and if `schedule_threads_now` is used at all,
  threads do not either.  So nested schedulers, wherever they are called, are in `IteratorSafe` as long as threads only exit
  themselves;
* `OnlyThreadsAreAtomic`: timer goals and handlers use no atomic goals, and nobody calls `schedule_threads_now`;
* `PlainGoals`: timer goals neither wait nor call `schedule_threads_now`, handlers neither wait nor fork.  Nested
  schedulers that threads and handlers call are allowed;
* `NeverNested`: nobody calls `schedule_threads_now`;
* `OneRetractor`: only one use is a `retract/1`, as two that overlap may retract the same clause;
* `GoalsOnlyPeek`: timer goals look at messages but take none;
* `NoDeletes`: `delete_timer` is not called;
* `Regular`: `NoDeletes`, and the timers are all one-time ones, or all repeat with one delay;
* `NamesAreKept`: no thread but the initial one, which never exits, gives itself another name, and names and handles are
  never frozen variables.

`TypeCorrect` has no hypothesis.  `GoalsOnlyPeek`, `NoDeletes` and `NamesAreKept` are what the runs have too;
`sched_goals` meets all five hypotheses about `Scheduler`, and `sched_now` meets `KillsApart`.  `timers_oneshot`
has the first case of `Regular`.

*Scheduler.*  `IteratorValid` is not inductive: to know that the iterator is at a
node after a timer goal, a sleep or a handler one must know where each of them
returns to, that a handler exists while it runs, that the list of the nested
scheduler is not empty while one of it executes, and that a thread that has just
exited is not the initial one.  With a nested scheduler, which may run inside a thread, a timer goal or a
handler, all this is about `place` and `back`, the place of the caller.  That is `Control`, and with
`Iterating`, what `IteratorValid` says as long as the node is not erased,
`IInv = TypeOK /\ Iterating /\ Control` is inductive for all programs.  `Unerased` adds, under `KillsApart`, that
the node is not: whoever exits another thread is the thread at the iterator, and not that thread itself.  The work is in lemmas
about the list: the first node of a thread exists (`NodeProperty`), erasing it
keeps all other threads and that of the next node (`EraseProperty`), and inserting
keeps every thread.  One lemma per action follows.

*Atomic goals.*  On top of `IInv`, `Atomic` says that the thread with `forbid` is the
one at the iterator, that time slicing is off then, and that none has it after a thread
exited.  Both restrictions are needed (section 3).

*Tables and queues.*  The invariant is `Agreeing`, on top of `IInv`.  `TableInv`: slots that
are taken are counted and hold different threads.  `QueueInv`: each thread has one
node, except that the address of a thread that has just exited may have a second one, which
a timer goal gave to a new thread before the iterator went on; with "one node per thread" the fork
in a timer goal cannot be proved.
`BlockInv`: the status of a thread and its object agree.  `RunInv`: whoever
executes, or waits for a nested scheduler to return, is not blocked.  All of it is claimed only until
the scheduler stops (`Agreement`): after the code has followed a pointer to something deleted nothing is known.
`FreedNeverUsed` puts them together: `BlockInv` and `QueueInv` leave no object of a deleted thread, `Unerased` keeps the iterator's
node, and what is left is the nested scheduler's own erase, which only `NeverNested` excludes.
`NoSleepWhileRunnable` is then a matter of counting: the code compares the lengths of two queues, and objects and
blocked nodes are in bijection, so equal lengths mean that all nodes are blocked.

*Dynamic predicates.*  The count of references is a cardinality: `Counted` says
it is the number of uses that hold one, `Contained` that clauses of the index are
clauses of the predicate, `UsesOK` that what a use holds is in its chain.  With
`TypeOK` they are inductive, and `TypeOK` needs them: the count is a natural
number because a use that releases it was counted.  When the count is one at a
release the releasing use is the only one, so nobody is left to see what the
collection frees.  `GarbageFree` adds that a dirty predicate has
a user and that no time of deletion lies in the future.  Only
`RunningCodeSafe` needs that clauses do not cut.

*The index.*  `IndexConsistent` does not say that an argument without an entry is that of
no clause, on which `copyVarClauses` rests; `IndexInv` does.  The rest is algebra of
`Keep`: it distributes over concatenation, two of it are one, and it does not change what it
keeps all of (`SelectionProofs`).  These are inductions over sequences, which the provers cannot do by an induction
theorem: a set of sequences that contains the empty one and with each sequence those that are longer by one
contains all (`AllSequences`, from a least counterexample).

*The view.*  `ViewInv` adds that no clause is twice in the chain and that nothing
was created, and no use began, after the present stamp; then what is alive at the time of
a use only changes by its own steps: an assert makes a clause that is too young, a retract
leaves one that is alive for all who began before.  One lemma for each action of
`LogicalUpdateView`; a collection is a stutter, since it takes away what nobody can see.

*Messages.*  A receive that blocks keeps its place as a message, or as the size of the
queue, and is put back by it.  `Held` counts the references: while a message is not committed to, each receive at it holds one, so it
is not erased below an iterator.  `Examined` says what the remembered size stands for:
a set of that many messages, all looked at, with only later ones behind.  `GoalInv` is what interrupts
them: timer goals run on top of the receives of the initial thread, and only
peek.  `Receiving`, the conjunction for all threads, is inductive.  For the refinement, the
box of a thread is what its queue holds and nothing committed to; a commit takes the oldest of its kind because
none was skipped.

*Waits.*  The two copies of stamps in a blocking object are neither the stamps of the last try nor those
of now: `updateStamps` brings a part of them up to date.  What holds after any
number of tries is that the stamp `is_unblocked` compares with is not later than that of the last
try (`SeesChanges`), and that a copied stamp which is up to date hides no change in the way the
predicate was listed (`TellsChanges`).

*Timers.*  `TypeOK` is inductive by itself, and `ExitRight` follows from it, for all programs:
the array that an exit leaves may be out of order and have timers twice, but has none of the
thread's.  `StackSorted` is not inductive: an exit compresses an array correctly only if no NULL is
in it (`Full`), and a timer that is there twice and repeats is out of order (`Once`).  Both fail after
`delete_timer`.  The firing loop has an invariant of its own, `LoopRight`, at each entry on its way down: the array
is in order, entries that were not reached are as they were, those above are not due before now, and
what has fired and repeats is a period away.  `LoopTyped` and `LoopSorted` carry it from the highest due
entry to the first.  The refinement needs in addition what is above the place where the compress
starts (`LoopKept`) and that no timer is further away than its delay (`Near`): with one
delay every repeating timer is then put back on top.  Why that fails with two delays, or with one-time timers among
them, was seen when this step could not be proved, and TLC shows the timers lost.

*The hash table.*  Everything rests on the probes: the k-th is `k * (k + 1) / 2` places from the first, and no two of
the first `size` fall together, as the difference is a product of two numbers of which one is odd, and what divides
such a product is, for a power of 2, a divisor of the other (`OddFactor`).  An injection of a finite set into
itself reaches everything (`ProbesReachAll`): a search ends at -1 only if no place will do.
`WellFormed` is the invariant: each live entry is reached over full places only, and keys differ.  A mark for a removed entry
counts as full, so a removal keeps it; an insertion fills the first place that is not live, and all paths
through it stay paths.  `Counted` says that there is room: no more live entries than `used`, and `used` at most
half the size and one.  `used` is not the number of full places: it goes down with a removal of a term and the mark
stays, so marks can fill the table.  Then it is `NotLive` that has to be not empty, which is what `insert`, though not the search, asks
for.  `Resizing` is the invariant of the loop that copies a table.  It is made anew at most twice, once to lose its marks
and once to grow.

*The thread table.*  `TableInv` adds to it `NamesAgree`: each thread has the entry of its name, each entry belongs to a
thread that has had it, and only the initial thread has had more than one.  So an exit removes all entries of the
thread, and an address that is given again starts with none.  The name that is made for a thread is a new one
because finitely many are taken.  `NameDirectory` is implemented since an insertion adds one pair and a removal takes one.

*The hash table of terms.*  `HashInv`: the place noted for a term is on the heap and is large enough (`HasTerm`), the
places of two entries have nothing in common (`Apart`), and each entry has the term stored last (`LastStored`).  A term
that is replaced where it is writes only on a place of its own, and every other term is written behind the
heap.  A collection copies the values in the order of the table; `CollectingExtends` says that what was copied stays
as it is while the rest follows.  All of this holds until a key that is a number is left on the old heap, from when on
`undefined` is true and nothing is claimed.

Only model-checked:

* liveness (`WalkEnds`, `UnblockedRuns`, `DueIsDelivered`, `Served`, `Terminates`, `ChangeTried`), which is
  out of the prover's reach together with ENABLED;
* `HeapSound`, `ChoicesRestorable`, `AnswersRight`, `OnceEach`, `FreenessRight`, `CompiledRight`: terms, instructions and clauses are
  recursive data, and the operators on them RECURSIVE, which the prover does not take.

## 5. Disagreements found

Three are runs that expect the violation, so that it will be noticed when the code
changes.

* **A clause that is freed while it runs** (`dyn_cut`, `trail.h:260`).  The cut in
  a clause tidies the trail, which releases the predicate; if the clause has been
  retracted before, its code block is deleted under the program counter.
* **A throw that starts in the middle** (`throw_restart`, `thread_escapes.cc:1067`).  `thread_throw` sets the
  program counter of a thread that was stopped in an escape, but not its
  `restart_status`: the first call of `throw/1` is taken for a retry and keeps
  the continuation and cut point of before.
* **A move that is left out** (`stale_move`, `compiler_support.cc:330`).
  `make_dead` forgets what a register is a copy of, but not which registers are
  copies of it: `p(C,B) :- A=[B|D], q(A,A)` calls `q` with a first argument that was overwritten.

The others come up with other constants or inputs, which the runs leave out; each was seen with TLC or follows from the lines named.

Scheduler, timers and tables:

* a timer goal or a signal handler that exits the thread at which the walk stands, or a thread run by
  `schedule_threads_now` that exits the one that called it, erases the node of the walk's iterator
  (`deleteThread`, `scheduler.cc:878`), which `Schedule` advances afterwards (`scheduler.cc:654`);
* `run_scheduler` erases an exited thread from the run queue through an iterator of its own list (`scheduler.cc:1000`): it
  gets there if its list names a thread twice, which exits, or at a second call in the same slice;
* a timer goal that calls `schedule_threads_now` while the initial thread is blocked can lose its wake-up: the nested
  loop deletes the blocking object, and `run_timer_goal` puts back the status "blocked" (`scheduler.cc:159`);
* a timer goal that waits leaves its blocking object behind (`scheduler.cc:692`): the
  lengths of the queues agree while a thread can run, and the process sleeps;
* a handler is cut short at its first call if the slice that it interrupted had run
  out (`scheduler.cc:808`), and a signal that comes while a handler runs is counted and never handled (`scheduler.cc:822`);
* a repeating timer is lost if it is put back below the highest due entry (`timer.cc:160`): when delays differ,
  or when a one-time timer above it fires at the same time;
* `delete_timer` shifts from the wrong index (`timer.cc:75`), losing a timer and keeping a freed one; the
  NULL that it leaves makes the next exit of a thread leave a timer twice, after which the array need not be sorted;
* `thread_set_symbol` leaves the old name in the table (the removal is commented
  out, `thread_escapes.cc:313`), where it outlives the thread; `pedro_escapes.cc:217` asserts the contrary;
* `thread_fork` with a frozen variable as name or handle fails after the slot and the name are taken (`thread_escapes.cc:172`, `:182`);
* removing a name does not lower the count of used places: a table in which names come and go is doubled without end;
* a table that is created with size 1, as by the option `-z 1` (`qem_options.cc:151`), has two places, and the third
  insertion aborts the process with "Table cycled through" (`dynamic_hash_table.h:217`): a free place is looked for before the
  table is made larger.  Hence the assumption that sizes are at least 2.

Messages and waits:

* a receive that times out, or that only polls and fails, keeps its reference to the message it was at, and
  a cut after `ipc_peek` leaves the iterator: such messages are never erased;
* a timer goal that takes a message which the interrupted receive is about to commit to takes it a second time;
* a blocked receive is put on the message after as many as its queue had (`block.cc:118`): past the
  end if some were erased; and it misses a message if as many were erased as came;
* the goal of `thread_wait_on_goal` is tried at once although the list has a stamp of the past in other than the first place, and
  predicates that changed once are reported at each later try (the manual: "since the last time Goal was tried").

Terms and compiler:

* `freeness_test` answers "yes" for x in [x/z]y where y may be neither z nor x (`freeness.cc:1634`; the
  comment at `:1095`: "returns true if obvar is free in term");
* the test forgets an "unsure" for the binders of a quantified term (`freeness.cc:1200`), and
  `not_free_in` loses worlds for [y/z][x/z]V;
* a substitution as an argument is put into a register that is not protected (`compiler_support.cc:28`), and
  `goalSubSpread` reverses the blocks when there are two (`unravel.cc:913`);
* the collection of the hash table of terms does not copy a second key that is a number (`user_hash_table.cc:103`).

The machine's stale Y registers after backtracking are roots of a collection, and a
dynamic goal that finds no further clause removes whatever choice point is on top of its time;
neither changes an answer in the programs checked.

## 6. What is not modelled

* how long things take: the duration of sleeps, which of several streams is
  ready, the arithmetic of time values;
* suspend and resume of threads, options; signals other than SIGINT: they only
  set flags that Prolog code reads;
* the terms of timer goals and the two heaps that hold them;
* sockets, streams, Pedro;
* in `Machine`: object variables, quantified terms, substitutions, delayed goals
  and their retry, clean-up goals, undefined predicates, floating-point numbers and strings,
  the option to leave out occurs checks, patching of calls by their addresses;
* in `Freeness`: local and frozen object variables, open lists of binders,
  delayed equalities, quantified terms in the ranges of substitutions, and the
  mode in which no problems are delayed;
* in the compiler: substitutions that are arguments, and substitutions of more than one block (section 5);
* unification under binders and substitutions, the tables of atoms and code,
  the assembler, linker and dumper, and
  the Prolog library, except where it is part of a modelled operation (the
  wrappers of `thread_atomic_goal`, `thread_wait_on_goal`, timer goals and the signal handler).

`PROJECT.json` gives the reason for each component.

## 7. The plan

Done, in this order: `Scheduler` (the most entangled code), its type
and iterator theorems, `TimerStack` against `TimerService`, `DynamicPredicate`
against `LogicalUpdateView` with its proofs; then `MessageQueue` against
`Mailbox`, `WaitPredicates`, `ThreadTable` against `NameDirectory`, `UserHash`,
`Machine` with its store and collector against `Resolution`, `Freeness` against
worlds, and the compiler against the meaning of clauses;
and, with the proofs of section 4, the agreement of the scheduler's tables, `MessageQueue` and its
mailbox, `WaitPredicates`, the index and the view of `DynamicPredicate`, the
timers with their service, the hash table, the thread table with its directory and the hash table of terms.

Next:

1. unification under binders and substitutions, with the worlds of `FreenessCheck`;
2. the connection to Pedro: subscriptions, notifications and addresses;
3. suspend and resume in `Scheduler`.

For each of these a theorem would follow as for the others.  What is left without one is listed at the end of section 4;
for `Machine`, `Freeness` and the compiler it would need recursive functions over a set of terms in place of the
RECURSIVE operators, and an induction over them.  `AtomicGoal` with a nested scheduler does not hold (TLC shows it), and needs no theorem.
