---------------------------- MODULE MCScheduler ----------------------------
(***************************************************************************)
(* The scheduler with a few threads: the initial thread t0 and addresses   *)
(* that the other threads, among them signal handlers, may get.            *)
(***************************************************************************)
EXTENDS Scheduler, TLC

\* All addresses but the initial thread's are alike.
Symm == Permutations(Threads \ {Initial})

=============================================================================
