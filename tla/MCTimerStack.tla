--------------------------- MODULE MCTimerStack ---------------------------
(***************************************************************************)
(* TimerStack for TLC.                                                     *)
(***************************************************************************)
EXTENDS TimerStack, TLC

Symm == Permutations(Threads)
=============================================================================
