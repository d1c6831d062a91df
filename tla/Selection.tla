----------------------------- MODULE Selection -----------------------------
(***************************************************************************)
(* The loops of the run-time system that go once down a chain or an array  *)
(* and leave out some of its elements: gcChain of the chains of clauses,   *)
(* the compressing loops of the timer stack.                               *)
(***************************************************************************)
EXTENDS Naturals, Sequences

\* The elements of s that are in V, in their order.
Keep(s, V) ==
    LET keep[i \in 0 .. Len(s)] ==
            IF i = 0 THEN <<>>
            ELSE IF s[i] \in V THEN Append(keep[i - 1], s[i]) ELSE keep[i - 1]
    IN  keep[Len(s)]
=============================================================================
