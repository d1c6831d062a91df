------------------------ MODULE MCDynamicPredicate ------------------------
(***************************************************************************)
(* A dynamic predicate with a few clauses.                                 *)
(***************************************************************************)
EXTENDS DynamicPredicate, TLC

\* Addresses are alike, and so are the uses that may retract and the others.
Symm == {p @@ q @@ r : p \in Permutations(Clauses), q \in Permutations(Retractors),
                       r \in Permutations(Uses \ Retractors)}

=============================================================================
