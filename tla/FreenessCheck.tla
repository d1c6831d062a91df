----------------------------- MODULE FreenessCheck -----------------------------
(***************************************************************************)
(* The freeness test, the constraint and the simplification, checked       *)
(* against what terms mean: every store of a set is met with every subject.*)
(*                                                                         *)
(* A world gives the names that object variables stand for and the values  *)
(* of variables.  What is known rules out some of the worlds; an algorithm *)
(* is right if what it answers holds in those that are left, and what it   *)
(* adds rules out the ones it should and no others.                        *)
(***************************************************************************)
EXTENDS Freeness

CONSTANTS
    ObjectVariables,
    Asked,       \* the object variable that is asked about
    Stores,      \* what may be known
    Subjects,    \* the terms with their substitutions
    AllWorlds

VARIABLES
    known,
    subject,
    met          \* has a subject been chosen?

freenessVars == <<known, subject, met>>

FreenessInit == known \in Stores /\ subject = PV(<<>>, Dollar) /\ met = FALSE

FreenessNext ==
    /\ ~met
    /\ met' = TRUE
    /\ subject' \in Subjects
    /\ UNCHANGED known

\* A problem holds in a world, and what is known does.
Solved(p, w) == ~FreeIn(p.x, p.t, w)

Possible(c, w) ==
    /\ \A x \in ObjectVariables : w.ov[x] = w.ov[c.rep[x]]
    /\ \A p \in c.distinct : \E x, y \in p : w.ov[x] # w.ov[y]
    /\ \A i \in DOMAIN c.delays : \A j \in DOMAIN c.delays[i].problems :
            LET p == c.delays[i].problems[j] IN p.frozen => Solved(p, w)

Worlds(c) == {w \in AllWorlds : Possible(c, w)}

FreeWorlds == {w \in Worlds(known) : FreeIn(Asked, AsTerm(subject), w)}

-----------------------------------------------------------------------------
(* Properties.                                                             *)

\* When freeness_test says "no" the object variable is free in the term in no
\* world: the constraint, unification and the collector of substitutions drop
\* what they think cannot apply (freeness.cc:1100).
TestNo == met /\ FreenessTest(known, Asked, subject) = "no" => FreeWorlds = {}

\* freeness.cc:1093 on freeness_test: it "returns true if object_variable is free
\* in term".
TestYes == met /\ FreenessTest(known, Asked, subject) = "yes" => FreeWorlds = Worlds(known)

\* not_free_in leaves exactly the worlds in which the object variable is not free,
\* whether it fails, succeeds at once, binds or separates object variables, or
\* delays, and whatever delayed problems it solves on the way.
Leaves(r, worlds) == worlds = IF r.ok THEN Worlds(r.c) ELSE {}
NotFreeExact == met => Leaves(NotFreeIn(known, Asked, subject), Worlds(known) \ FreeWorlds)

\* simplify_term gives a term with the same value in every world that is left.
SameValue(s, t) == \A w \in Worlds(known) : Value(s, w) = Value(t, w)
SimplifyKeeps == met => SameValue(SimplifyTerm(known, subject), AsTerm(subject))

\* The test, the constraint and the simplification agree with what terms mean.
FreenessRight == TestNo /\ NotFreeExact /\ SimplifyKeeps
=============================================================================
