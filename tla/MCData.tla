-------------------------------- MODULE MCData --------------------------------
(***************************************************************************)
(* The components that keep or compute data, model-checked in one run: a   *)
(* behaviour is one of the component that has the focus.                   *)
(***************************************************************************)
EXTENDS ThreadTable, UserHash, FreenessCheck, CompilerCheck

CONSTANT Focuses        \* the components that are checked

VARIABLE focus

dataVars == <<focus, tableVars, hashVars, freenessVars, compilerVars>>

-----------------------------------------------------------------------------
(* The thread table and the hash table of terms.                           *)

NameHashes    == [name \in Names |-> 2 * name[2]]
ChosenNames   == {<<"thread", 2>>, <<"w", 0>>}
KeyHashes     == [key \in UserKeys |-> IF key = "b" THEN 2 ELSE 0]

-----------------------------------------------------------------------------
(* Three object variables, x the oldest one, and a variable; the names of  *)
(* the worlds are numbers, and every way to make some of the object        *)
(* variables equal occurs.                                                 *)

ThreeVariables == {"x", "y", "z"}
Pairs2 == {{"x", "y"}, {"x", "z"}, {"y", "z"}}

Worlds3 ==
    LET shares == {f \in [ThreeVariables -> 1 .. 3] :
                      /\ f["x"] = 1 /\ f["y"] \in 1 .. 2
                      /\ f["z"] <= (IF f["y"] = 1 THEN 2 ELSE 3)}
        values == {Constant("a"), Applied(<<Name(1), Name(3)>>)} \union {Name(n) : n \in 1 .. 4} IN
    {[names |-> 1 .. 4, ov |-> f, var |-> [v \in {"V"} |-> t]] : f \in shares, t \in values}

DelayedProblems ==
    {<<>>, <<Group("x", <<Problem("x", Sub(<<<<Range_("y", Dollar), Range_("z", Dollar)>>>>, Ov("x")))>>)>>}
        \union {<<Group("V", <<Problem(x, Var("V"))>>)>> : x \in {"x", "z"}}
        \union {<<Group("V", <<Problem("x", Sub(<<<<Range_("y", Dollar)>>>>, Var("V")))>>)>>}

AllStores ==
    {[rep |-> [x \in ThreeVariables |-> x], age |-> [x |-> 1, y |-> 2, z |-> 3],
      distinct |-> d, delays |-> ds, progress |-> FALSE] : d \in SUBSET Pairs2, ds \in DelayedProblems}

SomeBlocks ==
    {<<Range_(x, t)>> : x \in ThreeVariables, t \in {Dollar, Ov("x"), Ov("z"), Var("V")}}
TwoOfABlock ==
    {<<Range_(d[1], s), Range_(d[2], t)>> : d \in {<<"x", "y">>, <<"x", "z">>, <<"y", "z">>},
        s \in {Dollar, Ov("z"), Ov("x")}, t \in {Dollar, Ov("x"), Atom("a")}}

SomeSubstitutions ==
    {<<>>} \union {<<b>> : b \in SomeBlocks \union TwoOfABlock}
        \union {<<b, c>> : b \in {<<Range_("y", Ov("x"))>>, <<Range_("z", Dollar)>>},
                          c \in SomeBlocks \union {<<Range_("x", Ov("z")), Range_("y", Atom("a"))>>}}

SomeBodies ==
    {Ov("x"), Ov("y"), Var("V"), App(<<Ov("z"), Var("V")>>)}
        \union {Quant(Atom("q"), <<Binder(b, Atom("a"))>>, t) :
                   b \in {"x", "y"}, t \in {Var("V"), App(<<Ov("x"), Ov("z")>>)}}

AllSubjects == {PV(s, t) : s \in SomeSubstitutions, t \in SomeBodies}

-----------------------------------------------------------------------------
(* Clauses of two arguments: what makes the compiler save a register, run  *)
(* out of them, open up a builtin, cut, and leave out a move.              *)

A == V(1)
B == V(2)
D == V(3)
o == Ob(1)
f(t)    == Str(C("f"), <<t>>)
g(s, t) == Str(C("g"), <<s, t>>)
q(s, t) == Goal("q", <<s, t>>)
r(s, t) == Goal("r", <<s, t>>)
ListOf(s, t, u) == Cons(s, Cons(t, u))
Clause(h1, h2, body) == [head |-> <<h1, h2>>, body |-> body]

\* The head of a builtin's argument, and a pseudo-instruction with an input and
\* an output, as '$psinstr_process' opens them up.
Input(t, n) ==
    IF IsVar(t) THEN <<PiEq(t), PiArg(t, V(n + 1))>>
    ELSE <<Eq(V(n), t), PiEq(V(n)), PiArg(V(n), V(n + 1))>>
Builtin(t, n) ==
    <<PsiLife(V(n))>> \o Input(t, n + 1) \o <<Pseudo(<<V(n + 2), V(n)>>, <<FALSE, TRUE>>)>>

Heads  == {A, f(A), ListOf(A, B, D), Qua(C("q"), Cons(o, Nil), A), o, Str(A, <<B>>)}
Bodies == {A, o, ListOf(f(A), f(B), f(D)), Qua(C("q"), Cons(o, Nil), f(A)),
           g(f(f(A)), g(B, D)), Qua(C("q"), B, o)}

Calls  == {Clause(h, i, b) : h \in Heads, i \in Heads,
              b \in {<<q(s, t)>> : s \in Bodies, t \in Bodies}
                    \union {<<q(s, A), r(B, t)>> : s \in Bodies, t \in Bodies}}
Builtins == {Clause(h, i, Builtin(s, 11) \o <<Eq(t, V(11))>> \o b) :
                h \in {A, f(A), ListOf(A, B, D), Str(A, <<B>>)}, i \in {A, B, f(B)},
                s \in {A, D, f(A), C("c")}, t \in {B, D, f(B)},
                b \in {<<>>, <<q(D, B)>>, <<q(A, A), r(D, D)>>}}
Levels == <<One("get_level", V(40))>>
Cut    == <<One("ccut", V(40))>>
Cuts   == {Clause(h, i, Levels \o b \o <<r(B, A)>>) : h \in Heads, i \in Heads,
              b \in {k \o c : k \in {<<>>, Cut},
                        c \in {<<>>, <<q(A, D)>> \o Cut, <<q(D, D)>> \o Cut \o <<r(A, C("c"))>> \o Cut}}}
Equations == {Clause(h, i, <<Eq(s, t)>> \o b) : h \in {A, f(A)}, i \in {B, g(A, B)},
                 s \in Bodies \union {C("c"), f(A)}, t \in Bodies \union {C("c"), f(B), D},
                 b \in {<<>>, <<q(D, B)>>, <<q(D, B), r(f(D), A)>>}}

AllClauses == Calls \union Builtins \union Cuts \union Equations

\* A register that is copied and then used for something else.
CopiedClauses == {Clause(C("c"), B, <<Eq(A, t), q(s, u)>>) : t \in {Cons(B, D), f(B), B},
               s \in {A, B, D}, u \in {A, B}}

AllCallers == {<<V(1), V(2)>>, <<V(1), V(1)>>, <<C("c"), f(V(1))>>,
              <<f(V(1)), ListOf(C("c"), V(2), V(3))>>}

-----------------------------------------------------------------------------
(* TLC works a definition out once, but not one that is put for a constant. *)

MCHashOf          == NameHashes
MCUserNames       == ChosenNames
MCHashOfKey       == KeyHashes
MCObjectVariables == ThreeVariables
MCWorlds          == Worlds3
MCStores          == AllStores
MCSubjects        == AllSubjects
MCClauses         == AllClauses
MCStale           == CopiedClauses
MCCallers         == AllCallers

-----------------------------------------------------------------------------

FreenessStart ==
    IF focus = "freeness" THEN FreenessInit
    ELSE known = [delays |-> <<>>] /\ subject = PV(<<>>, Dollar) /\ met = FALSE

CompilerStart ==
    IF focus = "compiler" THEN CompilerInit
    ELSE clause = <<>> /\ code = <<>> /\ caller = <<>> /\ outcome = [trace |-> <<>>, ready |-> TRUE]

DataInit == focus \in Focuses /\ TableInit /\ UserInit /\ FreenessStart /\ CompilerStart

DataNext ==
    /\ UNCHANGED focus
    /\ \/ focus = "table"    /\ TableNext    /\ UNCHANGED <<hashVars, freenessVars, compilerVars>>
       \/ focus = "hash"     /\ UserNext     /\ UNCHANGED <<tableVars, freenessVars, compilerVars>>
       \/ focus = "freeness" /\ FreenessNext /\ UNCHANGED <<tableVars, hashVars, compilerVars>>
       \/ focus = "compiler" /\ CompilerNext /\ UNCHANGED <<tableVars, hashVars, freenessVars>>

DataSpec == DataInit /\ [][DataNext]_dataVars
=============================================================================
