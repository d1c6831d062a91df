------------------------------ MODULE Freeness ------------------------------
(***************************************************************************)
(* Is an object variable free in a term?  The test (freeness.cc), the      *)
(* constraint that it is not, and the simplification of terms              *)
(* (equal.cc, substitution.cc, dereference.cc), with the delayed problems  *)
(* (delay.cc) and the distinctness of object variables (distinction.cc).   *)
(*                                                                         *)
(* What is known is a record: the object variable that each is bound to,   *)
(* the pairs that are distinct, and the delayed problems of each variable, *)
(* both in the order they were made.  A problem says that an object        *)
(* variable is not free in a term; one that is being solved is not frozen. *)
(* An operator that adds to what is known gives [ok, c]: ok is false when  *)
(* it failed.                                                              *)
(***************************************************************************)
EXTENDS Terms
LOCAL INSTANCE SequencesExt

Problem(x, t)      == [x |-> x, t |-> t, frozen |-> TRUE]
Group(v, problems) == [v |-> v, problems |-> problems]

Failed(c)   == [ok |-> FALSE, c |-> c]
Done(c)     == [ok |-> TRUE, c |-> c]
Progress(c) == [c EXCEPT !.progress = TRUE]

Rep(c, x)      == c.rep[x]
Distinct(c, x, y) == {Rep(c, x), Rep(c, y)} \in c.distinct

\* The variable or object variable at the end of the chain, for any other term
\* the term.
Shallow(c, t) == IF t.k = "ov" THEN Ov(Rep(c, t.x)) ELSE t

\* The term with no bound object variable in it, as it is copied and compared.
RECURSIVE Resolved(_, _)
Resolved(c, t) ==
    CASE t.k = "ov"    -> Shallow(c, t)
      [] t.k = "app"   -> App([i \in DOMAIN t.args |-> Resolved(c, t.args[i])])
      [] t.k = "quant" -> Quant(Resolved(c, t.q),
                                [i \in DOMAIN t.bound |->
                                    Binder(Rep(c, t.bound[i].x), Resolved(c, t.bound[i].type))],
                                Resolved(c, t.body))
      [] t.k = "sub"   -> Sub([j \in DOMAIN t.blocks |-> [i \in DOMAIN t.blocks[j] |->
                                  Range_(Rep(c, t.blocks[j][i].dom), Resolved(c, t.blocks[j][i].ran))]],
                              Resolved(c, t.t))
      [] OTHER         -> t

-----------------------------------------------------------------------------
(* What is known.                                                          *)

SetDistinct(c, x, y) == [c EXCEPT !.distinct = @ \union {{Rep(c, x), Rep(c, y)}}]

\* bindObjectVariables: the younger one is bound, and its distinctness passed on.
Bind(c, x, y) ==
    LET rx == Rep(c, x)
        ry == Rep(c, y)
        senior == IF c.age[rx] < c.age[ry] THEN rx ELSE ry
        to(z) == IF z \in {rx, ry} THEN senior ELSE z IN
    [c EXCEPT !.rep = [z \in DOMAIN @ |-> to(@[z])],
              !.distinct = {{to(z) : z \in p} : p \in @}]

\* delayProblem: one that is there already is frozen again.
DelayNFI(c, x, pv, v) ==
    LET t    == Resolved(c, AsTerm(pv))
        gs   == c.delays
        g    == {i \in DOMAIN gs : gs[i].v = v}
        same(p) == Rep(c, p.x) = Rep(c, x) /\ Resolved(c, p.t) = t IN
    IF g = {} THEN Progress([c EXCEPT !.delays = Append(@, Group(v, <<Problem(x, t)>>))])
    ELSE LET i == CHOOSE i \in g : TRUE
             js == {j \in DOMAIN gs[i].problems : same(gs[i].problems[j])} IN
         IF js = {} THEN Progress([c EXCEPT !.delays[i].problems = Append(@, Problem(x, t))])
         ELSE [c EXCEPT !.delays[i].problems[CHOOSE j \in js : TRUE].frozen = TRUE]

\* isDelayNFI
IsDelayNFI(c, x, v) ==
    \E i \in DOMAIN c.delays : c.delays[i].v = v.x /\
        \E j \in DOMAIN c.delays[i].problems :
            LET p == c.delays[i].problems[j] IN
            p.frozen /\ Rep(c, p.x) = Rep(c, x) /\ Resolved(c, p.t) = v

-----------------------------------------------------------------------------
(* Dereferencing, which does the substitutions that can be done.           *)

\* What a block does to an object variable: "stuck" if that is not known.
Stuck == Atom("stuck")

Least(hits) == CHOOSE i \in hits : \A j \in hits : i <= j
Ran(c, b, i) == Shallow(c, b[i].ran)

\* The open entries, which may be for x, and those of them that are, the hits.
AppliedAt(c, b, open, h) ==
    IF \A i \in open : i < h => Ran(c, b, i) = Ran(c, b, h) THEN Ran(c, b, h) ELSE Stuck

AppliedHit(c, b, open, hits) == IF hits = {} THEN Stuck ELSE AppliedAt(c, b, open, Least(hits))

AppliedOpen(c, x, b, open) ==
    IF open = {} THEN Ov(x) ELSE AppliedHit(c, b, open, {i \in open : Rep(c, b[i].dom) = x})

\* The first entry whose domain is x, if no entry before it may be for x and has
\* another range.
Applied1(c, x, b) == AppliedOpen(c, x, b, {i \in DOMAIN b : ~Distinct(c, x, b[i].dom)})

\* prologValueDereference
RECURSIVE Deref(_, _)
DerefApplied(c, pv, t, r) == IF r = Stuck THEN PV(pv.subs, t) ELSE Deref(c, PV(Tail(pv.subs), r))

DerefShallow(c, pv, t) ==
    CASE t.k = "sub"  -> Deref(c, PV(t.blocks \o pv.subs, t.t))
      [] t.k = "atom" -> PV(<<>>, t)
      [] t.k = "ov" /\ pv.subs # <<>> -> DerefApplied(c, pv, t, Applied1(c, t.x, Head(pv.subs)))
      [] OTHER -> PV(pv.subs, t)

Deref(c, pv) == DerefShallow(c, pv, Shallow(c, pv.t))

-----------------------------------------------------------------------------
(* A quick test, and the entries of substitutions it finds useless.        *)

\* fastNFITerm
RECURSIVE FastNFI(_, _, _)
FastNFI(c, x, t) ==
    CASE t.k = "atom"  -> TRUE
      [] t.k = "ov"    -> Distinct(c, x, t.x)
      [] t.k = "var"   -> IsDelayNFI(c, x, t)
      [] t.k = "app"   -> \A i \in DOMAIN t.args : FastNFI(c, x, t.args[i])
      [] t.k = "quant" -> /\ FastNFI(c, x, t.q)
                          /\ \A i \in DOMAIN t.bound : FastNFI(c, x, t.bound[i].type)
                          /\ \/ \E i \in DOMAIN t.bound : Rep(c, t.bound[i].x) = Rep(c, x)
                             \/ FastNFI(c, x, t.body)
      [] t.k = "sub"   -> LET entries == UNION {{t.blocks[j][i] : i \in DOMAIN t.blocks[j]} : j \in DOMAIN t.blocks} IN
                          /\ \A e \in entries : FastNFI(c, x, e.ran)
                          /\ (\E e \in entries : Rep(c, e.dom) = Rep(c, x)) \/ FastNFI(c, x, t.t)

\* canRemove: x is not free in t with the blocks, the last of them first.
RECURSIVE CanRemove(_, _, _, _)
CanRemove(c, x, blocks, t) ==
    IF blocks = <<>> THEN FastNFI(c, x, t)
    ELSE LET b == blocks[Len(blocks)] IN
         /\ \A i \in DOMAIN b : FastNFI(c, x, b[i].ran)
         /\ \/ \E i \in DOMAIN b : Rep(c, b[i].dom) = Rep(c, x)
            \/ CanRemove(c, x, SubSeq(blocks, 1, Len(blocks) - 1), t)

\* The entries of b at those places.
Entries(b, kept) ==
    LET in[i \in 0 .. Len(b)] == IF i = 0 THEN <<>>
                                 ELSE IF i \in kept THEN Append(in[i - 1], b[i]) ELSE in[i - 1] IN
    in[Len(b)]

UsefulAmong(c, b, used) ==
    {i \in used : \/ Ran(c, b, i) # Ov(Rep(c, b[i].dom))
                  \/ \E j \in used : j > i /\ ~Distinct(c, b[i].dom, b[j].dom)}

Useful(c, b, inner, t) == UsefulAmong(c, b, {i \in DOMAIN b : ~CanRemove(c, b[i].dom, inner, t)})

Block(b) == IF b = <<>> THEN <<>> ELSE <<b>>

\* dropSubFromTerm
RECURSIVE DropSub(_, _)
DropAgain(c, pv, d) == IF d.t # pv.t /\ d.subs # <<>> THEN DropSub(c, d) ELSE d
DropTo(c, pv, subs) == IF subs = pv.subs THEN pv ELSE DropAgain(c, pv, Deref(c, PV(subs, pv.t)))

DropSub(c, pv) ==
    LET rest[j \in 0 .. Len(pv.subs)] ==
            IF j = 0 THEN <<>>
            ELSE rest[j - 1] \o Block(Entries(pv.subs[j], Useful(c, pv.subs[j], rest[j - 1], pv.t))) IN
    DropTo(c, pv, rest[Len(pv.subs)])

Dropped(c, pv) == IF pv.subs = <<>> THEN pv ELSE DropSub(c, pv)

-----------------------------------------------------------------------------
(* Worlds.  An algorithm that has to know which entry of a substitution    *)
(* applies takes the domains one after the other: what is known is added   *)
(* that the domain is the one, delayed problems are tried again, and then  *)
(* everything is as it was.                                                *)

\* The domains of a substitution, each once, in their order.
Domains(c, subs) ==
    LET all[j \in 0 .. Len(subs)] ==
            IF j = 0 THEN <<>>
            ELSE LET b == subs[j]
                     more[i \in 0 .. Len(b)] ==
                        IF i = 0 THEN all[j - 1]
                        ELSE LET x == Rep(c, b[i].dom) IN
                             IF \E n \in DOMAIN more[i - 1] : more[i - 1][n] = x THEN more[i - 1]
                             ELSE Append(more[i - 1], x) IN
                 more[Len(b)] IN
    all[Len(subs)]

\* The i-th domain is none of those before it.
Chosen(c, doms, i) ==
    [c EXCEPT !.distinct = @ \union {{doms[i], doms[j]} : j \in 1 .. i - 1}]

\* The constraint, of a term, a variable, a variable with one simplified block, or
\* one that a delayed problem is given for.
RECURSIVE Constrain(_, _, _, _)
NotFreeIn(c, x, pv)        == Constrain("term", c, x, pv)
NotFreeInVar(c, x, pv)     == Constrain("variable", c, x, pv)
NotFreeInVarSimp(c, x, pv) == Constrain("simplified", c, x, pv)
NotFreeInNFISimp(c, x, pv) == Constrain("delayed", c, x, pv)

RECURSIVE RetryLoop(_)
RECURSIVE FreenessTest(_, _, _)
RECURSIVE SimplifyTerm(_, _)

Then(r, F(_)) == IF r.ok THEN F(r.c) ELSE r

\* What F does for each number from n down to 1.
Countdown(c, n, F(_, _)) ==
    LET after[i \in 0 .. n] ==
            IF i = 0 THEN Done(c) ELSE Then(after[i - 1], LAMBDA d : F(d, n + 1 - i)) IN
    after[n]

\* One delayed problem; only if it can be solved without simplifying it.
RetryDropped(c, g, j, x, pv) ==
    IF pv.subs # <<>> /\ (Len(pv.subs) > 1 \/ ~IsAnyVar(pv.t)) THEN Done(c)
    ELSE Constrain(IF pv.subs = <<>> THEN "term" ELSE "simplified",
                   [c EXCEPT !.delays[g].problems[j].frozen = FALSE], x, pv)

RetryProblem(c, g, j, p) ==
    IF p.frozen THEN RetryDropped(c, g, j, Rep(c, p.x), Dropped(c, Deref(c, PV(<<>>, p.t)))) ELSE Done(c)

RetryGroup(c, g) ==
    Countdown(c, Len(c.delays[g].problems), LAMBDA d, j : RetryProblem(d, g, j, d.delays[g].problems[j]))

RetryAgain(r) == IF r.ok /\ r.c.progress THEN RetryLoop(r.c) ELSE r

RetryLoop(c) == RetryAgain(Countdown([c EXCEPT !.progress = FALSE], Len(c.delays), RetryGroup))

\* retry_delays, for a test
Retry(c) == RetryLoop(c)

\* gen_nfi_delays: the problems of v hold for x in place of v.
GenNFIDelay(c, x, p, frozen) ==
    IF ~frozen THEN Done(c)
    ELSE NotFreeInNFISimp(c, Rep(c, p.x), PV(Deref(c, PV(<<>>, p.t)).subs, Ov(x)))

GenNFIGroup(c, x, g, problems) ==
    Countdown(c, Len(problems),
              LAMBDA d, j : GenNFIDelay(d, x, problems[j], d.delays[g].problems[j].frozen))

GenNFIDelays(c, x, v) ==
    IF \A i \in DOMAIN c.delays : c.delays[i].v # v.x THEN Done(c)
    ELSE LET g == CHOOSE i \in DOMAIN c.delays : c.delays[i].v = v.x IN
         GenNFIGroup(c, x, g, c.delays[g].problems)

\* The variable v may stand for the chosen domain.
AsVar(c, doms, i, v) ==
    Then(GenNFIDelays(Chosen(c, doms, i), doms[i], v), Retry)

\* The object variable t is the chosen domain.
BindUnlessDistinct(c, x, y) == IF Distinct(c, x, y) THEN Failed(c) ELSE Done(Bind(c, x, y))

AsOv(c, doms, i, t) ==
    Then(Then(Retry(Chosen(c, doms, i)), LAMBDA d : BindUnlessDistinct(d, doms[i], t.x)), Retry)

-----------------------------------------------------------------------------
(* The test: "yes" it is free, "no", or "unsure".                          *)

Or3(answers) ==
    IF "yes" \in answers THEN "yes" ELSE IF "unsure" \in answers THEN "unsure" ELSE "no"

\* x itself is the last of the domains.
TestedDomains(c, doms, x) ==
    IF \E i \in DOMAIN doms : doms[i] = Rep(c, x) THEN doms ELSE Append(doms, Rep(c, x))

\* The answer for the domain y, if it can be the one.
TestWorld(r, x, pv, y) == IF r.ok THEN FreenessTest(r.c, x, PV(pv.subs, Ov(y))) ELSE "none"

TestVarIn(c, x, pv, doms) ==
    {TestWorld(AsVar(c, doms, i, pv.t), x, pv, doms[i]) : i \in DOMAIN doms}

\* freeness_test_var
TestVar(c, x, pv) ==
    IF TestVarIn(c, x, pv, TestedDomains(c, Domains(c, pv.subs), x)) \subseteq {"none", "no"}
    THEN "no" ELSE "unsure"

TestOvIn(c, x, pv, doms) ==
    {TestWorld(AsOv(c, doms, i, pv.t), x, pv, doms[i]) : i \in DOMAIN doms} \ {"none"}

Agreed(answers) ==
    IF answers \subseteq {"no"} THEN "no" ELSE IF answers = {"yes"} THEN "yes" ELSE "unsure"

\* freeness_test_obvar
TestOv(c, x, pv) ==
    IF pv.subs # <<>> THEN Agreed(TestOvIn(c, x, pv, TestedDomains(c, Domains(c, pv.subs), x)))
    ELSE IF Rep(c, x) = pv.t.x THEN "yes" ELSE IF Distinct(c, x, pv.t.x) THEN "no" ELSE "unsure"

\* The block that makes the bound variables $.
Bound(c, t) == [i \in DOMAIN t.bound |-> Range_(Rep(c, t.bound[i].x), Dollar)]
Under(c, pv) == PV((IF pv.t.bound = <<>> THEN <<>> ELSE <<Bound(c, pv.t)>>) \o pv.subs, pv.t.body)

\* freeness_test_quant: what the test of the quantifier is unsure of is forgotten.
TestQuant(c, x, pv) ==
    IF FreenessTest(c, x, PV(pv.subs, pv.t.q)) = "yes" THEN "yes"
    ELSE Or3({FreenessTest(c, x, PV(pv.subs, pv.t.bound[i].type)) : i \in DOMAIN pv.t.bound}
                \union {FreenessTest(c, x, Under(c, pv))})

TestDropped(c, x, d, kind) ==
    CASE kind = "var" -> TestVar(c, x, d)
      [] kind = "ov"  -> IF d.t.k = "ov" THEN TestOv(c, x, d) ELSE "unsure"

TestDeref(c, x, d) ==
    CASE d.t.k = "atom"  -> "no"
      [] d.t.k = "app"   -> Or3({FreenessTest(c, x, PV(d.subs, d.t.args[i])) : i \in DOMAIN d.t.args})
      [] d.t.k = "quant" -> TestQuant(c, x, d)
      [] OTHER -> TestDropped(c, x, Dropped(c, d), d.t.k)

\* freeness_test
FreenessTest(c, x, pv) == TestDeref(c, x, Deref(c, pv))

-----------------------------------------------------------------------------
(* Simplification: a substitution becomes one block.                       *)

NoTester == "none"

TransformedAs(c, t, tester, free) ==
    CASE free = "yes" -> Ov(Rep(c, tester)) [] free = "no" -> Dollar [] OTHER -> t

\* transform_with_tester
Transformed(c, t, tester) ==
    IF tester = NoTester THEN t ELSE TransformedAs(c, t, tester, FreenessTest(c, tester, PV(<<>>, t)))

\* What is known when the i-th domain applies.
WithDomain(c, pv, doms, i) ==
    CASE pv.t.k = "ov"  -> AsOv(c, doms, i, pv.t)
      [] pv.t.k = "var" -> Then(Then(Retry(Chosen(c, doms, i)), LAMBDA d : GenNFIDelays(d, doms[i], pv.t)), Retry)
      [] OTHER          -> Retry(Chosen(c, doms, i))

\* The entry for the domain y: none if it cannot apply.
SimplifiedEntry(r, pv, y, tester) ==
    IF ~r.ok \/ (~IsAnyVar(pv.t) /\ FreenessTest(r.c, y, PV(<<>>, pv.t)) = "no") THEN <<>>
    ELSE <<Range_(IF pv.t.k = "var" THEN Rep(r.c, y) ELSE y,
                  Resolved(r.c, Transformed(r.c, SimplifyTerm(r.c, PV(pv.subs, Ov(y))),
                                            IF IsAnyVar(pv.t) THEN tester ELSE NoTester)))>>

SimplifiedBlock(c, pv, tester, doms) ==
    FlattenSeq([i \in DOMAIN doms |-> SimplifiedEntry(WithDomain(c, pv, doms, i), pv, doms[i], tester)])

WithBlock(b, t) == IF b = <<>> THEN t ELSE Sub(<<b>>, t)

\* simplify_sub_term
SimplifySub(c, pv, tester) == WithBlock(SimplifiedBlock(c, pv, tester, Domains(c, pv.subs)), pv.t)

SimplifyQuant(c, t) ==
    LET plain(u) == SimplifyTerm(c, PV(<<>>, u)) IN
    Quant(plain(t.q), [i \in DOMAIN t.bound |-> Binder(t.bound[i].x, plain(t.bound[i].type))], plain(t.body))

\* A term of that kind with what is left of its substitutions.
SimplifyLeft(c, d, kind) ==
    IF d.subs = <<>> THEN d.t ELSE IF d.t.k # kind THEN SimplifyTerm(c, d) ELSE SimplifySub(c, d, NoTester)

SimplifyDeref(c, d) ==
    CASE d.t.k = "atom"  -> d.t
      [] d.t.k = "app"   -> App([i \in DOMAIN d.t.args |-> SimplifyTerm(c, PV(d.subs, d.t.args[i]))])
      [] OTHER -> SimplifyLeft(c, IF d.t.k = "quant" THEN PV(d.subs, SimplifyQuant(c, d.t)) ELSE Dropped(c, d),
                               d.t.k)

\* simplify_term
SimplifyTerm(c, pv) == SimplifyDeref(c, Deref(c, pv))

-----------------------------------------------------------------------------
(* The constraint.                                                         *)

NotFreeInBare(c, x, t) ==
    CASE t.k = "var" -> Done(DelayNFI(c, x, PV(<<>>, t), t.x))
      [] Rep(c, x) = Rep(c, t.x) -> Failed(c)
      [] Distinct(c, x, t.x) -> Done(c)
      [] OTHER -> Done(Progress(SetDistinct(c, x, t.x)))

ConstrainSimplified(c, x, s) ==
    Constrain(IF ~IsAnyVar(s.t) \/ s.subs = <<>> THEN "term" ELSE "simplified", c, x, s)

\* notFreeInVar
ConstrainVar(c, x, pv) ==
    IF pv.subs = <<>> THEN NotFreeInBare(c, x, pv.t)
    ELSE ConstrainSimplified(c, x, Deref(c, PV(<<>>, SimplifySub(c, pv, x))))

\* The term of a body, under the bound variables unless they are known to be others.
ConstrainBody(c, x, pv) ==
    IF pv.subs = <<>> /\ \E i \in DOMAIN pv.t.bound : Rep(c, pv.t.bound[i].x) = Rep(c, x) THEN Done(c)
    ELSE NotFreeIn(c, x, IF pv.subs = <<>> /\ \A i \in DOMAIN pv.t.bound : Distinct(c, x, pv.t.bound[i].x)
                         THEN PV(<<>>, pv.t.body) ELSE Under(c, pv))

\* The parts of a term, the last one first.
ConstrainParts(c, x, subs, parts) ==
    Countdown(c, Len(parts), LAMBDA d, i : NotFreeIn(d, x, PV(subs, parts[Len(parts) + 1 - i])))

\* notFreeInQuantifier
ConstrainQuantifier(c, x, pv) ==
    Then(Then(NotFreeIn(c, x, PV(pv.subs, pv.t.q)),
              LAMBDA d : ConstrainParts(d, x, pv.subs, [i \in DOMAIN pv.t.bound |-> pv.t.bound[i].type])),
         LAMBDA d : ConstrainBody(d, x, pv))

ConstrainDropped(c, x, d) ==
    CASE d.t.k = "atom"  -> Done(c)
      [] IsAnyVar(d.t)   -> NotFreeInVar(c, x, d)
      [] d.t.k = "app"   -> ConstrainParts(c, x, d.subs, d.t.args)
      [] d.t.k = "quant" -> ConstrainQuantifier(c, x, d)

\* notFreeIn
ConstrainTerm(c, x, pv) == ConstrainDropped(c, x, Dropped(c, Deref(c, pv)))

\* A bug the next definition avoids: an entry that hides a later one is left out.
Compressed_all(c, x, b) == {i \in DOMAIN b : ~(b[i].ran = Dollar /\ Distinct(c, b[i].dom, x))}

\* The entries that are kept: [$/y] is left out when y is neither x nor a later
\* domain that is kept.
Compressed(c, x, b) ==
    LET kept[i \in 1 .. Len(b) + 1] ==
            IF i > Len(b) THEN {}
            ELSE IF /\ b[i].ran = Dollar
                    /\ Distinct(c, b[i].dom, x)
                    /\ \A j \in kept[i + 1] : Distinct(c, b[i].dom, b[j].dom)
            THEN kept[i + 1] ELSE kept[i + 1] \union {i} IN
    kept[1]

Dollars(b) == [i \in DOMAIN b |-> Range_(b[i].dom, Dollar)]

\* As the term is one, a variable, or one with a block.
ConstrainAs(c, x, d) ==
    Constrain(IF ~IsAnyVar(d.t) THEN "term" ELSE IF d.subs = <<>> THEN "variable" ELSE "simplified", c, x, d)

\* The block has x as the range of its entry i: the domain is not free in the term,
\* but for the entries before it, and x is not free for the others.
ConstrainRange(c, x, b, kept, i, t) ==
    Then(ConstrainAs(c, b[i].dom, Deref(c, PV(Block(Dollars(Entries(b, {j \in kept : j < i}))), t))),
         LAMBDA d : NotFreeIn(d, x, PV(Block(Entries(b, kept \ {i})), t)))

\* notFreeInVarSimp, for one block b that could not be evaluated
ConstrainBlock(c, x, b, t, kept) ==
    LET dollars == \A i \in DOMAIN b : b[i].ran = Dollar
        mine    == \E i \in DOMAIN b : Rep(c, b[i].dom) = Rep(c, x)
        covered == \E i \in DOMAIN b : Ov(Rep(c, b[i].dom)) = t
        one     == CHOOSE i \in kept : TRUE
        hits    == {i \in kept : Shallow(c, b[i].ran) = Ov(Rep(c, x))} IN
    CASE dollars /\ \/ mine
                    \/ t.k = "ov" /\ (Distinct(c, x, t.x) \/ covered)
                    \/ t.k = "var" /\ IsDelayNFI(c, x, t) -> Done(c)
      [] dollars /\ ~mine /\ Len(b) = 1 /\ t = Ov(Rep(c, x)) ->
            Done(Progress(Bind(c, x, b[1].dom)))
      [] kept = {} -> NotFreeIn(c, x, PV(<<>>, t))
      [] Cardinality(kept) = 1 /\ t = Ov(Rep(c, x)) ->
            NotFreeIn(Progress(Bind(c, x, b[one].dom)), x, PV(<<>>, b[one].ran))
      [] hits # {} -> ConstrainRange(c, x, b, kept, Least(hits), t)
      [] OTHER -> Done(DelayNFI(c, x, PV(<<Entries(b, kept)>>, t), t.x))

ConstrainLookedUp(c, x, b, t) == ConstrainBlock(c, x, b, t, Compressed(c, x, b))

ConstrainVarDeref(c, x, d) ==
    IF ~IsAnyVar(d.t) THEN NotFreeIn(c, x, d)
    ELSE IF d.subs = <<>> THEN NotFreeInBare(c, x, d.t)
    ELSE ConstrainLookedUp(c, x, [i \in DOMAIN d.subs[1] |-> Range_(Rep(c, d.subs[1][i].dom), Ran(c, d.subs[1], i))],
                           d.t)

ConstrainVarSimp(c, x, pv) == ConstrainVarDeref(c, x, Deref(c, pv))

\* A range in which x cannot be free counts as $.
IsFreeNowhere(c, x, e) == e.t.k = "atom" \/ (e.t.k = "ov" /\ e.subs = <<>> /\ Distinct(c, x, e.t.x))

Emptied(c, x, b) ==
    [i \in DOMAIN b |-> IF IsFreeNowhere(c, x, Dropped(c, Deref(c, PV(<<>>, b[i].ran))))
                        THEN Range_(b[i].dom, Dollar) ELSE b[i]]

ConstrainNFIEmptied(c, x, e, t) ==
    Constrain(IF e.t = t /\ e.subs # <<>> THEN "simplified" ELSE "delayed", c, x, e)

ConstrainNFIDropped(c, x, d) ==
    IF d.t.k = "atom" \/ (IsAnyVar(d.t) /\ d.subs = <<>>) THEN NotFreeIn(c, x, d)
    ELSE IF ~IsAnyVar(d.t) \/ Len(d.subs) # 1 THEN Done(c)
    ELSE ConstrainNFIEmptied(c, x, Deref(c, PV(<<Emptied(c, x, d.subs[1])>>, d.t)), d.t)

\* notFreeInNFISimp
ConstrainNFISimp(c, x, pv) == ConstrainNFIDropped(c, x, Dropped(c, Deref(c, pv)))

Constrain(how, c, x, pv) ==
    CASE how = "term"       -> ConstrainTerm(c, x, pv)
      [] how = "variable"   -> ConstrainVar(c, x, pv)
      [] how = "simplified" -> ConstrainVarSimp(c, x, pv)
      [] how = "delayed"    -> ConstrainNFISimp(c, x, pv)
=============================================================================
