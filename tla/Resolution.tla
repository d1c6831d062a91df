----------------------------- MODULE Resolution -----------------------------
(***************************************************************************)
(* What the machine should compute: the answers to a goal in the order of  *)
(* Prolog, from clauses as they are written, by resolution with            *)
(* unification (with occurs check), negation-free bodies, ==/2 and the     *)
(* cut.  Terms are <<"v", n>>, <<"c", name>>, <<"n", number>> and          *)
(* <<"s", functor, t1, ..., tn>>; a list is <<"s", ".", head, tail>>.      *)
(***************************************************************************)
EXTENDS Integers, Sequences, SequencesExt

IsVariable(t) == t[1] = "v"
IsCompound(t) == t[1] = "s"
Subterms(t)   == SubSeq(t, 3, Len(t))

\* The variables of a term, in the order in which they occur first.
RECURSIVE VariablesOf(_, _)
VariablesOf(ts, found) ==
    IF ts = <<>> THEN found
    ELSE LET t == Head(ts) IN
         IF IsVariable(t)
         THEN VariablesOf(Tail(ts), IF Contains(found, t) THEN found ELSE Append(found, t))
         ELSE VariablesOf((IF IsCompound(t) THEN Subterms(t) ELSE <<>>) \o Tail(ts), found)

\* A term with its variables replaced.
RECURSIVE Replace(_, _), ReplaceEach(_, _)
Replace(f, t) ==
    IF IsVariable(t) THEN f[t]
    ELSE IF IsCompound(t) THEN <<"s", t[2]>> \o ReplaceEach(f, Subterms(t))
    ELSE t
ReplaceEach(f, ts) ==
    IF ts = <<>> THEN <<>> ELSE <<Replace(f, Head(ts))>> \o ReplaceEach(f, Tail(ts))

\* Terms that only differ in the names of their variables become the same.
Canonical(t) ==
    LET vs == VariablesOf(<<t>>, <<>>) IN
    Replace([v \in ToSet(vs) |-> <<"v", CHOOSE i \in DOMAIN vs : vs[i] = v>>], t)

\* Variables of a clause that is used at a depth are those of no other use.
Fresh(t, depth) ==
    Replace([v \in ToSet(VariablesOf(<<t>>, <<>>)) |-> <<"v", v[2] + 100 * depth>>], t)

-----------------------------------------------------------------------------
(* Substitutions are functions on the variables that are bound.            *)

RECURSIVE Walk(_, _)
Walk(th, t) == IF IsVariable(t) /\ t \in DOMAIN th THEN Walk(th, th[t]) ELSE t

RECURSIVE Instance(_, _), InstanceEach(_, _)
Instance(th, t) ==
    LET w == Walk(th, t) IN
    IF IsCompound(w) THEN <<"s", w[2]>> \o InstanceEach(th, Subterms(w)) ELSE w
InstanceEach(th, ts) ==
    IF ts = <<>> THEN <<>> ELSE <<Instance(th, Head(ts))>> \o InstanceEach(th, Tail(ts))

NoUnifier == [x \in {<<"fail">>} |-> <<"fail">>]

BindTo(th, v, t) == [x \in DOMAIN th \union {v} |-> IF x = v THEN t ELSE th[x]]

RECURSIVE Mgu(_, _)
Mgu(th, pairs) ==
    IF pairs = <<>> THEN th
    ELSE LET a == Walk(th, Head(pairs)[1])
             b == Walk(th, Head(pairs)[2])
             rest == Tail(pairs)
             VarTerm(v, t) ==
                IF Contains(VariablesOf(<<Instance(th, t)>>, <<>>), v) THEN NoUnifier
                ELSE Mgu(BindTo(th, v, t), rest) IN
         IF a = b THEN Mgu(th, rest)
         ELSE IF IsVariable(a) THEN VarTerm(a, b)
         ELSE IF IsVariable(b) THEN VarTerm(b, a)
         ELSE IF IsCompound(a) /\ IsCompound(b) /\ Len(a) = Len(b) /\ a[2] = b[2]
         THEN Mgu(th, Zip(Subterms(a), Subterms(b)) \o rest)
         ELSE NoUnifier

-----------------------------------------------------------------------------
(* Resolution.  A goal carries the depth of the call whose clause it is in, *)
(* which is what a cut in it cuts to; the result says to which call, if    *)
(* any, the search was cut (0: to none).                                   *)

CutTo(a, b) == IF a = 0 THEN b ELSE IF b = 0 THEN a ELSE IF a < b THEN a ELSE b

RECURSIVE Solve(_, _, _, _, _), TryClauses(_, _, _, _, _, _, _)

\* The answers to the goals, as instances of what is asked for.
Solve(clauses, goals, th, ask, depth) ==
    IF goals = <<>> THEN [answers |-> <<Canonical(Instance(th, ask))>>, cut |-> 0]
    ELSE LET g == Head(goals).goal IN
         IF g = <<"c", "!">>
         THEN LET r == Solve(clauses, Tail(goals), th, ask, depth) IN
              [r EXCEPT !.cut = CutTo(@, Head(goals).of)]
         ELSE IF g = <<"c", "fail">> THEN [answers |-> <<>>, cut |-> 0]
         ELSE IF g[2] = "=="
         THEN IF Instance(th, g[3]) = Instance(th, g[4])
              THEN Solve(clauses, Tail(goals), th, ask, depth)
              ELSE [answers |-> <<>>, cut |-> 0]
         ELSE TryClauses(clauses, clauses[g[2]], g, Tail(goals), th, ask, depth + 1)

TryClauses(clauses, left, g, rest, th, ask, depth) ==
    IF left = <<>> THEN [answers |-> <<>>, cut |-> 0]
    ELSE LET c  == Head(left)
             mgu == Mgu(th, <<<<g, Fresh(c.head, depth)>>>>)
             r == IF mgu = NoUnifier THEN [answers |-> <<>>, cut |-> 0]
                  ELSE Solve(clauses,
                             [i \in DOMAIN c.body |-> [goal |-> Fresh(c.body[i], depth), of |-> depth]]
                                \o rest, mgu, ask, depth) IN
         IF r.cut # 0 THEN [r EXCEPT !.cut = IF @ = depth THEN 0 ELSE @]
         ELSE LET more == TryClauses(clauses, Tail(left), g, rest, th, ask, depth) IN
              [more EXCEPT !.answers = r.answers \o @]

Answers(clauses, asked) ==
    Solve(clauses, [i \in DOMAIN asked.goals |-> [goal |-> asked.goals[i], of |-> 0]],
          [x \in {} |-> x], asked.ask, 0).answers
=============================================================================
