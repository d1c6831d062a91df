----------------------------- MODULE CompilerCheck -----------------------------
(***************************************************************************)
(* The code the compiler makes of a clause, run, and what the clause says. *)
(*                                                                         *)
(* Both are a sequence of events: the goals that are called, the builtins, *)
(* the cuts, and the end or a failure.  An event shows the arguments of    *)
(* the call and of all events up to it as they are then, and a variable as *)
(* the place where it is met first.  The terms are on a heap: a cell is    *)
(* free, an object variable, a constant, a reference, or is made of parts. *)
(***************************************************************************)
EXTENDS Peephole

CONSTANTS Clauses,      \* [head, body], the body with its builtins opened up
          Callers       \* the arguments that a clause may be called with

VARIABLES clause, code, caller, outcome
compilerVars == <<clause, code, caller, outcome>>

-----------------------------------------------------------------------------
(* Terms on the heap.                                                      *)

Cell(k, c, args) == [k |-> k, c |-> c, args |-> args]
FreeCell   == Cell("free", "", <<>>)
ObCell     == Cell("ob", "", <<>>)
ConstCell(c) == Cell("const", c, <<>>)

RECURSIVE Place(_, _)
Place(h, a) == IF h[a].k = "to" THEN Place(h, h[a].args[1]) ELSE a

RECURSIVE PartOf(_, _, _)
PartOf(h, p, a) ==
    LET q == Place(h, a) IN p = q \/ \E i \in DOMAIN h[q].args : PartOf(h, p, h[q].args[i])

\* Two terms made equal; pairs are the addresses that are left to compare.
RECURSIVE UnifyAll(_, _)
UnifyAll(h, pairs) ==
    IF pairs = <<>> THEN [h |-> h, says |-> "yes"]
    ELSE LET a == Place(h, pairs[1][1])
             b == Place(h, pairs[1][2])
             rest == Tail(pairs)
             bind(p, q) == IF PartOf(h, p, q) THEN [h |-> h, says |-> "cyclic"]
                           ELSE UnifyAll([h EXCEPT ![p] = Cell("to", "", <<q>>)], rest) IN
         CASE a = b -> UnifyAll(h, rest)
           [] a # b /\ h[a].k = "free" -> bind(a, b)
           [] a # b /\ h[a].k # "free" /\ h[b].k = "free" -> bind(b, a)
           [] a # b /\ h[a].k = "ob" /\ h[b].k = "ob" -> bind(a, b)
           [] a # b /\ h[a].k \in {"const", "parts"} /\ h[b].k = h[a].k /\ h[a].c = h[b].c
                /\ Len(h[a].args) = Len(h[b].args) ->
                UnifyAll(h, [i \in DOMAIN h[a].args |-> <<h[a].args[i], h[b].args[i]>>] \o rest)
           [] OTHER -> [h |-> h, says |-> "no"]

RECURSIVE Flat(_, _)
Flat(h, a) ==
    LET p == Place(h, a)
        from[i \in 0 .. Len(h[p].args)] == IF i = 0 THEN <<[k |-> h[p].k, c |-> h[p].c,
                                                          n |-> IF h[p].k \in {"free", "ob"} THEN p
                                                                ELSE Len(h[p].args)]>>
                                           ELSE from[i - 1] \o Flat(h, h[p].args[i]) IN
    from[Len(h[p].args)]

\* The terms at the addresses, with the variables named by where they come first.
Shown(h, addresses) ==
    LET q == For(<<>>, 1, Len(addresses), LAMBDA r, i : r \o Flat(h, addresses[i])) IN
    [i \in DOMAIN q |->
        IF q[i].k \in {"free", "ob"}
        THEN [q[i] EXCEPT !.n = CHOOSE j \in 1 .. i : q[j] = q[i] /\ \A m \in 1 .. j - 1 : q[m] # q[i]]
        ELSE q[i]]

\* m has at least a heap h, the arguments seen and the trace.
Event(m, what, addresses) ==
    LET seen == m.seen \o addresses IN
    [m EXCEPT !.seen = seen, !.trace = Append(@, [what |-> what, shows |-> Shown(m.h, seen)])]
Ends(m, what) == [m EXCEPT !.trace = Append(@, [what |-> what, shows |-> <<>>]), !.going = FALSE]

-----------------------------------------------------------------------------
(* What a clause says.                                                     *)

\* m.env has the addresses of the variables; m.at is the one of the term.
Located(m, a) == [m EXCEPT !.at = a]
NewCell(m, cell) == [m EXCEPT !.h = Append(@, cell), !.at = Len(m.h) + 1]

RECURSIVE Built(_, _)
\* The parts of a term, from the left.
BuiltAll(m, c, terms) ==
    LET r == For([m |-> m, as |-> <<>>], 1, Len(terms), LAMBDA s, i :
                LET b == Built(s.m, terms[i]) IN [m |-> b, as |-> Append(s.as, b.at)]) IN
    NewCell(r.m, Cell("parts", c, r.as))
Pairs(block) == [i \in 1 .. 2 * Len(block) |->
                    IF i % 2 = 1 THEN block[(i + 1) \div 2].dom ELSE block[i \div 2].ran]
Built(m, t) ==
    CASE t.k \in {"var", "ov"} ->
            IF t \in DOMAIN m.env THEN Located(m, m.env[t])
            ELSE LET n == NewCell(m, IF t.k = "var" THEN FreeCell ELSE ObCell) IN
                 [n EXCEPT !.env = [v \in DOMAIN @ \union {t} |-> IF v = t THEN n.at ELSE @[v]]]
      [] t.k = "const"           -> NewCell(m, ConstCell(t.c))
      [] t.k \in {"cons", "quant"} -> BuiltAll(m, t.k, t.args)
      [] t.k = "struct"          -> BuiltAll(m, "struct", <<t.f>> \o t.args)
      [] t.k = "block"           -> BuiltAll(m, "block", Pairs(t.pairs))
      [] t.k = "sub"             ->
            LET b == Built(m, [k |-> "block", pairs |-> t.blocks[1]])
                n == NewCell(b, ConstCell("[]"))
                l == NewCell(n, Cell("parts", "blocks", <<b.at, n.at>>))
                e == Built(l, t.t) IN
            NewCell(e, Cell("parts", "sub", <<l.at, e.at>>))

After(m, u) == IF u.says = "yes" THEN [m EXCEPT !.h = u.h] ELSE Ends([m EXCEPT !.h = u.h], u.says)
Equated(m, a, b) == After(m, UnifyAll(m.h, <<<<a, b>>>>))

\* The terms built one after the other, and their addresses.
Argument(s, b) == [m |-> b, as |-> Append(s.as, b.at)]
Arguments(m, args) ==
    For([m |-> m, as |-> <<>>], 1, Len(args), LAMBDA s, i : Argument(s, Built(s.m, args[i])))

EqualTo(m, a)    == Equated(m, a, m.at)
Same(s)          == Equated(s.m, s.as[1], s.as[2])
Said(s, what)    == Event(s.m, what, s.as)
Result(m, a)     == EqualTo(NewCell(m, ConstCell("result")), a)
ResultOf(m)      == Result(m, m.at)

\* The arguments of a builtin that are inputs, or outputs.
ThoseOf(item, out) == SelectSeq([i \in DOMAIN item.args |-> <<item.outs[i], item.args[i]>>], LAMBDA p : p[1] = out)
Results(m, outs) == For(m, 1, Len(outs), LAMBDA n, i : IF n.going THEN ResultOf(Built(n, outs[i][2])) ELSE n)
Inputs(item) == LET in == ThoseOf(item, FALSE) IN [i \in DOMAIN in |-> in[i][2]]

Means(m, item) ==
    CASE ~m.going \/ item.op \notin {"=", "piarg", "fail", "ccut", "goal", "pseudo_instr"} -> m
      [] m.going /\ item.op \in {"=", "piarg"} -> Same(Arguments(m, <<item.a1, item.a2>>))
      [] m.going /\ item.op = "fail" -> Ends(m, "no")
      [] m.going /\ item.op = "ccut" -> Event(m, "cut", <<>>)
      [] m.going /\ item.op = "goal" -> Said(Arguments(m, item.args), item.name)
      [] m.going /\ item.op = "pseudo_instr" ->
            Results(Said(Arguments(m, Inputs(item)), "pseudo"), ThoseOf(item, TRUE))

\* The arguments of a call, before it.
Called(args) ==
    For([h |-> <<>>, env |-> [v \in {} |-> 0], at |-> 0, seen |-> <<>>, trace |-> <<>>, going |-> TRUE],
        1, Len(args), LAMBDA m, i : LET b == Built(m, args[i]) IN [b EXCEPT !.seen = Append(@, b.at)])

HeadArgument(m, t, a) == IF m.going THEN EqualTo(Built(m, t), a) ELSE m
HeadOf(m, head) == For(m, 1, Len(head), LAMBDA n, i : HeadArgument(n, head[i], n.seen[i]))
AtEnd(m) == IF m.going THEN Ends(Event(m, "end", <<>>), "end") ELSE m
Meaning(c, args) ==
    AtEnd(For(HeadOf([Called(args) EXCEPT !.env = [v \in {} |-> 0]], c.head),
              1, Len(c.body), LAMBDA m, i : Means(m, c.body[i]))).trace

-----------------------------------------------------------------------------
(* What the code does.                                                     *)

\* x and y have addresses, 0 before one is stored; size is that of the
\* environment, -1 if there is none; sp the part that comes next.
Loaded(args) ==
    LET m == Called(args) IN
    [h |-> m.h, seen |-> m.seen, trace |-> <<>>, going |-> TRUE, ready |-> TRUE, at |-> 0,
     x |-> [i \in 0 .. NumberXRegisters - 1 |-> IF i < Len(args) THEN m.seen[i + 1] ELSE 0],
     y |-> [i \in 0 .. RegisterSize |-> 0], size |-> -1,
     sp |-> [a |-> 0, i |-> 0, write |-> FALSE]]

Read(m, r) == IF r.k = "x" THEN m.x[r.n] ELSE IF r.n < m.size THEN m.y[r.n] ELSE 0
Stored(m, r, a) ==
    IF r.k = "x" THEN [m EXCEPT !.x[r.n] = a]
    ELSE IF r.n < m.size THEN [m EXCEPT !.y[r.n] = a] ELSE Ends(m, "no environment")

\* F of m and the value of r, if it has one.
With(m, r, F(_, _)) == IF Read(m, r) = 0 THEN Ends(m, "no value") ELSE F(m, Read(m, r))

Filled(m, a) == [m EXCEPT !.h[m.sp.a].args[m.sp.i] = a, !.sp.i = @ + 1]
Passed(m)    == [m EXCEPT !.sp.i = @ + 1]
NextPart(m)  == m.h[m.sp.a].args[m.sp.i]

NewParts(m, r, c, n, i) ==
    LET p == NewCell(m, Cell("parts", c, [j \in 1 .. n |-> 0])) IN
    [Stored(p, r, p.at) EXCEPT !.sp = [a |-> p.at, i |-> i, write |-> TRUE]]

New1(m, type) == NewCell(m, IF type = "object" THEN ObCell ELSE FreeCell)

DoPut(m, t) ==
    CASE t.type = "constant" -> LET n == NewCell(m, ConstCell(t.a3.c)) IN Stored(n, t.a4, n.at)
      [] t.type \in {"meta", "object"} /\ t.mode = "variable" ->
            LET n == New1(m, t.type) IN Stored(Stored(n, t.a3, n.at), t.a4, n.at)
      [] t.type \in {"meta", "object"} /\ t.mode = "value" -> With(m, t.a3, LAMBDA n, a : Stored(n, t.a4, a))
      [] t.type = "list"       -> NewParts(m, t.a4, "cons", 2, 1)
      [] t.type = "structure"  -> NewParts(m, t.a4, "struct", t.a3.c + 1, 1)
      [] t.type = "quantifier" -> NewParts(m, t.a4, "quant", 3, 1)
      [] t.type = "empty_substitution" -> LET n == NewCell(m, ConstCell("[]")) IN Stored(n, t.a4, n.at)
      [] t.type = "substitution" ->
            With(m, t.a4, LAMBDA n, a :
                LET b == NewParts(n, LastX, "block", 2 * t.a3.c, 1)
                    l == NewCell([b EXCEPT !.x = n.x], Cell("parts", "blocks", <<b.sp.a, a>>)) IN
                Stored(l, t.a4, l.at))
      [] t.type = "sub_term" ->
            With(m, t.a3, LAMBDA n, s : With(n, t.a4, LAMBDA o, a :
                LET p == NewCell(o, Cell("parts", "sub", <<s, a>>)) IN Stored(p, t.a4, p.at)))

\* A structure to be matched, or to be made if there is a variable.
Matched(m, a, c, n, i) ==
    LET p == Place(m.h, a)
        q == NewCell(m, Cell("parts", c, [j \in 1 .. n |-> 0])) IN
    IF m.h[p].k = "free"
    THEN [q EXCEPT !.h[p] = Cell("to", "", <<q.at>>), !.sp = [a |-> q.at, i |-> i, write |-> TRUE]]
    ELSE IF m.h[p].k = "parts" /\ m.h[p].c = c /\ Len(m.h[p].args) = n
    THEN [m EXCEPT !.sp = [a |-> p, i |-> i, write |-> FALSE]]
    ELSE Ends(m, "no")

\* The next part is a, or it is equal to it.
PartIs(m, a) ==
    IF m.sp.write THEN Filled(m, a) ELSE LET e == Equated(m, NextPart(m), a) IN Passed(e)

DoGet(m, t) ==
    With(m, t.a4, LAMBDA n, a :
        CASE t.type = "constant" -> LET c == NewCell(n, ConstCell(t.a3.c)) IN Equated(c, a, c.at)
          [] t.type = "meta" /\ t.mode = "variable" -> Stored(n, t.a3, a)
          [] t.type = "object" /\ t.mode = "variable" ->
                LET o == NewCell(n, ObCell) IN Equated(Stored(o, t.a3, o.at), o.at, a)
          [] t.type \in {"meta", "object"} /\ t.mode = "value" -> With(n, t.a3, LAMBDA o, b : Equated(o, b, a))
          [] t.type = "list" -> Matched(n, a, "cons", 2, 1)
          [] t.type = "structure_frame" -> Matched(n, a, "struct", t.a3.c + 1, 1)
          [] t.type = "structure" ->
                LET s == Matched(n, a, "struct", t.a3.c + 1, 1)
                    f == NewCell(s, ConstCell(t.a3.f)) IN
                IF s.going THEN PartIs(f, f.at) ELSE s)

DoSet(m, t) ==
    CASE t.mode = "void" -> For(m, 1, t.a3.c, LAMBDA n, i : LET v == New1(n, t.type) IN Filled(v, v.at))
      [] t.type = "constant" -> LET n == NewCell(m, ConstCell(t.a3.c)) IN Filled(n, n.at)
      [] t.mode = "variable" -> LET n == New1(m, t.type) IN Stored(Filled(n, n.at), t.a3, n.at)
      [] t.mode = "value"    -> With(m, t.a3, LAMBDA n, a : Filled(n, a))

DoUnify(m, t) ==
    IF m.sp.write THEN DoSet(m, t)
    ELSE CASE t.mode = "void" -> [m EXCEPT !.sp.i = @ + t.a3.c]
           [] t.type = "constant" -> LET n == NewCell(m, ConstCell(t.a3.c)) IN PartIs(n, n.at)
           [] t.mode = "variable" -> Stored(Passed(m), t.a3, NextPart(m))
           [] t.mode = "value" -> With(m, t.a3, LAMBDA n, a : PartIs(n, a))

DoCall(m, t) ==
    LET args == [i \in 1 .. t.arity |-> m.x[i - 1]] IN
    IF \E i \in DOMAIN args : args[i] = 0 THEN Ends(m, "no value")
    ELSE [Event(m, t.name, args) EXCEPT !.x = [i \in DOMAIN m.x |-> 0],
            !.size = IF t.op = "call_pred" /\ t.size < @ THEN t.size ELSE @,
            !.ready = @ /\ (t.op = "call_pred" => \A i \in 0 .. t.size - 1 : m.y[i] # 0)]

DoPseudo(m, t) ==
    LET in == SelectSeq([i \in DOMAIN t.args |-> <<t.outs[i], t.args[i]>>], LAMBDA p : ~p[1])
        args == [i \in DOMAIN in |-> Read(m, in[i][2])] IN
    IF \E i \in DOMAIN args : args[i] = 0 THEN Ends(m, "no value")
    ELSE For(Event(m, "pseudo", args), 1, Len(t.args), LAMBDA n, i :
             IF ~t.outs[i] THEN n ELSE LET r == NewCell(n, ConstCell("result")) IN Stored(r, t.args[i], r.at))

Does(m, t) ==
    CASE ~m.going -> m
      [] m.going /\ t.op = "put"   -> DoPut(m, t)
      [] m.going /\ t.op = "get"   -> DoGet(m, t)
      [] m.going /\ t.op = "set"   -> DoSet(m, t)
      [] m.going /\ t.op \in {"unify", "unify_ref"} ->
            DoUnify(m, IF t.op = "unify" THEN t ELSE Arg("unify", "meta", "variable", t.a1))
      [] m.going /\ t.op = "check_binder" -> With(m, t.a1, LAMBDA n, a : n)
      [] m.going /\ t.op = "call_pred"    -> DoCall(m, t)
      [] m.going /\ t.op = "execute_pred" -> LET c == DoCall(m, t) IN
                                             IF c.going THEN Ends(Event(c, "end", <<>>), "end") ELSE c
      [] m.going /\ t.op = "pseudo_instr" -> DoPseudo(m, t)
      [] m.going /\ t.op = "get_level" -> LET n == NewCell(m, ConstCell("level")) IN Stored(n, t.a1, n.at)
      [] m.going /\ t.op = "ccut" ->
            With(m, t.a1, LAMBDA n, a : IF n.h[a].c = "level" THEN Event(n, "cut", <<>>) ELSE Ends(n, "no level"))
      [] m.going /\ t.op = "neck_cut"   -> Event(m, "cut", <<>>)
      [] m.going /\ t.op = "allocate"   -> [m EXCEPT !.size = t.n, !.y = [i \in DOMAIN @ |-> 0]]
      [] m.going /\ t.op = "deallocate" -> [m EXCEPT !.size = -1]
      [] m.going /\ t.op = "proceed"    -> Ends(Event(m, "end", <<>>), "end")
      [] m.going /\ t.op = "fail"       -> Ends(m, "no")
      [] OTHER                          -> Ends(m, "no such instruction")

Outcome(m) == [trace |-> m.trace, ready |-> m.ready]
Run(instructions, args) ==
    Outcome(For(Loaded(args), 1, Len(instructions), LAMBDA n, i : Does(n, instructions[i])))

-----------------------------------------------------------------------------
(* Every clause is compiled and called in every way.                       *)

CompilerInit ==
    /\ clause \in Clauses
    /\ code = <<>>
    /\ caller = <<>>
    /\ outcome = [trace |-> <<>>, ready |-> TRUE]

\* The clause makes a cyclic term of the arguments.
EndsCyclic(said) == said[Len(said)].what = "cyclic"

\* psi_ccompile
Compile ==
    /\ code = <<>>
    /\ code' = Compiled(clause.head, clause.body)
    /\ UNCHANGED <<clause, caller, outcome>>

Call ==
    /\ code # <<>>
    /\ outcome.trace = <<>>
    /\ caller' \in {args \in Callers : Len(args) = Len(clause.head)}
    /\ ~EndsCyclic(Meaning(clause, caller'))
    /\ outcome' = Run(code, caller')
    /\ UNCHANGED <<clause, code>>

CompilerNext == Compile \/ Call

\* The code of a clause does what the clause says: it calls the same goals with the
\* same arguments in the same order, cuts where it does, and fails where it does
\* (psi_ccompile; the lifetimes, the preferred registers, the moves that are left out
\* and the two meanings of a get are where it could differ).
CodeRight == outcome.trace # <<>> => outcome.trace = Meaning(clause, caller)

\* At each call the Y registers that stay are all initialised, as the garbage collector
\* requires (compile.cc: "all y registers will get initialised before the first goal").
EnvironmentReady == outcome.ready

\* Compiled code is right, and safe to collect at (psi_ccompile).
CompiledRight == CodeRight /\ EnvironmentReady
=============================================================================
