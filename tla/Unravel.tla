-------------------------------- MODULE Unravel --------------------------------
(***************************************************************************)
(* The first phases of the compiler of clauses: its permanent variables    *)
(* (compile.cc) and the clause taken apart into instructions whose         *)
(* operands are variables still (unravel.cc).                              *)
(*                                                                         *)
(* The phases bind the variables of the clause and the ones they make, and *)
(* mark those that have a value at this point of the code.  That is a      *)
(* record: the bindings, the marks, the variable that stands for each      *)
(* object variable, the permanent variables, the instructions, and the     *)
(* life list, which has the operands in the order they are used.           *)
(***************************************************************************)
EXTENDS Integers, Sequences, FiniteSets

V(n)             == [k |-> "var", n |-> n]
Ob(n)            == [k |-> "ov", n |-> n]
C(c)             == [k |-> "const", c |-> c]
Cons(h, t)       == [k |-> "cons", args |-> <<h, t>>]
Str(f, args)     == [k |-> "struct", f |-> f, args |-> args]
Qua(q, bound, t) == [k |-> "quant", args |-> <<q, bound, t>>]
Sbs(blocks, t)   == [k |-> "sub", blocks |-> blocks, t |-> t]
X(n)             == [k |-> "x", n |-> n]
Y(n)             == [k |-> "y", n |-> n]
Ref(t)           == [k |-> "ref", t |-> t]
Functor(f, n)    == [k |-> "functor", f |-> f, c |-> n]
Nil              == C("[]")
NoArg            == C("noarg")

Instr(op, type, mode, a3, a4) == [op |-> op, type |-> type, mode |-> mode, a3 |-> a3, a4 |-> a4]
PutInstr(type, mode, a3, a4) == Instr("put", type, mode, a3, a4)
GetInstr(type, mode, a3, a4) == Instr("get", type, mode, a3, a4)
Arg(op, type, mode, a3) == [op |-> op, type |-> type, mode |-> mode, a3 |-> a3]
One(op, a1)             == [op |-> op, a1 |-> a1]
CallPred(name, arity)   == [op |-> "call_pred", name |-> name, arity |-> arity, size |-> -1]
Fail                    == [op |-> "fail"]
\* a builtin with the modes of its arguments, TRUE for an output
Pseudo(args, outs)      == [op |-> "pseudo_instr", args |-> args, outs |-> outs]
PiArg(a, b)             == [op |-> "piarg", a1 |-> a, a2 |-> b]
PiEq(a)                 == One("pieq", a)
PsiLife(a)              == One("psi_life", a)
Eq(a, b)                == [op |-> "=", a1 |-> a, a2 |-> b]
Goal(name, args)        == [op |-> "goal", name |-> name, args |-> args]

IsConst(t) == t.k = "const"
IsVar(t)   == t.k = "var"

RECURSIVE Chase(_, _)
Chase(binds, t) == IF IsVar(t) /\ t.n \in DOMAIN binds THEN Chase(binds, binds[t.n]) ELSE t

Chased(s, t) == Chase(s.binds, t)

\* What F does for each number from m to n.  What it is done to is a set of one,
\* so that it is known before F is done.
For(s, m, n, F(_, _)) ==
    LET after[i \in m - 1 .. n] ==
            IF i < m THEN s ELSE CHOOSE t \in {F(b, i) : b \in {after[i - 1]}} : TRUE IN
    IF n < m THEN s ELSE after[n]

-----------------------------------------------------------------------------
(* Permanent variables.                                                    *)

\* The elements of a sequence, each where it is first.
RECURSIVE AddAll(_, _)
AddAll(seen, more) ==
    IF more = <<>> THEN seen
    ELSE AddAll(IF \E i \in DOMAIN seen : seen[i] = Head(more) THEN seen ELSE Append(seen, Head(more)),
                Tail(more))

\* collect_term_vars: the variables and object variables of a term.
RECURSIVE TermVars(_)
TermVars(t) ==
    LET each[i \in 0 .. 9] == IF i = 0 THEN <<>>
                              ELSE IF i > Len(t.args) THEN each[i - 1]
                              ELSE each[i - 1] \o TermVars(t.args[i])
        pairs[i \in 0 .. 9] == IF i = 0 THEN <<>>
                               ELSE IF i > Len(t.blocks[1]) THEN pairs[i - 1]
                               ELSE pairs[i - 1] \o TermVars(t.blocks[1][i].ran) \o TermVars(t.blocks[1][i].dom) IN
    CASE t.k \in {"var", "ov"}    -> <<t>>
      [] t.k \in {"cons", "quant"} -> each[Len(t.args)]
      [] t.k = "struct"           -> TermVars(t.f) \o each[Len(t.args)]
      [] t.k = "sub"              -> pairs[Len(t.blocks[1])] \o TermVars(t.t)
      [] OTHER                    -> <<>>

GoalVars(g) ==
    CASE g.op = "goal"            -> TermVars(Str(C(g.name), g.args))
      [] g.op = "pseudo_instr"    -> TermVars(Str(C(""), g.args))
      [] g.op \in {"=", "piarg"}  -> TermVars(Str(C(""), <<g.a1, g.a2>>))
      [] g.op \in {"pieq", "psi_life", "get_level", "ccut"} -> TermVars(g.a1)
      [] OTHER                    -> <<>>

ToSet(q) == {q[i] : i \in DOMAIN q}
Without(q, x) == SelectSeq(q, LAMBDA y : y # x)

\* addPerms: a variable that is there already moves to the end.
AddPerms(perms, vars) ==
    LET add[i \in 0 .. Len(vars)] ==
            IF i = 0 THEN perms ELSE Append(Without(add[i - 1], vars[i]), vars[i]) IN
    add[Len(vars)]

\* A bug the next definition avoids: a variable in the neck is initialised too late.
FirstUses_none(body, perms, neck, from) == body

\* Permanent variables that are not in the neck are unified with new variables
\* before the first goal, so that all are initialised when it is called.
FirstUses(body, perms, neck, from) ==
    LET late == SelectSeq(perms, LAMBDA v : \A i \in DOMAIN neck : neck[i] # v)
        eqs  == [i \in DOMAIN late |-> Eq(late[i], V(50 + i))]
        at   == CHOOSE i \in DOMAIN body : body[i].op = "goal" /\ \A j \in 1 .. i - 1 : body[j].op # "goal" IN
    SubSeq(body, 1, at - 1) \o eqs \o SubSeq(body, at, Len(body))

\* permvars: a variable of a goal that is in the chunks before it, each of which
\* ends with a goal, is permanent.
PermVars(head, body) ==
    LET goal(i) == body[i].op = "goal"
        empty == [vars |-> AddAll(<<>>, TermVars(Str(C(""), head))), half |-> <<>>, perms |-> <<>>, neck |-> <<>>]
        chunk(s, i, mine, vars) ==
            [vars |-> vars,
             perms |-> AddPerms(s.perms, SelectSeq(s.half, LAMBDA v : v \in ToSet(mine))),
             half |-> IF goal(i) THEN vars ELSE s.half,
             neck |-> IF goal(i) /\ s.half = <<>> /\ \A j \in 1 .. i - 1 : ~goal(j) THEN vars ELSE s.neck]
        visit(s, i, mine) == chunk(s, i, mine, AddAll(s.vars, mine))
        of(s) == [perms |-> s.perms,
                  body |-> IF \E i \in DOMAIN body : goal(i) THEN FirstUses(body, s.perms, s.neck, 1) ELSE body] IN
    of(For(empty, 1, Len(body), LAMBDA s, i : visit(s, i, GoalVars(body[i]))))

-----------------------------------------------------------------------------
(* Instructions.                                                           *)

Start(perms) ==
    [binds |-> [n \in {} |-> Nil], marked |-> {}, names |-> [n \in {} |-> Nil],
     perms |-> perms, code |-> <<>>, life |-> <<>>, next |-> 100]

BindTo(s, v, t) == [s EXCEPT !.binds = [n \in DOMAIN @ \union {v.n} |-> IF n = v.n THEN t ELSE @[n]]]
HasValue(s, t)   == IsVar(t) /\ t.n \in s.marked
Mark(s, t)     == IF IsVar(t) THEN [s EXCEPT !.marked = @ \union {t.n}] ELSE s
Permanent(s, t) == \E i \in DOMAIN s.perms : s.perms[i] = t
Emit(s, i)     == [s EXCEPT !.code = Append(@, i)]

\* updateLife
LivesChased(s, d) == IF d.k \in {"var", "x"} THEN [s EXCEPT !.life = Append(@, d)] ELSE s
Lives(s, t) == LivesChased(s, Chased(s, t))

\* A new variable is the one with the number s.next.
WithNew(s, F(_, _)) == F([s EXCEPT !.next = @ + 1], V(s.next))

\* The variable for a variable or object variable, and whether it is its first use.
Operand(s, t) ==
    IF IsVar(t) THEN [s |-> s, v |-> t, first |-> ~HasValue(s, t), type |-> "meta"]
    ELSE IF t.n \in DOMAIN s.names
    THEN [s |-> s, v |-> s.names[t.n], first |-> FALSE, type |-> "object"]
    ELSE [s |-> [s EXCEPT !.next = @ + 1,
                          !.names = [n \in DOMAIN @ \union {t.n} |-> IF n = t.n THEN V(s.next) ELSE @[n]]],
          v |-> V(s.next), first |-> TRUE, type |-> "object"]

\* The instruction for the operands o and t, and the order in which they are used.
GetOperand(s0, o, t1, t) ==
    LET has == HasValue(o.s, t)
        mode == IF o.first THEN "variable" ELSE "value" IN
    CASE has -> <<GetInstr(o.type, mode, o.v, t), t, o.v>>
      [] ~has /\ ~o.first /\ ~Permanent(s0, t1) -> <<GetInstr(o.type, "variable", t, o.v), o.v, t>>
      [] OTHER -> <<PutInstr(o.type, mode, o.v, t), o.v, t>>

PutOperand(s0, o, t1, t) == <<PutInstr(o.type, IF o.first THEN "variable" ELSE "value", o.v, t), o.v, t>>

\* getput
GetPutConstant(s, t1, t2, get) ==
    Lives(Emit(Mark(s, t2), Instr(IF get THEN "get" ELSE "put", "constant", "noarg", t1, t2)), t2)
EmitOperand(o, t, i) == Mark(Mark(Emit(Lives(Lives(o.s, i[2]), i[3]), i[1]), o.v), t)
GetPutOperand(s, o, t1, t2, get) ==
    EmitOperand(o, t2, IF get THEN GetOperand(s, o, t1, t2) ELSE PutOperand(s, o, t1, t2))
GetPutChased(s, t1, t2, get) ==
    IF IsConst(t1) THEN GetPutConstant(s, t1, t2, get) ELSE GetPutOperand(s, Operand(s, t1), t1, t2, get)
GetPut(s, a1, a2, get) == GetPutChased(s, Chased(s, a1), Chased(s, a2), get)

\* unifyset
UnifySetOperand(o, op) ==
    Lives(Mark(Emit(o.s, Arg(op, o.type, IF o.first THEN "variable" ELSE "value", o.v)), o.v), o.v)
UnifySetChased(s, t, op) ==
    IF IsConst(t) THEN Emit(s, Arg(op, "constant", "noarg", t)) ELSE UnifySetOperand(Operand(s, t), op)
UnifySet(s, a1, get) == UnifySetChased(s, Chased(s, a1), IF get THEN "unify" ELSE "set")

\* getputlist, getputstruct and putquant
Build(s, v, put, get) == Lives(Emit(IF get THEN s ELSE Mark(s, v), IF get THEN [put EXCEPT !.op = "get"] ELSE put), v)

\* putsub and putemptysub; putsubterm
PutSub(s, z, type, size) == Lives(Emit(Mark(s, z), PutInstr(type, "noarg", C(size), z)), z)
PutSubTerm(s, t, z)      == Lives(Lives(Emit(Mark(Mark(s, t), z), PutInstr("sub_term", "noarg", z, t)), z), t)

-----------------------------------------------------------------------------
(* Terms taken apart.                                                      *)

RECURSIVE GoalStructSpread(_, _, _)
RECURSIVE HeadStructSpread(_, _, _, _)
RECURSIVE VarUnify(_, _, _)

\* A variable for each of n parts; its first is s.next.
Parts(s, n) == [s EXCEPT !.next = @ + n]
Part(s, i)  == V(s.next + i - 1)

\* goalSubSpread, of a substitution of one block.
SubEntries(s0, b) ==
    For(Parts(s0, 2 * Len(b) + 1), 1, Len(b), LAMBDA s, i :
        GoalStructSpread(GoalStructSpread(s, b[i].dom, Part(s0, 2 * i)), b[i].ran, Part(s0, 2 * i + 1)))
SubBlock(s, s0, n) ==
    For(PutSub(PutSub(s, Part(s0, 1), "empty_substitution", 0), Part(s0, 1), "substitution", n),
        1, n, LAMBDA r, i : UnifySet(UnifySet(r, Part(s0, 2 * i), FALSE), Part(s0, 2 * i + 1), FALSE))
SubBody(s, t, v) ==
    IF t.k \in {"const", "var", "ov"} THEN GetPut(s, t, v, FALSE) ELSE GoalStructSpread(s, t, v)
GoalSubSpread(s0, t, v) ==
    PutSubTerm(SubBody(SubBlock(SubEntries(s0, t.blocks[1]), s0, Len(t.blocks[1])), t.t, v), v, Part(s0, 1))

\* The parts of a term, the functor of a structure first.
SpreadParts(s0, t) ==
    LET n == Len(t.args)
        f == IF t.k = "struct" THEN <<n + 1>> ELSE <<>>
        order == f \o [i \in 1 .. n |-> IF t.k = "cons" THEN n + 1 - i ELSE i] IN
    For(Parts(s0, n + 1), 1, Len(order), LAMBDA s, i :
        GoalStructSpread(s, IF order[i] = n + 1 THEN t.f ELSE t.args[order[i]], Part(s0, order[i])))
SetParts(s, s0, t) ==
    LET n == Len(t.args)
        order == (IF t.k = "struct" THEN <<n + 1>> ELSE <<>>) \o [i \in 1 .. n |-> i] IN
    For(s, 1, Len(order), LAMBDA r, i : UnifySet(r, Part(s0, order[i]), FALSE))
SpreadPut(t, v) ==
    CASE t.k = "cons"   -> PutInstr("list", "noarg", NoArg, v)
      [] t.k = "struct" -> PutInstr("structure", "noarg", C(Len(t.args)), v)
      [] t.k = "quant"  -> PutInstr("quantifier", "noarg", NoArg, v)
SpreadChecked(s, s0, t) ==
    IF t.k # "quant" \/ IsConst(t.args[2]) THEN s
    ELSE Lives(Emit(s, One("check_binder", Part(s0, 2))), Part(s0, 2))
GoalStructChased(s, t, v) ==
    CASE t.k \in {"cons", "struct", "quant"} ->
            SpreadChecked(SetParts(Build(GetPut(SpreadParts(s, t), v, v, FALSE), v, SpreadPut(t, v), FALSE), s, t), s, t)
      [] t.k = "sub" -> GoalSubSpread(s, t, v)
      [] OTHER -> BindTo(s, v, t)
GoalStructSpread(s, a, v) == GoalStructChased(s, Chased(s, a), v)

\* goalArgSpread
GoalArgSpread(s, a, v) ==
    LET t == Chased(s, a) IN
    IF t.k \in {"var", "ov"} THEN GetPut(s, t, v, FALSE) ELSE GoalStructSpread(s, t, v)

\* headStructSpread: of a part that is not at the top a reference is taken while
\* its structure is matched.
HeadStructSpread(s0, a, v, top) ==
    LET t == Chased(s0, a)
        plain(p) == LET d == Chased(s0, p) IN d.k \in {"const", "var"}
        n == IF t.k \in {"cons", "struct"} THEN Len(t.args) ELSE 0
        w == Part(s0, n + 1)
        f == Part(s0, n + 2)
        s1 == Parts(s0, n + 2)
        s2 == IF ~top THEN BindTo(s1, v, Ref(w))
              ELSE BindTo(IF HasValue(s1, v) THEN Mark(s1, w) ELSE s1, v, w)
        match(s, i) == UnifySet(s, IF plain(t.args[i]) THEN t.args[i] ELSE Part(s0, i), TRUE)
        inside(s, i) == HeadStructSpread(s, t.args[i], Part(s0, i), FALSE)
        frame == UnifySet(Build(s2, w, PutInstr("structure_frame", "noarg", C(n), w), TRUE),
                          IF IsVar(Chased(s0, t.f)) THEN t.f ELSE f, TRUE) IN
    CASE t.k \in {"const", "var"} -> BindTo(IF HasValue(s0, v) THEN Mark(s0, t) ELSE s0, v, t)
      [] t.k = "ov" -> GetPut(s0, t, v, TRUE)
      [] t.k \in {"sub", "quant"} ->
            WithNew(s0, LAMBDA s, tmp : GetPut(GoalArgSpread(s, t, tmp), tmp, v, TRUE))
      [] t.k = "cons" ->
            For(For(Build(s2, w, PutInstr("list", "noarg", NoArg, w), TRUE), 1, 2, match), 1, 2, inside)
      [] t.k = "struct" ->
            IF IsConst(t.f)
            THEN For(For(Build(s2, w, PutInstr("structure", "noarg", Functor(t.f.c, n), w), TRUE), 1, n, match), 1, n, inside)
            ELSE For(HeadStructSpread(For(frame, 1, n, match), t.f, f, TRUE), 1, n, inside)

\* headArgSpread
HeadArgSpread(s, a, v) ==
    IF IsVar(a) THEN GetPut(s, a, v, TRUE) ELSE HeadStructSpread(s, a, v, TRUE)

\* xputget
XPutGet(s0, put, get) ==
    WithNew(s0, LAMBDA s, tmp :
        IF ~IsConst(put) /\ IsConst(get) THEN GetPut(GetPut(s, put, tmp, FALSE), get, tmp, TRUE)
        ELSE HeadArgSpread(IF IsConst(put) THEN GetPut(s, put, tmp, FALSE) ELSE GoalArgSpread(s, put, tmp), get, tmp))

\* varunify, of the two sides of an equation.
IsBuilt(t) == (t.k = "struct" /\ IsConst(t.f)) \/ t.k = "cons"
IsFlat(t)  == t.k \in {"const", "ov"}

\* Whether a is put and b is got, of a variable and another term or two
\* permanent variables.
PutFirst(s, a, b) ==
    \/ IsVar(a) /\ (IsVar(b) \/ IsBuilt(b) \/ (IsFlat(b) /\ Permanent(s, a)))
    \/ IsVar(b) /\ IsFlat(a) /\ ~Permanent(s, b)

\* Two variables of which one is not permanent.
UnifyVariables(s, a, b) ==
    IF Permanent(s, b) THEN HeadArgSpread(s, b, a) ELSE HeadArgSpread(s, a, b)

UnifyInOrder(s, a, b, first) == XPutGet(s, IF first THEN a ELSE b, IF first THEN b ELSE a)

UnifyParts(s, as, bs) == For(s, 1, Len(as), LAMBDA r, i : VarUnify(r, as[i], bs[i]))

UnifyChased(s, a, b) ==
    LET bothPut == ~(IsVar(a) /\ IsVar(b)) \/ (Permanent(s, a) /\ Permanent(s, b)) IN
    CASE a = b /\ a.k \in {"var", "ov", "const"} -> s
      [] a # b /\ ~bothPut -> UnifyVariables(s, a, b)
      [] bothPut /\ (PutFirst(s, a, b) \/ PutFirst(s, b, a)) -> UnifyInOrder(s, a, b, PutFirst(s, a, b))
      [] a.k = "struct" /\ b.k = "struct" ->
            IF Len(a.args) # Len(b.args) \/ (IsConst(a.f) /\ IsConst(b.f) /\ a.f # b.f) THEN Emit(s, Fail)
            ELSE UnifyParts(s, <<a.f>> \o a.args, <<b.f>> \o b.args)
      [] a.k = "cons" /\ b.k = "cons" -> UnifyParts(s, a.args, b.args)
      [] OTHER -> WithNew(s, LAMBDA r, tmp : XPutGet(GoalArgSpread(r, a, tmp), b, tmp))

VarUnify(s, x, y) == UnifyChased(s, Chased(s, x), Chased(s, y))

-----------------------------------------------------------------------------
(* Clauses taken apart.                                                    *)

\* The variable at the end of the bindings of v is the argument register i.
InRegister(s, v, i) == BindTo(s, Chased(s, v), X(i - 1))

\* unravelHead
UnravelHead(s0, head) ==
    LET start == [s0 EXCEPT !.life = <<C(Len(head))>>]
        constant(s, i) == IF IsConst(head[i]) THEN GetPut(s, head[i], X(i - 1), TRUE) ELSE s
        other(s, i) ==
            IF IsConst(head[i]) THEN s
            ELSE WithNew(s, LAMBDA r, v : InRegister(HeadArgSpread(Mark(r, v), head[i], v), v, i)) IN
    For(For(start, 1, Len(head), constant), 1, Len(head), other)

\* goalSpread, of a goal that is called: its constants are loaded last.
SpreadOther(s, a, i) ==
    IF IsConst(Chased(s, a)) THEN s
    ELSE WithNew(s, LAMBDA r, v : InRegister(GoalArgSpread(r, a, v), v, i))
SpreadConstant(s, a, i) ==
    IF ~IsConst(Chased(s, a)) THEN s
    ELSE WithNew(s, LAMBDA r, v : InRegister(GetPut(r, a, v, FALSE), v, i))
SpreadCall(s0, g) ==
    LET n == Len(g.args)
        others == For(s0, 1, n, LAMBDA s, i : SpreadOther(s, g.args[i], i)) IN
    [Emit(For(others, 1, n, LAMBDA s, i : SpreadConstant(s, g.args[i], i)), CallPred(g.name, n))
        EXCEPT !.life = Append(@, C(n))]

\* goalSpread, with escape_builtin
GoalSpread(s, g) ==
    CASE g.op = "piarg" -> Emit(GetPut(s, g.a1, g.a2, FALSE), g)
      [] g.op = "pieq"  -> GetPut(s, g.a1, g.a1, FALSE)
      [] g.op \in {"fail", "ccut"} -> Emit(s, g)
      [] g.op \in {"get_level", "psi_life"} -> Emit(Lives(Mark(s, Chased(s, g.a1)), g.a1), g)
      [] g.op = "pseudo_instr" ->
            Emit(For(s, 1, Len(g.args), LAMBDA r, i : Mark(r, Chased(r, g.args[i]))), g)
      [] g.op = "goal" -> SpreadCall(s, g)

StuckSub(t) == t.k = "sub" /\ t.t.k \in {"var", "ov"}

\* A constant and a substitution are equated by way of a new variable.
UnravelEquation(s, a, b) ==
    LET v == V(s.next)
        sides == CASE IsConst(a) /\ StuckSub(b) -> <<<<v, v>>, <<a, b>>>>
                   [] IsConst(b) /\ StuckSub(a) -> <<<<v, v>>, <<b, a>>>>
                   [] OTHER -> <<<<a>>, <<b>>>> IN
    UnifyParts(IF Len(sides[1]) = 2 THEN Parts(s, 1) ELSE s, sides[1], sides[2])

\* unravelBody
UnravelBody(s0, body) ==
    For(s0, 1, Len(body), LAMBDA s, i :
        IF body[i].op = "=" THEN UnravelEquation(s, Chased(s, body[i].a1), Chased(s, body[i].a2))
        ELSE GoalSpread(s, body[i]))

\* setyregs: the permanent variable that is used last is Y0.
SetYRegs(s0) ==
    For(s0, 1, Len(s0.perms), LAMBDA s, i :
        LET p == s.perms[i]
            v == IF IsVar(p) THEN p ELSE s.names[p.n] IN
        BindTo(s, v, Y(Len(s.perms) - i)))

\* unravel and setyregs; start is where the code of the body starts.
AfterHead(h, body)  == [s |-> SetYRegs(UnravelBody(h, body)), start |-> Len(h.code)]
WithPerms(head, p)  == AfterHead(UnravelHead(Start(p.perms), head), p.body)
Unravelled(head, body) == WithPerms(head, PermVars(head, body))
=============================================================================
