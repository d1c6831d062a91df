-------------------------------- MODULE Peephole --------------------------------
(***************************************************************************)
(* The last phases of the compiler (regalloc.cc): variables without a      *)
(* register, moves that change nothing, and the instructions around the    *)
(* body.  The phases go through the code once.                             *)
(***************************************************************************)
EXTENDS Registers

-----------------------------------------------------------------------------
(* Variables that have no register.                                        *)

\* a: what is bound; i: the next instruction; out: the new code.
At(a)        == Final(a.binds, a.code[a.i])
Keep(a, t)   == [a EXCEPT !.i = @ + 1, !.out = Append(@, t)]
Drop(a)      == [a EXCEPT !.i = @ + 1]
Binds(a, v, t) == [a EXCEPT !.binds = [n \in DOMAIN @ \union {v.n} |-> IF n = v.n THEN t ELSE @[n]]]

IsVoid(t, op, type) == t.op = op /\ t.type = type /\ IsVar(t.a3)

\* The instructions from i on that fill a place with a new variable.
Voids(a, op, type) ==
    LET n == Len(a.code) - a.i + 1
        all(m) == \A j \in 1 .. m : IsVoid(Final(a.binds, a.code[a.i + j - 1]), op, type) IN
    CHOOSE m \in 1 .. n : all(m) /\ (m = n \/ ~all(m + 1))

\* The two operands are made one; LastX if neither is a register.
Joined(a, t) ==
    LET other == IF IsVar(t.a3) THEN t.a4 ELSE t.a3
        both  == IsVar(t.a3) /\ IsVar(t.a4)
        one   == IF both THEN LastX ELSE other
        b1    == IF IsVar(t.a3) THEN Binds(a, t.a3, one) ELSE a
        b2    == IF IsVar(t.a4) THEN Binds(b1, t.a4, one) ELSE b1 IN
    [a |-> b2, t |-> Final(b2.binds, t)]

\* The put that is to load the argument of a builtin: most often the variable of
\* the builtin is made the same register.
BuiltinArgument(a, t) ==
    LET j == Joined(a, t)
        some == IsVar(t.a3) \/ IsVar(t.a4) IN
    IF some \/ t.a3 = t.a4
    THEN IF (IsVar(t.a3) /\ IsVar(t.a4)) \/ t.mode # "variable" THEN Drop(Drop(j.a)) ELSE Drop(Keep(j.a, j.t))
    ELSE Drop(Keep(a, t))

\* A get that nothing needs; a put that loads an argument of a builtin.
Unneeded(t) == t.op = "get" /\ t.type = "meta" /\ (IsVar(t.a3) \/ IsVar(t.a4))
Loads(a, t) == t.op = "put" /\ a.i < Len(a.code) /\ a.code[a.i + 1].op = "piarg"

RECURSIVE VoidFrom(_)
VoidFrom(a) ==
    IF a.i > Len(a.code) THEN [i \in DOMAIN a.out |-> Final(a.binds, a.out[i])]
    ELSE LET t == At(a)
             j == Joined(a, t)
             spare == Binds(a, t.a4, LastX)
             move == t.op \in {"get", "put"} /\ ~Unneeded(t) /\ ~Loads(a, t) IN
         VoidFrom(
            CASE t.op = "psi_life" \/ Unneeded(t) -> Drop(a)
              [] t.op \in {"unify", "set"} /\ IsVar(t.a3) /\ (t.op = "set" \/ t.type = "meta") ->
                    LET n == Voids(a, t.op, t.type) IN
                    [a EXCEPT !.i = @ + n, !.out = Append(@, Arg(t.op, t.type, "void", C(n)))]
              [] Loads(a, t) -> BuiltinArgument(a, t)
              [] move /\ t.mode = "variable" -> Keep(j.a, j.t)
              [] move /\ t.mode # "variable" /\ IsVar(t.a4) -> Keep(spare, Final(spare.binds, t))
              [] OTHER -> Keep(a, t))

\* voidalloc
VoidAlloc(binds, code) == VoidFrom([binds |-> binds, code |-> code, i |-> 1, out |-> <<>>])

-----------------------------------------------------------------------------
(* Moves that change nothing.                                              *)

Dead    == C("fail")
Nowhere == C("nowhere")
NothingLive == [r \in 0 .. NumberXRegisters - 1 |-> Dead]

SameReg(a, b) == a.k \in {"x", "y"} /\ a = b

MakeLive(live, reg, other) == IF reg.k = "x" THEN [live EXCEPT ![reg.n] = other] ELSE live

MakeDead(live, reg) == IF reg.k = "x" THEN [live EXCEPT ![reg.n] = Dead] ELSE live

\* reverse_make_dead: the first register that has what reg had.
ReverseMakeDead(live, reg) ==
    LET same == {r \in DOMAIN live : SameReg(live[r], reg)} IN
    IF same = {} THEN live ELSE [live EXCEPT ![CHOOSE r \in same : \A q \in same : r <= q] = Dead]

MakePseudoDead(live, reg) == MakeDead(ReverseMakeDead(live, reg), reg)

\* any_assoc_putset: whether the value of reg is used before the next call.
RECURSIVE AnyAssocPutSet(_, _, _)
AnyAssocPutSet(code, i, reg) ==
    IF i > Len(code) THEN FALSE
    ELSE LET t == code[i]
             value(u) == u.type = "meta" /\ u.mode = "value" /\ u.a3 = reg IN
         CASE t.op = "call_pred" -> FALSE
           [] t.op = "get" /\ (t.a4 = reg \/ value(t)) -> TRUE
           [] t.op = "get" /\ t.a4 # reg /\ ~value(t) /\ t.a3 = reg -> FALSE
           [] t.op \in {"unify", "put", "set"} /\ value(t) -> TRUE
           [] t.op \in {"unify", "set"} /\ t.mode = "variable" /\ t.a3 = reg -> FALSE
           [] t.op = "unify_ref" /\ t.a1 = reg -> FALSE
           [] t.op = "put" /\ ~value(t) /\ ~OfSubstitution(t)
                /\ (t.a4 = reg \/ (t.mode = "variable" /\ t.a3 = reg)) -> FALSE
           [] OTHER -> AnyAssocPutSet(code, i + 1, reg)

\* What assn_elim knows after instruction i, of what it knew before.
LiveAfter(live, code, i) ==
    LET t == code[i]
        dead2 == MakeDead(MakeDead(live, t.a3), t.a4)
        meta(mode) == t.type = "meta" /\ t.mode = mode
        again == /\ t.a3 = t.a4 /\ i < Len(code) /\ code[i + 1].op \in {"put", "get"} /\ code[i + 1].a4 = t.a3 IN
    CASE t.op = "call_pred" -> NothingLive
      [] t.op = "get" /\ meta("variable") ->
            IF t.a4.k = "x" /\ t.a4 # LastX /\ t.a3.k = "y" THEN MakeLive(live, t.a4, t.a3)
            ELSE IF t.a3.k = "x" THEN MakeLive(ReverseMakeDead(live, t.a3), t.a3, t.a4)
            ELSE MakeDead(live, t.a4)
      [] t.op = "get" /\ meta("value") -> MakeDead(live, t.a4)
      [] t.op = "get" /\ t.type = "object" -> dead2
      [] t.op = "put" /\ meta("variable") /\ ~again -> dead2
      [] t.op = "put" /\ meta("value") ->
            IF t.a4.k # "x" THEN MakeDead(live, t.a3)
            ELSE IF live[t.a4.n] = Dead \/ SameReg(live[t.a4.n], t.a3) \/ t.a3 = t.a4 THEN live
            ELSE MakeDead(live, t.a4)
      [] t.op = "put" /\ ~OfSubstitution(t) /\ t.type # "meta" -> dead2
      [] t.op = "unify" /\ meta("variable") -> MakeLive(live, t.a3, Nowhere)
      [] t.op = "unify_ref" -> MakeLive(live, t.a1, Nowhere)
      [] t.op = "set" /\ ~meta("value") -> MakeDead(live, t.a3)
      [] t.op = "pseudo_instr" ->
            For(live, 1, Len(t.args), LAMBDA l, j : IF t.outs[j] THEN MakePseudoDead(l, t.args[j]) ELSE l)
      [] OTHER -> live

\* Whether assn_elim leaves instruction i out.
Eliminated(live, code, i) ==
    LET t == code[i] IN
    \/ /\ t.op = "get" /\ t.type = "meta" /\ t.mode = "variable" /\ t.a3.k = "x"
       /\ ~AnyAssocPutSet(code, i + 1, t.a3)
    \/ /\ t.op = "put" /\ t.type = "meta" /\ t.mode = "value" /\ t.a4.k = "x"
       /\ SameReg(live[t.a4.n], t.a3)

\* assn_elim
AssnElim(code) ==
    For([live |-> NothingLive, out |-> <<>>], 1, Len(code), LAMBDA s, i :
        [live |-> LiveAfter(s.live, code, i),
         out  |-> IF Eliminated(s.live, code, i) THEN s.out ELSE Append(s.out, code[i])]).out

-----------------------------------------------------------------------------
(* The instructions around the body.                                       *)

Allocate(n)  == [op |-> "allocate", n |-> n]
Deallocate   == [op |-> "deallocate"]
Proceed      == [op |-> "proceed"]
NeckCut      == [op |-> "neck_cut"]
Execute(t)   == [t EXCEPT !.op = "execute_pred"]

\* alloc_needed
AllocNeeded(t) ==
    \/ t.op = "call_pred"
    \/ t.op \in {"get_level", "unify_ref"} /\ t.a1.k = "y"
    \/ t.op \in {"get", "put", "unify", "set"} /\ t.a3.k = "y"

\* p: the code, the next instruction i, whether there is an environment, the new code.
WithEnv(p, size) == IF p.alloc THEN p ELSE [p EXCEPT !.alloc = TRUE, !.out = Append(@, Allocate(size))]
Out(p, t)  == [p EXCEPT !.i = @ + 1, !.out = Append(@, t)]
Skip(p)    == [p EXCEPT !.i = @ + 1]
Leaving(p) == IF p.alloc THEN Append(p.out, Deallocate) ELSE p.out

GetLevel(p, size) ==
    LET cut == p.code[p.i + 1].op = "ccut"
        q == IF cut THEN Skip([p EXCEPT !.out = Append(@, NeckCut)]) ELSE p
        more == \E j \in q.i + 1 .. Len(q.code) : q.code[j].op = "ccut" IN
    IF p.code[p.i].a1.k = "y" /\ more THEN Out(WithEnv(q, size), p.code[p.i]) ELSE Skip(q)

\* A new variable that the next instruction loads over, or that it stores.
NewVariable(p, t) ==
    LET next == p.code[p.i + 1]
        same == next.op \in {"put", "get"} /\ t.a3.k = "x" /\ next.a4 = t.a3 IN
    IF same /\ next.op = "get" /\ next.type \notin {"structure", "list"}
    THEN [Skip(p) EXCEPT !.code[p.i + 1].op = "put"]
    ELSE IF same /\ next.op = "put" /\ ~OfSubstitution(next)
            /\ ~(next.type = "meta" /\ next.mode = "value" /\ next.a3 = t.a3)
    THEN Skip(p)
    ELSE Out(p, IF t.a3.k = "y" THEN [t EXCEPT !.a4 = LastX] ELSE t)

Plain(p, t) ==
    CASE t.op = "put" /\ t.type = "meta" /\ t.mode = "variable" /\ t.a3 = t.a4 /\ p.i < Len(p.code) -> NewVariable(p, t)
      [] t.op \in {"put", "get"} /\ t.mode = "value" /\ t.a3 = t.a4 -> Skip(p)
      [] t.op = "get" /\ t.type = "meta" /\ t.mode = "variable" /\ t.a3 = t.a4 /\ t.a3.k = "x" -> Skip(p)
      [] t.op = "check_binder" /\ t.a1.k = "y" ->
            Out([p EXCEPT !.out = Append(@, PutInstr("meta", "value", t.a1, LastX))], One("check_binder", LastX))
      [] OTHER -> Out(p, t)

RECURSIVE PeepholeFrom(_, _)
PeepholeFrom(p, size) ==
    IF p.i > Len(p.code) THEN Append(Leaving(p), Proceed)
    ELSE LET t == p.code[p.i]
             q == IF AllocNeeded(t) THEN WithEnv(p, size) ELSE p IN
         CASE t.op = "call_pred" /\ p.i = Len(p.code) -> Append(Leaving(p), Execute(t))
           [] t.op = "get_level" /\ p.i < Len(p.code) -> PeepholeFrom(GetLevel(p, size), size)
           [] t.op = "fail" -> Append(q.out, t)
           [] OTHER -> PeepholeFrom(Plain(q, t), size)

\* peephole
Peepholed(code, size) == PeepholeFrom([code |-> code, i |-> 1, alloc |-> FALSE, out |-> <<>>], size)

-----------------------------------------------------------------------------
\* psi_ccompile: the phases in their order.
AfterSizes(a, e)     == Peepholed(AssnElim(VoidAlloc(a.binds, e.code)), e.size)
AfterAllocation(a)   == AfterSizes(a, EnvSize(ExcessRegisters(Allocated(a))))
AfterUnravel(u)      == AfterAllocation(AllocRegisters(Prefer(Lifetimes(u.s), u.start)))
Compiled(head, body) == AfterUnravel(Unravelled(head, body))
=============================================================================
