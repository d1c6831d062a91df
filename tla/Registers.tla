------------------------------- MODULE Registers -------------------------------
(***************************************************************************)
(* The phases of the compiler that give the variables of the instructions  *)
(* registers (compiler_support.cc, regalloc.cc): the lifetimes of the X    *)
(* registers and of the variables, the registers that save a move, the     *)
(* others in order, and the ones there are too many of in the environment. *)
(***************************************************************************)
EXTENDS Unravel

CONSTANTS NumberXRegisters,     \* NUMBER_X_REGISTERS; the last is for the compiler
          RegisterSize          \* REGISTERSIZE

ASSUME RegistersAssumption ==
    /\ NumberXRegisters \in Nat \ {0}
    /\ RegisterSize \in Nat /\ RegisterSize > NumberXRegisters

LastX == X(NumberXRegisters - 1)

\* unify_ref around a variable or a register, or not
Inner(binds, t) == LET d == Chase(binds, t) IN IF d.k = "ref" THEN Chase(binds, d.t) ELSE d

-----------------------------------------------------------------------------
(* Lifetimes.                                                              *)

\* xreglife::add: the uses of a register start and end its ranges by turns.
AddUse(regs, r, offset) ==
    LET n == Len(regs[r]) IN
    IF n > 0 /\ regs[r][n].end = 0 THEN [regs EXCEPT ![r][n].end = offset]
    ELSE [regs EXCEPT ![r] = Append(@, [start |-> offset, end |-> 0])]

\* A head or a call uses all the registers of its arguments.
AddUses(regs, entry, offset) ==
    CASE entry.k = "x"     -> AddUse(regs, entry.n, offset)
      [] entry.k = "const" -> For(regs, 0, entry.c - 1, LAMBDA r, i : AddUse(r, i, offset))
      [] OTHER             -> regs

\* The life of a variable: from its first use to its last.
RangeOf(entries, n) ==
    LET uses == {i \in DOMAIN entries : entries[i] = V(n)} IN
    [start |-> (CHOOSE i \in uses : \A j \in uses : i <= j) - 1,
     end   |-> (CHOOSE i \in uses : \A j \in uses : i >= j) - 1]

\* build_lifetime
Lifetimes(s) ==
    LET entries == [i \in DOMAIN s.life |-> Inner(s.binds, s.life[i])]
        vars == {entries[i].n : i \in {j \in DOMAIN entries : IsVar(entries[j])}}
        none == [r \in 0 .. RegisterSize - 1 |-> <<>>] IN
    [binds |-> s.binds, code |-> s.code, entries |-> entries, excess |-> FALSE,
     range |-> [n \in vars |-> RangeOf(entries, n)],
     regs  |-> For(none, 1, Len(entries), LAMBDA regs, i : AddUses(regs, entries[i], i - 1))]

-----------------------------------------------------------------------------
(* Allocation.                                                             *)

\* xreglife::addRange succeeds.
FreeFor(a, r, range) ==
    \A i \in DOMAIN a.regs[r] : ~(range.end >= a.regs[r][i].start /\ a.regs[r][i].end >= range.start)

Give(a, v, r) ==
    [a EXCEPT !.binds = [n \in DOMAIN @ \union {v.n} |-> IF n = v.n THEN X(r) ELSE @[n]],
              !.regs[r] = Append(@, a.range[v.n]),
              !.excess = @ \/ r >= NumberXRegisters]

\* prefer_registers_aux: the instruction is no move if both operands are one register.
PreferOne(a, i) ==
    LET t == a.code[i]
        moves == \/ t.op = "get" /\ t.type = "meta" /\ t.mode = "variable"
                 \/ t.op = "put" /\ t.type = "meta"
        v == IF moves THEN Chase(a.binds, t.a3) ELSE Nil
        x == IF moves THEN Chase(a.binds, t.a4) ELSE Nil IN
    IF IsVar(v) /\ x.k = "x" /\ FreeFor(a, x.n, a.range[v.n])
    THEN Give(a, v, x.n) ELSE a

\* prefer_registers: the body from its end, and then the head.
Prefer(a, start) ==
    LET n == Len(a.code) IN
    For(For(a, start + 1, n, LAMBDA b, i : PreferOne(b, n + start + 1 - i)), 1, start, PreferOne)

\* alloc_registers: a variable that is used once needs none.
AllocRegisters(a) ==
    LET one(b, i) ==
            LET v == Chase(b.binds, b.entries[i]) IN
            IF ~IsVar(v) \/ b.range[v.n].start = b.range[v.n].end THEN b
            ELSE LET free == {r \in (0 .. RegisterSize - 1) \ {NumberXRegisters - 1} :
                                FreeFor(b, r, b.range[v.n])} IN
                 Give(b, v, CHOOSE r \in free : \A q \in free : r <= q) IN
    For(a, 1, Len(a.entries), one)

\* An instruction with f applied to its operands.
Operands(t) ==
    CASE t.op \in {"put", "get"}   -> {"a3", "a4"}
      [] t.op \in {"unify", "set"} -> {"a3"}
      [] t.op \in {"piarg"}        -> {"a1", "a2"}
      [] t.op \in {"check_binder", "get_level", "ccut", "psi_life", "unify_ref"} -> {"a1"}
      [] OTHER                     -> {}

Replaced(t, F(_)) ==
    IF t.op = "pseudo_instr" THEN [t EXCEPT !.args = [i \in DOMAIN @ |-> F(@[i])]]
    ELSE [f \in DOMAIN t |-> IF f \in Operands(t) THEN F(t[f]) ELSE t[f]]

\* The operands of an instruction as they are bound.
Final(binds, t) == Replaced(t, LAMBDA o : LET d == Chase(binds, o) IN
                                           IF d.k = "ref" THEN Ref(Chase(binds, d.t)) ELSE d)

\* The instructions, with all that has a register replaced by it.
Allocated(a) == [a EXCEPT !.code = [i \in DOMAIN @ |-> Final(a.binds, @[i])]]

-----------------------------------------------------------------------------
(* Registers in excess.                                                    *)

\* The registers of an instruction, in its order.
RegistersOf(t) ==
    LET inner(o) == IF o.k = "ref" THEN o.t ELSE o IN
    CASE t.op \in {"put", "get"} -> <<inner(t.a3), inner(t.a4)>>
      [] t.op \in {"unify", "set"} -> <<inner(t.a3)>>
      [] t.op = "pseudo_instr" -> t.args
      [] t.op = "piarg" -> <<t.a1, t.a2>>
      [] t.op \in {"check_binder", "get_level", "ccut", "psi_life"} -> <<t.a1>>
      [] OTHER -> <<>>

ToEnvironment(o) == o.k = "y" \/ (o.k = "x" /\ o.n >= NumberXRegisters)

\* The Y registers of a code are numbered from its end, with the excess ones.
YOrder(code) ==
    LET n == Len(code) IN
    For(<<>>, 1, n, LAMBDA seen, i : AddAll(seen, SelectSeq(RegistersOf(code[n + 1 - i]), ToEnvironment)))

Position(q, x) == CHOOSE i \in DOMAIN q : q[i] = x

LastOperand(t) ==
    IF t.op \in {"put", "get"} THEN t.a4 ELSE IF t.op = "check_binder" THEN t.a1 ELSE NoArg

OfSubstitution(t) == t.op = "put" /\ t.type \in {"substitution", "empty_substitution", "sub_term"}

PutLast(y) == PutInstr("meta", "value", y, LastX)
GetLast(y) == GetInstr("meta", "variable", y, LastX)

\* An instruction whose last operand is in the environment works on the last X
\* register: in is how the value gets there, out where it goes then.
RECURSIVE ThroughLast(_, _)
ThroughLast(code, i) ==
    IF i > Len(code) THEN <<>>
    ELSE LET t == code[i]
             y == LastOperand(t)
             last(u) == IF u.op = "check_binder" THEN [u EXCEPT !.a1 = LastX] ELSE [u EXCEPT !.a4 = LastX]
             paired == t.op = "put" /\ i < Len(code) /\ OfSubstitution(code[i + 1]) /\ code[i + 1].a4 = y IN
         CASE y.k # "y" -> <<t>> \o ThroughLast(code, i + 1)
           [] y.k = "y" /\ paired ->
                <<last(t), last(code[i + 1]), GetLast(y)>> \o ThroughLast(code, i + 2)
           [] y.k = "y" /\ ~paired /\ OfSubstitution(t) ->
                <<PutLast(y), last(t), GetLast(y)>> \o ThroughLast(code, i + 1)
           [] y.k = "y" /\ ~paired /\ t.op = "put" /\ ~OfSubstitution(t) ->
                <<last(t), GetLast(y)>> \o ThroughLast(code, i + 1)
           [] OTHER -> <<PutLast(y), last(t)>> \o ThroughLast(code, i + 1)

Moved(order, o) == IF ToEnvironment(o) THEN Y(Position(order, o) - 1) ELSE o

\* The Y registers that stand for X registers have a value from the start.
NewYs(order) ==
    For(<<>>, NumberXRegisters, RegisterSize - 1, LAMBDA q, r :
        IF X(r) \in ToSet(order) THEN <<PutInstr("meta", "variable", Moved(order, X(r)), LastX)>> \o q ELSE q)

\* excess_registers: the X registers that do not exist are Y registers.
ExcessRegisters(a) ==
    LET order == YOrder(a.code)
        move(o) == IF o.k = "ref" THEN Ref(Moved(order, o.t)) ELSE Moved(order, o) IN
    IF ~a.excess THEN a
    ELSE [a EXCEPT !.code = ThroughLast(NewYs(order) \o [i \in DOMAIN @ |-> Replaced(@[i], move)], 1)]

-----------------------------------------------------------------------------
(* Sizes of environments.                                                  *)

\* The Y registers up to the one an instruction uses.
Needs(t) ==
    CASE t.op \in {"put", "get", "unify", "set"} /\ t.a3.k = "y" -> t.a3.n + 1
      [] t.op = "ccut" /\ t.a1.k = "y" -> t.a1.n + 1
      [] OTHER -> 0

Larger(m, n) == IF m > n THEN m ELSE n

\* The number of Y registers that the code from i on uses.
SizeAfter(code, i) ==
    LET from[j \in 1 .. Len(code) + 1] == IF j > Len(code) THEN 0 ELSE Larger(Needs(code[j]), from[j + 1]) IN
    from[i]

\* envsize: the size at a call is for the Y registers used after it.
EnvSize(a) ==
    LET sized(i) ==
            LET t == a.code[i] IN
            CASE t.op = "call_pred" -> [t EXCEPT !.size = SizeAfter(a.code, i + 1)]
              [] t.op \in {"unify", "set"} /\ t.a3.k = "ref" -> One("unify_ref", t.a3.t)
              [] OTHER -> t IN
    [code |-> [i \in DOMAIN a.code |-> sized(i)], size |-> SizeAfter(a.code, 1)]
=============================================================================
