-------------------------------- MODULE Terms --------------------------------
(***************************************************************************)
(* The terms of the runtime with object variables, quantified terms and    *)
(* substitutions (objects.h), and what they mean: the reference that the   *)
(* algorithms on them are checked against.                                 *)
(*                                                                         *)
(* An object variable stands for a variable of the object language, two of *)
(* them may stand for the same one.  A substitution is a list of blocks,   *)
(* the one that is applied first at the head; a block is applied at once,  *)
(* and its first entry counts when two domains are the same.  A value is a *)
(* closed term of the object language, bound variables are levels.         *)
(***************************************************************************)
EXTENDS Integers, Sequences, FiniteSets

Atom(c)              == [k |-> "atom", c |-> c]
Dollar               == Atom("$")
Ov(x)                == [k |-> "ov", x |-> x]
Var(v)               == [k |-> "var", x |-> v]
App(args)            == [k |-> "app", args |-> args]
\* bound is a sequence of object variables, each with its type
Quant(q, bound, body) == [k |-> "quant", q |-> q, bound |-> bound, body |-> body]
Binder(x, type)      == [x |-> x, type |-> type]
Sub(blocks, t)       == [k |-> "sub", blocks |-> blocks, t |-> t]
Range_(dom, ran)     == [dom |-> dom, ran |-> ran]

IsAnyVar(t) == t.k \in {"ov", "var"}

\* A substitution and the term it is applied to (PrologValue).
PV(subs, t) == [subs |-> subs, t |-> t]
AsTerm(pv)  == IF pv.subs = <<>> THEN pv.t ELSE Sub(pv.subs, pv.t)

-----------------------------------------------------------------------------
(* What a term means in a world: ov gives the name each object variable    *)
(* stands for and var the value of each variable.  here says what a name   *)
(* means where the term is, at that depth of bound variables.              *)

Name(n)     == <<"name", n>>
Level(d)    == <<"level", d>>
Constant(c) == <<"atom", c>>
Applied(vs) == <<"app", vs>>

RECURSIVE Renamed(_, _)
Renamed(v, here) ==
    CASE v[1] = "name" -> here[v[2]]
      [] v[1] = "app"  -> Applied([i \in DOMAIN v[2] |-> Renamed(v[2][i], here)])
      [] OTHER         -> v

RECURSIVE ValueOf(_, _, _, _)
RECURSIVE Inside(_, _, _, _)

\* What names mean within the blocks of a substitution, from outside in.
Inside(blocks, w, here, depth) ==
    IF blocks = <<>> THEN here
    ELSE LET out == Inside(Tail(blocks), w, here, depth)
             b   == Head(blocks) IN
         [n \in DOMAIN out |->
            LET is == {i \in DOMAIN b : w.ov[b[i].dom] = n} IN
            IF is = {} THEN out[n]
            ELSE ValueOf(b[CHOOSE i \in is : \A j \in is : i <= j].ran, w, out, depth)]

ValueOf(t, w, here, depth) ==
    CASE t.k = "atom"  -> Constant(t.c)
      [] t.k = "ov"    -> here[w.ov[t.x]]
      [] t.k = "var"   -> Renamed(w.var[t.x], here)
      [] t.k = "app"   -> Applied([i \in DOMAIN t.args |-> ValueOf(t.args[i], w, here, depth)])
      [] t.k = "sub"   -> ValueOf(t.t, w, Inside(t.blocks, w, here, depth), depth)
      [] t.k = "quant" ->
            LET within == [n \in DOMAIN here |->
                             LET is == {i \in DOMAIN t.bound : w.ov[t.bound[i].x] = n} IN
                             IF is = {} THEN here[n] ELSE Level(<<depth, CHOOSE i \in is : TRUE>>)] IN
            <<"quant", ValueOf(t.q, w, here, depth),
              [i \in DOMAIN t.bound |-> ValueOf(t.bound[i].type, w, here, depth)],
              ValueOf(t.body, w, within, depth + 1)>>

Value(t, w) == ValueOf(t, w, [n \in w.names |-> Name(n)], 0)

RECURSIVE FreeNames(_)
FreeNames(v) ==
    CASE v[1] = "name"  -> {v[2]}
      [] v[1] = "app"   -> UNION {FreeNames(v[2][i]) : i \in DOMAIN v[2]}
      [] v[1] = "quant" -> FreeNames(v[2]) \union FreeNames(v[4])
                               \union UNION {FreeNames(v[3][i]) : i \in DOMAIN v[3]}
      [] OTHER          -> {}

FreeIn(x, t, w) == w.ov[x] \in FreeNames(Value(t, w))
=============================================================================
