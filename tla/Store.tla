------------------------------- MODULE Store -------------------------------
(***************************************************************************)
(* The heap of a thread with its binding trail and its other trail         *)
(* (trail.h), and what the machine does to terms on it: dereferencing,     *)
(* binding (bind.h) and unification (unify.cc) of terms without binders    *)
(* and substitutions.                                                      *)
(*                                                                         *)
(* A store is a record.  Its heap is a sequence of objects, so an address  *)
(* is the number of an object and the order of addresses, which the trails *)
(* depend on, is kept.  A word is a constant, the address of an object, or *)
(* a place within a structure that is still to be filled in.               *)
(***************************************************************************)
EXTENDS Integers, Sequences, FiniteSets, SequencesExt

Con(c)     == <<"con", c>>
Ref(a)     == <<"ref", a>>
Slot(a, i) == <<"slot", a, i>>
NoWord     == <<"none">>
NilWord    == Con("[]")

IsRef(w)  == w[1] = "ref"
IsSlot(w) == w[1] = "slot"

\* A variable that is unbound refers to itself; oc is the tag VarOCTag.  A
\* structure has its functor and arguments, a list its head and tail.
Variable(a, oc)    == [kind |-> "var", args |-> <<Ref(a)>>, oc |-> oc]
Structure(kind, ws) == [kind |-> kind, args |-> ws, oc |-> FALSE]
Number(n)          == [kind |-> "num", args |-> <<<<"num", n>>>>, oc |-> FALSE]

\* heap.getTop() and heap.getSavedTop().
HeapTop(s) == Len(s.heap) + 1

EmptyStore == [heap |-> <<>>, saved |-> 1, trail |-> <<>>, tags |-> <<>>]

New(s, object) == [s EXCEPT !.heap = Append(@, object)]

\* heap.newVariable, and setOccursCheck on n new ones for a structure.
NewVariables(s, n, oc) ==
    [s EXCEPT !.heap = @ \o [i \in 1 .. n |-> Variable(Len(@) + i, oc)]]

-----------------------------------------------------------------------------
(* Dereferencing, binding and the trails.                                  *)

IsVar(s, w)     == IsRef(w) /\ s.heap[w[2]].kind = "var"
IsUnbound(s, w) == IsVar(s, w) /\ s.heap[w[2]].args[1] = w

RECURSIVE Deref(_, _)
Deref(s, w) == IF IsVar(s, w) /\ ~IsUnbound(s, w) THEN Deref(s, s.heap[w[2]].args[1]) ELSE w

Kind(s, w) == IF IsRef(w) THEN s.heap[w[2]].kind ELSE "con"

\* A bug the next definition avoids: what is as old as the saved top is newer.
IsOld_older(s, a) == a < s.saved - 1

\* It is before the top that the newest choice point saved.
IsOld(s, a) == a < s.saved

\* bindAndTrail
Bind(s, a, w) ==
    [s EXCEPT !.heap[a].args = <<w>>, !.trail = IF IsOld(s, a) THEN Append(@, a) ELSE @]

\* bindVarVar
BindVars(s, a, b) ==
    IF a >= s.saved THEN [s EXCEPT !.heap[a].args = <<Ref(b)>>]
    ELSE IF b >= s.saved THEN [s EXCEPT !.heap[b].args = <<Ref(a)>>]
    ELSE Bind(s, a, Ref(b))

\* The entries of the other trail: a tag that was changed, or a predicate that
\* is referred to.
TagEntry(a, old) == [kind |-> "tag", addr |-> a, old |-> old, pred |-> ""]
PredEntry(p)     == [kind |-> "pred", addr |-> 0, old |-> FALSE, pred |-> p]

\* UpdatableTagEntry::tidy and PredRefEntry::tidy: is the entry not needed, if
\* older are those before it that the choice point, with its heap top, has not?
Tidy(entry, older, top) ==
    \/ entry.kind = "pred"
    \/ entry.addr = 0
    \/ entry.addr >= top
    \/ \E i \in DOMAIN older : older[i].kind = "tag" /\ older[i].addr = entry.addr

\* trailTag and setOccursCheck, of a variable that is not tagged; top and n are
\* the heap top and the length of the other trail that the choice point saved.
MarkOccurs(s, a, top, n) ==
    LET entry == TagEntry(a, s.heap[a].oc) IN
    [s EXCEPT !.heap[a].oc = TRUE,
              !.tags = IF Tidy(entry, SubSeq(@, n + 1, Len(@)), top) THEN @ ELSE Append(@, entry)]

\* BindingTrail::backtrackTo
UndoBindings(s, n) ==
    LET undone == {s.trail[i] : i \in n + 1 .. Len(s.trail)} IN
    [s EXCEPT !.heap = [a \in DOMAIN @ |-> IF a \in undone THEN [@[a] EXCEPT !.args = <<Ref(a)>>]
                                                           ELSE @[a]],
              !.trail = SubSeq(@, 1, n)]

\* OtherTrail::backtrackTo; the oldest entry of a tag is undone last.
UndoTags(s, n) ==
    LET entries(a) == {i \in n + 1 .. Len(s.tags) : s.tags[i].kind = "tag" /\ s.tags[i].addr = a} IN
    [s EXCEPT !.heap = [a \in DOMAIN @ |->
                            IF entries(a) = {} THEN @[a]
                            ELSE [@[a] EXCEPT !.oc = s.tags[Min(entries(a))].old]],
              !.tags = SubSeq(@, 1, n)]

\* Thread::backtrackTo(HeapAndTrailsChoice).  The heap is cut first in the code;
\* an entry of a trail never is above the top that was saved with it.
BacktrackTo(s, top, n, k) ==
    LET undone == UndoTags(UndoBindings(s, n), k) IN
    [undone EXCEPT !.heap = SubSeq(@, 1, top - 1), !.saved = top]

\* Thread::tidyTrails, after a choice point was removed: entries that the one
\* below, with these tops, does not need are dropped.
TidyTrails(s, top, n, k) ==
    LET bindings == SubSeq(s.trail, n + 1, Len(s.trail))
        entries  == SubSeq(s.tags, k + 1, Len(s.tags))
        kept     == SelectSeq([i \in DOMAIN entries |-> i],
                        LAMBDA i : ~Tidy(entries[i], SubSeq(entries, 1, i - 1), top)) IN
    [s EXCEPT !.trail = SubSeq(@, 1, n) \o SelectSeq(bindings, LAMBDA a : a < top),
              !.tags = SubSeq(@, 1, k) \o [i \in DOMAIN kept |-> entries[kept[i]]],
              !.saved = top]

-----------------------------------------------------------------------------
(* Unification.                                                            *)

\* A bug the next definition avoids: a term is bound to one that contains it.
OccursIn_never(s, a, w) == FALSE

\* occursCheck, where there are no substitutions.
RECURSIVE OccursIn(_, _, _)
OccursIn(s, a, w) ==
    LET d == Deref(s, w) IN
    /\ IsRef(d)
    /\ \/ d = Ref(a)
       \/ ~IsVar(s, d) /\ \E i \in DOMAIN s.heap[d[2]].args : OccursIn(s, a, s.heap[d[2]].args[i])

\* One pair of terms that are dereferenced and differ: the store if they unify
\* now, and the pairs that are left to unify.
UnifyVar(s, a, d) ==
    IF ~IsVar(s, d) /\ s.heap[a].oc /\ OccursIn(s, a, d)
    THEN [ok |-> FALSE, store |-> s, left |-> <<>>]
    ELSE [ok |-> TRUE, left |-> <<>>, store |->
            IF ~IsVar(s, d) THEN Bind(s, a, d)
            ELSE IF s.heap[a].oc = s.heap[d[2]].oc THEN BindVars(s, a, d[2])
            ELSE IF s.heap[a].oc THEN Bind(s, d[2], Ref(a))
            ELSE Bind(s, a, d)]

UnifyPair(s, d, e) ==
    IF IsVar(s, d) THEN UnifyVar(s, d[2], e)
    ELSE IF IsVar(s, e) THEN UnifyVar(s, e[2], d)
    ELSE IF ~IsRef(d) \/ ~IsRef(e) THEN [ok |-> FALSE, store |-> s, left |-> <<>>]
    ELSE LET o == s.heap[d[2]]
             p == s.heap[e[2]] IN
         [ok |-> o.kind = p.kind /\ Len(o.args) = Len(p.args) /\ (o.kind = "num" => o = p),
          store |-> s,
          left |-> IF o.kind \in {"str", "cons"} THEN Zip(o.args, p.args) ELSE <<>>]

\* Thread::unify: pairs are taken from the left, arguments before what follows.
RECURSIVE UnifyAll(_, _)
UnifyAll(s, pairs) ==
    IF pairs = <<>> THEN [ok |-> TRUE, store |-> s]
    ELSE LET d == Deref(s, Head(pairs)[1])
             e == Deref(s, Head(pairs)[2])
             r == UnifyPair(s, d, e) IN
         IF d = e THEN UnifyAll(s, Tail(pairs))
         ELSE IF r.ok THEN UnifyAll(r.store, r.left \o Tail(pairs))
         ELSE [ok |-> FALSE, store |-> r.store]

Unify(s, v, w) == UnifyAll(s, <<<<v, w>>>>)

\* ==, for terms without delays: the same term (equal.cc).
RECURSIVE Same(_, _, _)
Same(s, v, w) ==
    LET d == Deref(s, v)
        e == Deref(s, w) IN
    \/ d = e
    \/ /\ IsRef(d) /\ IsRef(e) /\ ~IsVar(s, d) /\ ~IsVar(s, e)
       /\ LET o == s.heap[d[2]]
              p == s.heap[e[2]] IN
          /\ o.kind = p.kind /\ Len(o.args) = Len(p.args)
          /\ IF o.kind = "num" THEN o = p
             ELSE \A i \in DOMAIN o.args : Same(s, o.args[i], p.args[i])

-----------------------------------------------------------------------------
(* What the properties and the answers see of a store.                     *)

\* The term a word stands for, variables by their address.
RECURSIVE TermOf(_, _), TermsOf(_, _)
TermOf(s, w) ==
    LET d == Deref(s, w) IN
    IF IsVar(s, d) THEN <<"v", d[2]>>
    ELSE IF ~IsRef(d) THEN <<"c", d[2]>>
    ELSE LET o == s.heap[d[2]] IN
         CASE o.kind = "cons" -> <<"s", ".", TermOf(s, o.args[1]), TermOf(s, o.args[2])>>
           [] o.kind = "num"  -> <<"n", o.args[1][2]>>
           [] OTHER -> <<"s", Deref(s, o.args[1])[2]>> \o TermsOf(s, Tail(o.args))
TermsOf(s, ws) == IF ws = <<>> THEN <<>> ELSE <<TermOf(s, Head(ws))>> \o TermsOf(s, Tail(ws))

\* What an object's words refer to.
Children(s, a) ==
    IF s.heap[a].kind = "num" THEN {}
    ELSE {w[2] : w \in {v \in ToSet(s.heap[a].args) : IsRef(v)}} \ {a}

\* The objects that can be reached from a set of addresses.
RECURSIVE Reached(_, _, _)
Reached(s, frontier, found) ==
    IF frontier = {} THEN found
    ELSE LET all == found \union frontier IN
         Reached(s, (UNION {Children(s, a) : a \in frontier}) \ all, all)
=============================================================================
