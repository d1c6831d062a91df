----------------------------- MODULE Collector -----------------------------
(***************************************************************************)
(* The garbage collector of a thread's heap (gc.cc, gc_escapes.cc).  It    *)
(* runs at a call, when only the arguments of the call, the environments   *)
(* and the choice points refer to the heap.  Objects that can be reached   *)
(* are marked and slid down, in their order; where a choice point saved    *)
(* the top of the heap something is kept, to mark the place.               *)
(*                                                                         *)
(* A thread's data areas are a record: its store, its X registers, its     *)
(* environments (frames at their locations, each with the one before it)   *)
(* and its choice points.                                                  *)
(***************************************************************************)
EXTENDS Store

\* The environments from one on, as gc_mark_environments walks them.
RECURSIVE EnvChain(_, _)
EnvChain(frames, loc) ==
    {loc} \union (IF loc = 0 \/ loc \notin DOMAIN frames THEN {}
                  ELSE EnvChain(frames, frames[loc].prev))

LiveFrames(m) ==
    EnvChain(m.envs.frames, m.envs.cur)
        \union UNION {EnvChain(m.envs.frames, m.choices[i].env) : i \in DOMAIN m.choices}

\* A Y register that was set after a choice point still has its word when the
\* machine is back there: one that is above the top of the heap is passed over.
Addresses(m, words) == {w[2] : w \in {v \in words : IsRef(v)}} \intersect DOMAIN m.store.heap

\* gc_mark_registers, gc_mark_environments and gc_mark_choicepoints
FromRegisters(m, arity) == Addresses(m, {m.X[i] : i \in 0 .. arity - 1})
FromFrames(m) ==
    Addresses(m, UNION {{m.envs.frames[e].y[i] : i \in DOMAIN m.envs.frames[e].y} : e \in LiveFrames(m)})

FromChoices(m) == Addresses(m, UNION {ToSet(m.choices[i].args) : i \in DOMAIN m.choices})

\* gc_marking_phase
Marked(m, arity) ==
    Reached(m.store, FromRegisters(m, arity) \union FromFrames(m) \union FromChoices(m), {})

\* What is slid down: what is marked, and what is at the saved tops.
Kept(m, marked) ==
    marked \union (({m.choices[i].heap : i \in DOMAIN m.choices} \union {m.store.saved})
                        \intersect DOMAIN m.store.heap)

\* update_forward_pointers and update_backward_pointers
NewPlace(kept, a) == Cardinality({k \in kept : k < a}) + 1
MoveWord(kept, w) == IF IsRef(w) /\ w[2] \in kept THEN Ref(NewPlace(kept, w[2])) ELSE w
MoveWords(kept, ws) == [i \in DOMAIN ws |-> MoveWord(kept, ws[i])]

SlideHeap(s, marked, kept) ==
    [i \in 1 .. Cardinality(kept) |->
        LET a == CHOOSE k \in kept : NewPlace(kept, k) = i IN
        IF a \in marked THEN [s.heap[a] EXCEPT !.args = MoveWords(kept, @)] ELSE Number(0)]

\* gc_sweep_trail: entries of the other trail for what is gone are cleared.
SweepTrail(s, marked, kept) ==
    [s EXCEPT !.trail = [i \in DOMAIN @ |-> NewPlace(kept, @[i])],
              !.tags = [i \in DOMAIN @ |->
                            IF @[i].kind = "pred" THEN @[i]
                            ELSE [@[i] EXCEPT !.addr = IF @ \in marked THEN NewPlace(kept, @) ELSE 0]],
              !.saved = NewPlace(kept, @)]

\* Thread::gc(arity)
Collect(m, arity) ==
    LET marked == Marked(m, arity)
        kept   == Kept(m, marked)
        live   == LiveFrames(m) IN
    [store |-> [SweepTrail(m.store, marked, kept) EXCEPT !.heap = SlideHeap(m.store, marked, kept)],
     X |-> [i \in DOMAIN m.X |-> IF i < arity THEN MoveWord(kept, m.X[i]) ELSE NilWord],
     envs |-> [m.envs EXCEPT !.frames = [e \in DOMAIN @ |->
                    IF e \in live THEN [@[e] EXCEPT !.y = MoveWords(kept, @)] ELSE @[e]]],
     choices |-> [i \in DOMAIN m.choices |->
                    [m.choices[i] EXCEPT !.args = MoveWords(kept, @), !.heap = NewPlace(kept, @)]]]
=============================================================================
