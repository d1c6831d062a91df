------------------------------ MODULE Machine ------------------------------
(***************************************************************************)
(* The abstract machine of a thread (execute.cc): its instructions on the  *)
(* argument registers X, the heap and trails (Store), the environments and *)
(* the choice points, with calls that are interrupted and tried again,     *)
(* garbage collections, dynamic predicates and goals thrown into the       *)
(* thread from another one.                                                *)
(*                                                                         *)
(* The model leaves out terms with binders or substitutions, delayed goals *)
(* (no fast retry happens), cleanup goals and undefined predicates.  An    *)
(* operand register is <<"x", i>> or <<"y", i>>: both opcodes of a pair    *)
(* are one action, and so are a call by name and the call by address that  *)
(* the machine replaces it with.                                           *)
(***************************************************************************)
EXTENDS Collector, Resolution, TLC

CONSTANTS
    Code,               \* the instructions at each label
    Arity,              \* the arity of each predicate
    Dynamic,            \* the labels of the clauses of each dynamic predicate
    Escapes,            \* whether each escape predicate succeeds
    Queries,            \* the goals that a thread is started with
    Expected,           \* the answers to each of them
    MaxX,               \* number of X registers
    MaxCollections, MaxInterruptions, MaxThrows,    \* bounds
    ThrowInto           \* when a goal is thrown: statuses of the thread

VARIABLES
    pc,                 \* programCounter
    X,                  \* the X registers
    mode,               \* ReadMode, StructurePointer and saveTerm
    store,              \* heap and trails
    envs,               \* envStack and currentEnvironment
    cont,               \* continuationInstr
    choices,            \* choiceStack; the last is currentChoicePoint
    cutPoint,           \* cutPoint, as a number of choice points
    restart,            \* restart_status.IsRestart()
    status,             \* is the thread running, parked, or gone
    query, answers,     \* the goal, and what was found so far
    spent               \* what happened of what is bounded

abstract == <<query, answers>>
control  == <<cont, choices, cutPoint>>
outside  == <<restart, status, query, answers, spent>>
vars     == <<pc, X, mode, store, envs, cont, choices, cutPoint, outside>>

\* failblock (qem.cc), and where a thread ends.
SystemCode ==
    [failblock |-> <<<<"trust", "failing">>>>, failing |-> <<<<"fail">>>>, exit |-> <<<<"exit">>>>]

Ins       == IF pc.at \in DOMAIN SystemCode THEN SystemCode[pc.at][pc.i] ELSE Code[pc.at][pc.i]
\* The opcode, if the thread is running.
Op        == IF status = "running" THEN Ins[1] ELSE "none"
At(label) == [at |-> label, i |-> 1]
Following == [pc EXCEPT !.i = @ + 1]

-----------------------------------------------------------------------------
(* Registers, environments and choice points.                              *)

Reg(r) == IF r[1] = "x" THEN X[r[2]] ELSE envs.frames[envs.cur].y[r[2]]

SetReg(r, w) ==
    IF r[1] = "x" THEN X' = [X EXCEPT ![r[2]] = w] /\ UNCHANGED envs
    ELSE envs' = [envs EXCEPT !.frames[envs.cur].y[r[2]] = w] /\ UNCHANGED X

\* envSize: the fixed fields, the Y registers and the link of the record.
EnvSize(n) == n + 3

Frame(prev, k, n, loc) ==
    [prev |-> prev, cont |-> k, n |-> n, y |-> [i \in 0 .. n - 1 |-> NoWord], end |-> loc + EnvSize(n)]

\* isEnvProtected and getEnvTop, of the newest choice point.
Protected(cs, loc) == loc < Last(cs).envTop

EnvTopOf(cs, ev) ==
    IF Protected(cs, ev.cur) THEN Last(cs).envTop ELSE ev.cur + EnvSize(ev.frames[ev.cur].n)
EnvTop == EnvTopOf(choices, envs)

\* envStack.push; what the new frame overwrites is gone.
PushFrame(k, n) ==
    LET left == {e \in DOMAIN envs.frames : e + EnvSize(envs.frames[e].n) - 1 <= EnvTop} IN
    [cur |-> EnvTop, top |-> EnvTop + EnvSize(n),
     frames |-> [e \in left \union {EnvTop} |->
                    IF e = EnvTop THEN Frame(envs.cur, k, n, EnvTop) ELSE envs.frames[e]]]

\* isTopEnv and trim: the record is cut, to a size with one word more than that
\* with which it would have been pushed.
Trimmed(n) ==
    LET f == envs.frames[envs.cur] IN
    IF f.end = envs.top /\ ~Protected(choices, envs.cur) /\ f.n # n
    THEN [envs EXCEPT !.top = envs.cur + EnvSize(n) + 1,
                      !.frames[envs.cur] = [f EXCEPT !.n = n, !.end = envs.cur + EnvSize(n) + 1,
                                                     !.y = [i \in 0 .. n - 1 |-> @[i]]]]
    ELSE envs

\* The Y registers that are set in the environments that a choice point or a
\* call comes back to.
RegistersSet(m) ==
    LET live == EnvChain(m.envs.frames, m.envs.cur) IN
    {<<e, i>> \in live \X (0 .. MaxX - 1) :
        /\ i \in DOMAIN m.envs.frames[e].y
        /\ LET w == m.envs.frames[e].y[i] IN IsRef(w) => w[2] \in DOMAIN m.store.heap
        /\ m.envs.frames[e].y[i] # NoWord}

\* Their terms and those of the arguments, whatever the names of variables.
TermsKept(s, frames, args, regs) ==
    Canonical(<<"s", "kept">> \o TermsOf(s, args) \o
        TermsOf(s, [k \in DOMAIN regs |->
                        IF regs[k][1] \in DOMAIN frames /\ regs[k][2] \in DOMAIN frames[regs[k][1]].y
                        THEN frames[regs[k][1]].y[regs[k][2]] ELSE Con("gone")]))

\* assignChoicePoint.  What backtracking has to restore is noted: was are the
\* terms of the arguments and of the Y registers regs.
Choice(m, k, cut, next, arity, time, rest) ==
    LET args == [i \in 1 .. arity |-> m.X[i - 1]]
        regs == SetToSeq(RegistersSet(m)) IN
    [next |-> next, cont |-> k, cut |-> cut, args |-> args, time |-> time, rest |-> rest,
     env |-> m.envs.cur, envTop |-> EnvTopOf(m.choices, m.envs),
     heap |-> HeapTop(m.store), trail |-> Len(m.store.trail), tags |-> Len(m.store.tags),
     regs |-> regs, was |-> TermsKept(m.store, m.envs.frames, args, regs)]

SaveTop(s) == [s EXCEPT !.saved = HeapTop(s)]

PushChoice(next, arity) ==
    /\ choices' = Append(choices, Choice([X |-> X, envs |-> envs, store |-> store, choices |-> choices],
                                         cont, cutPoint, next, arity, 0, <<>>))
    /\ store' = SaveTop(store)

\* choiceStack.cut and tidyTrails, and the pop of one choice point.
DownTo(s, cs, n) ==
    IF Len(cs) > n
    THEN [choices |-> SubSeq(cs, 1, n), store |-> TidyTrails(s, cs[n].heap, cs[n].trail, cs[n].tags)]
    ELSE [choices |-> cs, store |-> s]

\* backtrackTo(Choice*)
Undone(s, c) == BacktrackTo(s, c.heap, c.trail, c.tags)
Restored(c) ==
    /\ X' = [i \in DOMAIN X |-> IF i < Len(c.args) THEN c.args[i + 1] ELSE X[i]]
    /\ cont' = c.cont
    /\ envs' = [envs EXCEPT !.cur = c.env, !.top = c.envTop]

\* A bug the next definition avoids: cuts of the next clause are not those of
\* the goal that it is a clause for.
BacktrackIn_keepscut(s, cs) ==
    LET c == Last(cs) IN
    /\ UNCHANGED <<mode, status, abstract, spent, cutPoint>>
    /\ IF c.time <= 0
       THEN /\ pc' = c.next
            /\ store' = s /\ choices' = cs
            /\ UNCHANGED <<X, envs, cont>>
       ELSE /\ pc' = At(Head(c.rest))
            /\ store' = Undone(s, c)
            /\ Restored(c)
            /\ choices' = IF Len(c.rest) = 1 THEN Front(cs) ELSE [cs EXCEPT ![Len(cs)].rest = Tail(@)]

\* Backtrack and DBBacktrack: the next clause of a static predicate restores
\* the state itself; that of a dynamic one is entered here, and the last one
\* without its choice point.
BacktrackIn(s, cs) ==
    LET c == Last(cs) IN
    /\ UNCHANGED <<mode, status, abstract, spent>>
    /\ IF c.time <= 0
       THEN /\ pc' = c.next
            /\ cutPoint' = c.cut
            /\ store' = s /\ choices' = cs
            /\ UNCHANGED <<X, envs, cont>>
       ELSE /\ pc' = At(Head(c.rest))
            /\ store' = Undone(s, c)
            /\ Restored(c)
            /\ choices' = IF Len(c.rest) = 1 THEN Front(cs) ELSE [cs EXCEPT ![Len(cs)].rest = Tail(@)]
            /\ cutPoint' = Last(choices').cut

Backtrack(s) == BacktrackIn(s, choices)

Failing(s) == Backtrack(s) /\ UNCHANGED restart

\* An instruction on terms that succeeds.
Onward(s) == pc' = Following /\ store' = s /\ UNCHANGED <<control, outside>>

-----------------------------------------------------------------------------
(* Instructions that build the arguments of goals.                         *)

NewRef    == Ref(HeapTop(store))
Blank(kind, n) == Structure(kind, [i \in 1 .. n |-> NoWord])

PutVariable ==                  \* put_x_variable, put_y_variable
    /\ Op = "put_variable"
    /\ Onward(NewVariables(store, 1, FALSE))
    /\ IF Ins[2][1] = "x"
       THEN X' = [X EXCEPT ![Ins[2][2]] = NewRef, ![Ins[3]] = NewRef] /\ UNCHANGED envs
       ELSE /\ X' = [X EXCEPT ![Ins[3]] = NewRef]
            /\ envs' = [envs EXCEPT !.frames[envs.cur].y[Ins[2][2]] = NewRef]
    /\ UNCHANGED mode

PutValue ==
    /\ Op = "put_value"
    /\ X' = [X EXCEPT ![Ins[3]] = Reg(Ins[2])]
    /\ Onward(store)
    /\ UNCHANGED <<envs, mode>>

PutConstant ==
    /\ Op = "put_constant"
    /\ X' = [X EXCEPT ![Ins[3]] = Con(Ins[2])]
    /\ Onward(store)
    /\ UNCHANGED <<envs, mode>>

PutInteger ==
    /\ Op = "put_integer"
    /\ X' = [X EXCEPT ![Ins[3]] = NewRef]
    /\ Onward(New(store, Number(Ins[2])))
    /\ UNCHANGED <<envs, mode>>

PutList ==
    /\ Op = "put_list"
    /\ X' = [X EXCEPT ![Ins[2]] = NewRef]
    /\ mode' = [mode EXCEPT !.at = HeapTop(store), !.i = 1]
    /\ Onward(New(store, Blank("cons", 2)))
    /\ UNCHANGED envs

PutStructure ==                 \* the functor is set by the next instruction
    /\ Op = "put_structure"
    /\ X' = [X EXCEPT ![Ins[3]] = NewRef]
    /\ mode' = [mode EXCEPT !.at = HeapTop(store), !.i = 1]
    /\ Onward(New(store, Blank("str", Ins[2] + 1)))
    /\ UNCHANGED envs

\* The word at StructurePointer, and the words from it on being filled in.
Word       == store.heap[mode.at].args[mode.i]
Filled(s, w) == [s EXCEPT !.heap[mode.at].args[mode.i] = w]
Advanced(n)  == mode' = [mode EXCEPT !.i = @ + n]

\* n new variables that are filled in, with the tag that asks for the check.
FilledVoids(n) ==
    LET s == NewVariables(store, n, TRUE) IN
    [s EXCEPT !.heap[mode.at].args =
        [i \in DOMAIN @ |-> IF i \in mode.i .. mode.i + n - 1
                            THEN Ref(HeapTop(store) + i - mode.i) ELSE @[i]]]

\* trailTag and setOccursCheck on a variable that gets into a structure.
CheckedLater(s, w) ==
    IF IsVar(s, w) /\ ~s.heap[w[2]].oc
    THEN MarkOccurs(s, w[2], Last(choices).heap, Last(choices).tags)
    ELSE s

SetVariable ==
    /\ Op = "set_variable"
    /\ SetReg(Ins[2], NewRef)
    /\ Onward(FilledVoids(1))
    /\ Advanced(1)

SetValue ==
    /\ Op = "set_value"
    /\ LET w == Deref(store, Reg(Ins[2])) IN Onward(Filled(CheckedLater(store, w), w))
    /\ Advanced(1)
    /\ UNCHANGED <<X, envs>>

SetConstant ==
    /\ Op = "set_constant"
    /\ Onward(Filled(store, Con(Ins[2])))
    /\ Advanced(1)
    /\ UNCHANGED <<X, envs>>

SetInteger ==
    /\ Op = "set_integer"
    /\ Onward(New(Filled(store, NewRef), Number(Ins[2])))
    /\ Advanced(1)
    /\ UNCHANGED <<X, envs>>

SetVoid ==
    /\ Op = "set_void"
    /\ Onward(FilledVoids(Ins[2]))
    /\ Advanced(Ins[2])
    /\ UNCHANGED <<X, envs>>

-----------------------------------------------------------------------------
(* Instructions that match the arguments of a goal with a clause's head.   *)

\* What a unification comes to.
Unified(r) == IF r.ok THEN Onward(r.store) /\ UNCHANGED <<X, envs, mode>> ELSE Failing(r.store)

GetVariable ==
    /\ Op = "get_variable"
    /\ SetReg(Ins[2], X[Ins[3]])
    /\ Onward(store)
    /\ UNCHANGED mode

GetValue    == Op = "get_value" /\ Unified(Unify(store, Reg(Ins[2]), X[Ins[3]]))
GetConstant == Op = "get_constant" /\ Unified(Unify(store, X[Ins[3]], Con(Ins[2])))

\* A number is only made for a variable.
UnifiedInteger(s, w, n) ==
    LET d == Deref(s, w) IN
    IF IsVar(s, d) THEN [ok |-> TRUE, store |-> Bind(New(s, Number(n)), d[2], Ref(HeapTop(s)))]
    ELSE [ok |-> Kind(s, d) = "num" /\ s.heap[d[2]] = Number(n), store |-> s]

GetInteger == Op = "get_integer" /\ Unified(UnifiedInteger(store, X[Ins[3]], Ins[2]))

\* get_list, get_structure and get_structure_frame differ in what is built, with
\* how many words, the first of which is the next one to match, and the register.
Shape ==
    CASE Op = "get_list"      -> [kind |-> "cons", words |-> <<NoWord, NoWord>>, first |-> 1, reg |-> Ins[2]]
      [] Op = "get_structure" -> [kind |-> "str", first |-> 2, reg |-> Ins[4],
                                  words |-> <<Con(Ins[2])>> \o [i \in 1 .. Ins[3] |-> NoWord]]
      [] OTHER                -> [kind |-> "str", first |-> 1, reg |-> Ins[3],
                                  words |-> [i \in 1 .. Ins[2] + 1 |-> NoWord]]

Matching == Op \in {"get_list", "get_structure", "get_structure_frame"}
Matched  == Deref(store, X[Shape.reg])

Writing(save) == mode' = [read |-> FALSE, at |-> HeapTop(store), i |-> Shape.first, save |-> save]

GetSlot ==                      \* a place that unify_ref left
    /\ Matching /\ IsSlot(Matched)
    /\ Writing(mode.save)
    /\ Onward([New(store, Structure(Shape.kind, Shape.words)) EXCEPT
                    !.heap[Matched[2]].args[Matched[3]] = NewRef])
    /\ UNCHANGED <<X, envs>>

GetUnbound ==
    /\ Matching /\ IsVar(store, Matched)
    /\ ~store.heap[Matched[2]].oc
    /\ Writing(NewRef)
    /\ Onward(Bind(New(store, Structure(Shape.kind, Shape.words)), Matched[2], NewRef))
    /\ UNCHANGED <<X, envs>>

GetChecked ==                   \* built of variables first: the rest unifies
    /\ Matching /\ IsVar(store, Matched)
    /\ store.heap[Matched[2]].oc
    /\ LET n  == Cardinality({i \in DOMAIN Shape.words : Shape.words[i] = NoWord})
           k  == Len(Shape.words) - n
           s  == NewVariables(store, n, TRUE)
           ws == [i \in DOMAIN Shape.words |->
                     IF i > k THEN Ref(HeapTop(store) + i - k - 1) ELSE Shape.words[i]] IN
       /\ mode' = [mode EXCEPT !.read = TRUE, !.at = HeapTop(s), !.i = Shape.first]
       /\ Onward(Bind(New(s, Structure(Shape.kind, ws)), Matched[2], Ref(HeapTop(s))))
    /\ UNCHANGED <<X, envs>>

GetBound ==
    /\ Matching /\ ~IsSlot(Matched) /\ ~IsVar(store, Matched)
    /\ LET d == Matched
           fits == /\ Kind(store, d) = Shape.kind
                   /\ Len(store.heap[d[2]].args) = Len(Shape.words)
           r == IF fits /\ Op = "get_structure"
                THEN Unify(store, store.heap[d[2]].args[1], Shape.words[1])
                ELSE [ok |-> fits, store |-> store] IN
       IF r.ok
       THEN /\ mode' = [mode EXCEPT !.read = TRUE, !.at = d[2], !.i = Shape.first]
            /\ Onward(r.store)
            /\ UNCHANGED <<X, envs>>
       ELSE Failing(r.store)

UnifyVariable ==
    /\ Op = "unify_variable"
    /\ IF mode.read THEN SetReg(Ins[2], Word) /\ Onward(store)
       ELSE SetReg(Ins[2], NewRef) /\ Onward(FilledVoids(1))
    /\ Advanced(1)

\* Succeeding, with StructurePointer moved on.
UnifiedWord(r) ==
    IF r.ok THEN Onward(r.store) /\ Advanced(1) /\ UNCHANGED <<X, envs>> ELSE Failing(r.store)

UnifyValue ==
    /\ Op = "unify_value"
    /\ LET w == Deref(store, Reg(Ins[2])) IN
       UnifiedWord(IF mode.read THEN Unify(store, Reg(Ins[2]), Word)
                   ELSE [ok |-> w # mode.save,
                         store |-> IF w = mode.save THEN store
                                   ELSE Filled(CheckedLater(store, w), w)])

UnifyConstant ==
    /\ Op = "unify_constant"
    /\ UnifiedWord(IF mode.read THEN Unify(store, Word, Con(Ins[2]))
                   ELSE [ok |-> TRUE, store |-> Filled(store, Con(Ins[2]))])

UnifyInteger ==
    /\ Op = "unify_integer"
    /\ UnifiedWord(IF mode.read THEN UnifiedInteger(store, Word, Ins[2])
                   ELSE [ok |-> TRUE, store |-> New(Filled(store, NewRef), Number(Ins[2]))])

UnifyVoid ==
    /\ Op = "unify_void"
    /\ Onward(IF mode.read THEN store ELSE FilledVoids(Ins[2]))
    /\ Advanced(Ins[2])
    /\ UNCHANGED <<X, envs>>

UnifyRef ==
    /\ Op = "unify_ref"
    /\ SetReg(Ins[2], IF mode.read THEN Word ELSE Slot(mode.at, mode.i))
    /\ Onward(store)
    /\ Advanced(1)

-----------------------------------------------------------------------------
(* Control: environments, choice points, cuts and switches.                *)

Quietly == UNCHANGED <<X, store, choices, cutPoint, mode, outside>>

Allocate ==
    /\ Op = "allocate"
    /\ envs' = PushFrame(cont, Ins[2])
    /\ pc' = Following
    /\ Quietly /\ UNCHANGED cont

Deallocate ==                   \* the top of the stack stays
    /\ Op = "deallocate"
    /\ cont' = envs.frames[envs.cur].cont
    /\ envs' = [envs EXCEPT !.cur = envs.frames[envs.cur].prev]
    /\ pc' = Following
    /\ Quietly

JumpOrProceed ==
    /\ Op \in {"noop", "jump", "proceed"}
    /\ pc' = CASE Op = "noop" -> Following [] Op = "jump" -> At(Ins[2]) [] OTHER -> cont
    /\ Quietly /\ UNCHANGED <<envs, cont>>

Fail == Op = "fail" /\ Failing(store)

Exit ==                         \* exit and halt
    /\ Op = "exit"
    /\ status' = "exited"
    /\ UNCHANGED <<pc, X, mode, store, envs, control, restart, query, answers, spent>>

\* try_me_else goes on and leaves the label; try goes to the label.
Try ==
    /\ Op \in {"try_me_else", "try"}
    /\ PushChoice(IF Op = "try" THEN Following ELSE At(Ins[3]), Ins[2])
    /\ pc' = IF Op = "try" THEN At(Ins[3]) ELSE Following
    /\ UNCHANGED <<X, mode, envs, cont, cutPoint, outside>>

\* A bug the next definition avoids: the same clause is tried for ever.
Retry_same ==
    /\ Op \in {"retry_me_else", "retry"}
    /\ Restored(Last(choices))
    /\ store' = Undone(store, Last(choices))
    /\ pc' = IF Op = "retry" THEN At(Ins[2]) ELSE Following
    /\ UNCHANGED <<mode, choices, cutPoint, outside>>

Retry ==
    /\ Op \in {"retry_me_else", "retry"}
    /\ Restored(Last(choices))
    /\ store' = Undone(store, Last(choices))
    /\ choices' = [choices EXCEPT ![Len(choices)].next =
                        IF Op = "retry" THEN Following ELSE At(Ins[2])]
    /\ pc' = IF Op = "retry" THEN At(Ins[2]) ELSE Following
    /\ UNCHANGED <<mode, cutPoint, outside>>

Trust ==
    /\ Op \in {"trust_me_else_fail", "trust"}
    /\ Restored(Last(choices))
    /\ LET m == DownTo(Undone(store, Last(choices)), choices, Len(choices) - 1) IN
       store' = m.store /\ choices' = m.choices
    /\ pc' = IF Op = "trust" THEN At(Ins[2]) ELSE Following
    /\ UNCHANGED <<mode, cutPoint, outside>>

\* Choice points above the n-th are removed.
CutDownTo(n) ==
    /\ LET m == DownTo(store, choices, n) IN store' = m.store /\ choices' = m.choices
    /\ pc' = Following
    /\ UNCHANGED <<X, mode, envs, cont, cutPoint, outside>>

NeckCut == Op = "neck_cut" /\ CutDownTo(cutPoint)
Cut     == Op = "cut" /\ CutDownTo(store.heap[Reg(<<"y", Ins[2]>>)[2]].args[1][2])

GetLevel ==                     \* get_y_level
    /\ Op = "get_level"
    /\ SetReg(<<"y", Ins[2]>>, NewRef)
    /\ Onward(New(store, Number(cutPoint)))
    /\ UNCHANGED mode

\* The label for a term: by its kind, by the constant, or by functor and arity.
SwitchLabel(d) ==
    CASE Op = "switch_on_term"     -> Ins[3][IF Kind(store, d) = "num" THEN "con" ELSE Kind(store, d)]
      [] Op = "switch_on_constant" ->
            LET key == IF Kind(store, d) = "num" THEN store.heap[d[2]].args[1] ELSE d
                hit == {e \in Ins[3] : e[1] = key} IN
            IF hit = {} THEN Ins[4] ELSE (CHOOSE e \in hit : TRUE)[2]
      [] OTHER ->
            LET str == store.heap[d[2]].args
                hit == {e \in Ins[3] : e[1] = Deref(store, str[1])[2] /\ e[2] = Len(str) - 1} IN
            IF hit = {} THEN Ins[4] ELSE (CHOOSE e \in hit : TRUE)[3]

Switch ==
    /\ Op \in {"switch_on_term", "switch_on_constant", "switch_on_structure"}
    /\ LET label == SwitchLabel(Deref(store, X[Ins[2]])) IN
       IF label = "fail" THEN Failing(store)
       ELSE pc' = At(label) /\ Quietly /\ UNCHANGED <<envs, cont>>

-----------------------------------------------------------------------------
(* Calls.  What must be done once, when a call is first tried, has been    *)
(* done already if the call was interrupted and is tried again.            *)

Calling == Op \in {"call", "execute", "db_execute"}
Goal    == Ins[2]

ContAfter     == IF Op = "call" /\ ~restart THEN Following ELSE cont
CutPointAfter == IF restart THEN cutPoint ELSE Len(choices)
EnvsAfter     == IF Op = "call" /\ ~restart THEN Trimmed(Ins[3]) ELSE envs

\* A signal is pending, or the time slice is over.
Interrupt ==
    /\ Calling
    /\ spent.interruptions < MaxInterruptions
    /\ cont' = ContAfter /\ cutPoint' = CutPointAfter /\ envs' = EnvsAfter
    /\ restart' = TRUE
    /\ status' = "interrupted"
    /\ spent' = [spent EXCEPT !.interruptions = @ + 1]
    /\ UNCHANGED <<pc, X, mode, store, choices, abstract>>

\* The data areas when a goal is entered: after a garbage collection, perhaps.
Areas(collect) ==
    LET m == [store |-> store, X |-> X, envs |-> EnvsAfter, choices |-> choices] IN
    IF collect THEN Collect(m, Arity[Goal]) ELSE m

\* The choice point that guards a dynamic predicate's clauses is popped at the
\* end of a clause, if it is the newest.
Unguarded(s, cs) ==
    IF Last(cs).time = -1 THEN DownTo(s, cs, Len(cs) - 1) ELSE [choices |-> cs, store |-> s]

\* A bug the next definition avoids: the next call is taken for one that is
\* tried again.
Entering_restarts(collect) ==
    LET m == Areas(collect)
        r == IF Op = "db_execute" THEN Unguarded(m.store, m.choices)
             ELSE [store |-> m.store, choices |-> m.choices] IN
    /\ X' = m.X /\ envs' = m.envs /\ store' = r.store /\ choices' = r.choices
    /\ cont' = ContAfter
    /\ cutPoint' = IF Op = "db_execute" THEN Len(r.choices) ELSE CutPointAfter
    /\ spent' = IF collect THEN [spent EXCEPT !.collections = @ + 1] ELSE spent
    /\ UNCHANGED restart

\* What every call of a static predicate does.
Entering(collect) ==
    LET m == Areas(collect)
        r == IF Op = "db_execute" THEN Unguarded(m.store, m.choices)
             ELSE [store |-> m.store, choices |-> m.choices] IN
    /\ X' = m.X /\ envs' = m.envs /\ store' = r.store /\ choices' = r.choices
    /\ cont' = ContAfter
    /\ cutPoint' = IF Op = "db_execute" /\ Len(r.choices) < Len(m.choices) THEN Len(r.choices)
                   ELSE CutPointAfter
    /\ spent' = IF collect THEN [spent EXCEPT !.collections = @ + 1] ELSE spent
    /\ restart' = FALSE

EnterStatic ==
    /\ Calling /\ Goal \in DOMAIN Code
    /\ \E collect \in {FALSE} \union {spent.collections < MaxCollections} : Entering(collect)
    /\ pc' = At(Goal)
    /\ UNCHANGED <<mode, status, abstract>>

\* initializeDPcall: a choice point that guards the predicate, and another one
\* if there is more than one clause.
Guarded(m, k, cut) ==
    LET guard == Choice(m, k, cut, At("failblock"), Arity[Goal], -1, <<>>)
        n     == [m EXCEPT !.choices = Append(@, guard),
                           !.store = [SaveTop(@) EXCEPT !.tags = Append(@, PredEntry(Goal))]] IN
    IF Len(Dynamic[Goal]) = 1 THEN n
    ELSE [n EXCEPT !.choices = Append(@, Choice(n, k, cut, At("failblock"), Arity[Goal], 1,
                                                Tail(Dynamic[Goal])))]

\* At the last call of a dynamic clause the guard goes first.
Left ==
    IF Op = "db_execute" THEN Unguarded(store, choices) ELSE [choices |-> choices, store |-> store]
CutPointLeft == IF Len(Left.choices) < Len(choices) THEN Len(Left.choices) ELSE CutPointAfter

\* What a call that fails has set is restored by the clause that is tried next.
EnterDynamic ==
    /\ Calling /\ Goal \in DOMAIN Dynamic
    /\ restart' = FALSE
    /\ IF Dynamic[Goal] = <<>> THEN BacktrackIn(Left.store, Left.choices)
       ELSE LET m == Guarded([X |-> X, envs |-> EnvsAfter, store |-> Left.store,
                              choices |-> Left.choices], ContAfter, CutPointLeft) IN
            /\ store' = m.store /\ choices' = m.choices
            /\ cont' = ContAfter /\ cutPoint' = CutPointLeft /\ envs' = EnvsAfter
            /\ pc' = At(Head(Dynamic[Goal]))
            /\ UNCHANGED <<X, mode, status, abstract, spent>>

EnterEscape ==
    /\ Calling /\ Goal \in DOMAIN Escapes
    /\ restart' = FALSE
    /\ IF ~Escapes[Goal] THEN BacktrackIn(Left.store, Left.choices)
       ELSE /\ pc' = IF Op = "call" THEN Following ELSE cont
            /\ cont' = ContAfter /\ envs' = EnvsAfter /\ cutPoint' = CutPointLeft
            /\ store' = Left.store /\ choices' = Left.choices
            /\ UNCHANGED <<X, mode, status, abstract, spent>>

DbProceed ==
    /\ Op = "db_proceed"
    /\ LET m == Unguarded(store, choices) IN store' = m.store /\ choices' = m.choices
    /\ pc' = cont
    /\ UNCHANGED <<X, mode, envs, cont, cutPoint, outside>>

\* A pseudo-instruction succeeds, fails, yields, or blocks and is tried again.
Compare ==                      \* psi 110, ==/2
    /\ Op = "equal"
    /\ restart' = FALSE
    /\ IF Same(store, X[Ins[2]], X[Ins[3]])
       THEN pc' = Following /\ UNCHANGED <<X, mode, store, envs, control, status, abstract, spent>>
       ELSE Backtrack(store)

Yield ==
    /\ Op = "yield"
    /\ restart' = FALSE
    /\ status' = "yielded"
    /\ pc' = Following
    /\ UNCHANGED <<X, mode, store, envs, control, abstract, spent>>

\* What the goal's variables are is noted.
Answer ==
    /\ Op = "answer"
    /\ restart' = FALSE
    /\ answers' = Append(answers, Canonical(<<"s", "ans">> \o
                        TermsOf(store, [i \in DOMAIN Ins[2] |-> Reg(Ins[2][i])])))
    /\ pc' = Following
    /\ UNCHANGED <<X, mode, store, envs, control, status, query, spent>>

Blocked ==
    /\ Op = "yield"
    /\ spent.interruptions < MaxInterruptions
    /\ restart' = TRUE
    /\ status' = "interrupted"
    /\ spent' = [spent EXCEPT !.interruptions = @ + 1]
    /\ UNCHANGED <<pc, X, mode, store, envs, control, abstract>>

-----------------------------------------------------------------------------
(* The scheduler's side: a parked thread is run again; another thread may  *)
(* throw a pattern into it before.                                         *)

Resume ==
    /\ status \in {"interrupted", "yielded"}
    /\ status' = "running"
    /\ UNCHANGED <<pc, X, mode, store, envs, control, restart, query, answers, spent>>

\* psi_thread_throw; it and resetThread leave restart as it is.
ThreadThrow ==
    /\ status \in ThrowInto
    /\ spent.throws < MaxThrows
    /\ pc' = At("throw")
    /\ X' = [X EXCEPT ![0] = Con("pattern")]
    /\ spent' = [spent EXCEPT !.throws = @ + 1]
    /\ UNCHANGED <<mode, store, envs, control, restart, status, query, answers>>

\* A machine that has just been initialised, whatever it was used for before.
MachineReady(s, found) ==
    /\ pc = At(query)
    /\ X = [i \in 0 .. MaxX - 1 |-> NilWord]
    /\ mode = [read |-> TRUE, at |-> 0, i |-> 0, save |-> NoWord]
    /\ store = EmptyStore
    /\ envs = [cur |-> 0, top |-> EnvSize(0), frames |-> [e \in {0} |-> Frame(0, At("exit"), 0, 0)]]
    /\ cont = At("exit")
    /\ choices = <<[next |-> At("exit"), cont |-> At("exit"), cut |-> 1, args |-> <<>>, time |-> 0,
                    rest |-> <<>>, env |-> 0, envTop |-> 0, heap |-> 1, trail |-> 0, tags |-> 0,
                    regs |-> <<>>, was |-> <<"s", "kept">>]>>
    /\ cutPoint = 1
    /\ restart = FALSE
    /\ status = s
    /\ answers = found
    /\ spent = [interruptions |-> 0, collections |-> 0, throws |-> 0]

MachineInit == query \in DOMAIN Queries /\ MachineReady("running", <<>>)

Building == PutVariable \/ PutValue \/ PutConstant \/ PutInteger \/ PutList \/ PutStructure
            \/ SetVariable \/ SetValue \/ SetConstant \/ SetInteger \/ SetVoid
Heads    == GetVariable \/ GetValue \/ GetConstant \/ GetInteger
            \/ GetSlot \/ GetUnbound \/ GetChecked \/ GetBound
            \/ UnifyVariable \/ UnifyValue \/ UnifyConstant \/ UnifyInteger \/ UnifyVoid \/ UnifyRef
Control  == Allocate \/ Deallocate \/ JumpOrProceed \/ Fail \/ Exit \/ Try \/ Retry \/ Trust
            \/ NeckCut \/ Cut \/ GetLevel \/ Switch
Calls    == Interrupt \/ EnterStatic \/ EnterDynamic \/ EnterEscape \/ DbProceed
            \/ Compare \/ Yield \/ Answer \/ Blocked

Exited == status = "exited" /\ UNCHANGED vars

MachineNext == Building \/ Heads \/ Control \/ Calls \/ Resume \/ ThreadThrow \/ Exited

\* A thread's machine steps while the thread runs: it always has an instruction
\* to execute, so this is weak fairness of its instructions, stated without ENABLED.
Steps == []<><<status = "running">>_vars \/ []<>(status # "running")

\* And the scheduler runs a thread that can run.
MachineSpec == MachineInit /\ [][MachineNext]_vars /\ Steps /\ WF_vars(Resume)

-----------------------------------------------------------------------------
(* Properties.                                                             *)

IsWord(w) ==
    \/ w = NoWord
    \/ w[1] = "con"
    \/ IsRef(w) /\ w[2] \in DOMAIN store.heap
    \/ IsSlot(w) /\ w[2] \in DOMAIN store.heap

\* The data areas are well formed: the current environment exists and ends at
\* the top of its stack or below, tops that choice points saved do not decrease,
\* and words on the heap refer to objects on it.
MachineTypeOK ==
    /\ status \in {"running", "interrupted", "yielded", "exited"}
    /\ restart \in BOOLEAN
    /\ cutPoint \in Nat \ {0}
    /\ envs.cur \in DOMAIN envs.frames
    /\ \A i \in 2 .. Len(choices) :
          /\ choices[i].heap >= choices[i - 1].heap
          /\ choices[i].trail >= choices[i - 1].trail
          /\ choices[i].tags >= choices[i - 1].tags
          /\ choices[i].envTop >= choices[i - 1].envTop
    /\ \A a \in DOMAIN store.heap :
          store.heap[a].kind # "num" => \A w \in ToSet(store.heap[a].args) : IsWord(w)

\* A variable within a structure has the tag that asks for an occurs check, so
\* that no term is bound to a variable that it contains (execute.cc, at the
\* unify and set instructions).
OccursMarked ==
    \A a \in DOMAIN store.heap : store.heap[a].kind \in {"str", "cons"} =>
        \A w \in ToSet(store.heap[a].args) : w # NoWord =>
            LET d == Deref(store, w) IN IsVar(store, d) => store.heap[d[2]].oc

\* No term contains itself.
Acyclic ==
    \A a \in DOMAIN store.heap : a \notin Reached(store, Children(store, a), {})

\* The environments that the thread and its choice points come back to are on
\* the stack, within the part of it that the choice point protects.
LiveEnvironments ==
    /\ LiveFrames([envs |-> envs, choices |-> choices]) \subseteq DOMAIN envs.frames
    /\ \A i \in DOMAIN choices :
          choices[i].env # 0 => choices[i].env + EnvSize(envs.frames[choices[i].env].n) <= choices[i].envTop

\* Back at a choice point, the arguments and the Y registers have the terms that
\* they had when it was made, whatever was bound, trimmed, cut and collected.
ChoicesRestorable ==
    \A i \in DOMAIN choices :
        TermsKept(Undone(store, choices[i]), envs.frames, choices[i].args, choices[i].regs)
            = choices[i].was

\* The machine finds the answers that resolution finds, in the same order, and
\* all of them if nothing is thrown into the thread.
AnswersRight ==
    /\ IsPrefix(answers, Expected[query])
    /\ (status = "exited" /\ spent.throws = 0) => answers = Expected[query]

\* Where a collection may happen, a variable on the trail is one that is marked
\* (asserted in trail.h, gc_sweep).
TrailReachable ==
    Calling => LET marked == Marked([store |-> store, X |-> X, envs |-> EnvsAfter, choices |-> choices],
                                   IF Goal \in DOMAIN Arity THEN Arity[Goal] ELSE 0) IN
              ToSet(store.trail) \subseteq marked

\* A goal is entered with the place after its call as continuation and the
\* choice points there are as those that its cuts keep, however often the call
\* was interrupted (execute.cc, ONCE_ONLY).
OnceEach ==
    [][(Calling /\ Goal \in DOMAIN Code /\ Op # "db_execute" /\ pc' = At(Goal) /\ answers' = answers) =>
            cutPoint' = Len(choices) /\ (Op = "call" => cont' = Following)]_vars

\* Every goal of the program comes to an end.
Terminates == <>(status = "exited")

\* The data areas and the terms in them are sound between any two instructions.
HeapSound == MachineTypeOK /\ LiveEnvironments /\ OccursMarked /\ Acyclic /\ TrailReachable
=============================================================================
