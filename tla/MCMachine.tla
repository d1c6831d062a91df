----------------------------- MODULE MCMachine -----------------------------
(* Programs for Machine: predicates of src/prolog/compiler/list_util.qs as *)
(* the compiler left them there, dynamic predicates, clauses that use the  *)
(* instructions the others do not, and goals.  Expected has the answers    *)
(* that Resolution finds from the clauses of the same predicates.          *)
EXTENDS Machine

x(i) == <<"x", i>>
y(i) == <<"y", i>>

\* A goal's code: it is a choice of its own, notes each answer, and ends.
GoalCode(q, body) ==
    q :> <<<<"try", 0, q \o "$1">>, <<"trust", q \o "$2">>>>
    @@ q \o "$1" :> body \o <<<<"fail">>>>
    @@ q \o "$2" :> <<<<"exit">>>>

TermSwitch(var, list, str, con) == [var |-> var, cons |-> list, str |-> str, con |-> con]

\* A list of constants in a register, built from its end with two others.
PutList1(a, i)    == <<<<"put_list", i>>, <<"set_constant", a>>, <<"set_constant", "[]">>>>
PutList2(a, b, i) == PutList1(b, i + 4) \o <<<<"put_list", i>>, <<"set_constant", a>>, <<"set_value", x(i + 4)>>>>

Lists ==
    "member" :> <<<<"try", 2, "member$1">>, <<"trust", "member$2">>>>
    @@ "member$1" :> <<<<"get_list", 1>>, <<"unify_value", x(0)>>, <<"unify_void", 1>>, <<"proceed">>>>
    @@ "member$2" :> <<<<"get_list", 1>>, <<"unify_void", 1>>, <<"unify_variable", x(1)>>,
                       <<"execute", "member">>>>
    @@ "member_eq" :> <<<<"try", 2, "member_eq$1">>, <<"trust", "member_eq$2">>>>
    @@ "member_eq$1" :> <<<<"get_list", 1>>, <<"unify_variable", x(1)>>, <<"unify_void", 1>>,
                          <<"equal", 0, 1>>, <<"proceed">>>>
    @@ "member_eq$2" :> <<<<"get_list", 1>>, <<"unify_void", 1>>, <<"unify_variable", x(1)>>,
                          <<"neck_cut">>, <<"execute", "member_eq">>>>
    @@ "append" :> <<<<"switch_on_term", 0, TermSwitch("append$3", "append$2", "fail", "append$1")>>>>
    @@ "append$3" :> <<<<"try", 3, "append$1">>, <<"trust", "append$2">>>>
    @@ "append$1" :> <<<<"get_constant", "[]", 0>>, <<"get_value", x(1), 2>>, <<"proceed">>>>
    @@ "append$2" :> <<<<"get_list", 0>>, <<"unify_variable", x(3)>>, <<"unify_variable", x(0)>>,
                       <<"get_list", 2>>, <<"unify_value", x(3)>>, <<"unify_variable", x(2)>>,
                       <<"execute", "append">>>>
    @@ "delete_all" :> <<<<"try", 3, "delete_all$1">>, <<"retry", "delete_all$2">>,
                         <<"trust", "delete_all$3">>>>
    @@ "delete_all$1" :> <<<<"get_constant", "[]", 1>>, <<"get_constant", "[]", 2>>, <<"proceed">>>>
    @@ "delete_all$2" :> <<<<"get_list", 1>>, <<"unify_value", x(0)>>, <<"unify_variable", x(1)>>,
                           <<"neck_cut">>, <<"execute", "delete_all">>>>
    @@ "delete_all$3" :> <<<<"get_list", 1>>, <<"unify_variable", x(3)>>, <<"unify_variable", x(1)>>,
                           <<"get_list", 2>>, <<"unify_value", x(3)>>, <<"unify_variable", x(2)>>,
                           <<"execute", "delete_all">>>>
    @@ "$reverse" :> <<<<"switch_on_term", 0, TermSwitch("$reverse$3", "$reverse$2", "fail", "$reverse$1")>>>>
    @@ "$reverse$3" :> <<<<"try", 3, "$reverse$1">>, <<"trust", "$reverse$2">>>>
    @@ "$reverse$1" :> <<<<"get_constant", "[]", 0>>, <<"get_value", x(1), 2>>, <<"proceed">>>>
    @@ "$reverse$2" :> <<<<"get_list", 0>>, <<"unify_variable", x(3)>>, <<"unify_variable", x(0)>>,
                         <<"get_variable", x(4), 2>>, <<"put_list", 2>>, <<"set_value", x(3)>>,
                         <<"set_value", x(4)>>, <<"execute", "$reverse">>>>
    @@ "intersect_list" :> <<<<"switch_on_term", 0, TermSwitch("intersect_list$5", "intersect_list$4",
                                                              "fail", "intersect_list$1")>>>>
    @@ "intersect_list$4" :> <<<<"try", 3, "intersect_list$2">>, <<"trust", "intersect_list$3">>>>
    @@ "intersect_list$5" :> <<<<"try", 3, "intersect_list$1">>, <<"retry", "intersect_list$2">>,
                               <<"trust", "intersect_list$3">>>>
    @@ "intersect_list$1" :> <<<<"get_constant", "[]", 0>>, <<"get_constant", "[]", 2>>, <<"proceed">>>>
    @@ "intersect_list$2" :> <<<<"get_list", 0>>, <<"allocate", 5>>, <<"unify_variable", y(3)>>,
            <<"unify_variable", y(1)>>, <<"get_variable", y(0), 1>>, <<"get_variable", y(2), 2>>,
            <<"get_level", 4>>, <<"put_value", y(3), 0>>, <<"call", "member_eq", 5>>, <<"cut", 4>>,
            <<"put_value", y(2), 0>>, <<"get_list", 0>>, <<"unify_value", y(3)>>,
            <<"unify_variable", x(2)>>, <<"put_value", y(1), 0>>, <<"put_value", y(0), 1>>,
            <<"deallocate">>, <<"execute", "intersect_list">>>>
    @@ "intersect_list$3" :> <<<<"get_list", 0>>, <<"unify_void", 1>>, <<"unify_variable", x(0)>>,
                               <<"execute", "intersect_list">>>>
    @@ "distribute_right" :> <<<<"try", 3, "distribute_right$1">>, <<"trust", "distribute_right$2">>>>
    @@ "distribute_right$1" :> <<<<"get_constant", "[]", 1>>, <<"get_constant", "[]", 2>>,
                                 <<"neck_cut">>, <<"proceed">>>>
    @@ "distribute_right$2" :> <<<<"get_list", 1>>, <<"unify_variable", x(3)>>,
            <<"unify_variable", x(1)>>, <<"get_list", 2>>, <<"unify_ref", x(4)>>,
            <<"unify_variable", x(2)>>, <<"get_structure", ",", 2, 4>>, <<"unify_value", x(3)>>,
            <<"unify_value", x(0)>>, <<"execute", "distribute_right">>>>

\* Compiled by hand, with instructions the lists do not use.
Shapes ==
    "kind" :> <<<<"switch_on_term", 0, TermSwitch("kind$v", "fail", "kind$s", "kind$c")>>>>
    @@ "kind$c" :> <<<<"switch_on_constant", 0, {<<<<"con", "a">>, "kind$1">>, <<<<"num", 1>>, "kind$2">>}, "fail">>>>
    @@ "kind$s" :> <<<<"switch_on_structure", 0, {<<"f", 1, "kind$3">>}, "fail">>>>
    @@ "kind$v" :> <<<<"try_me_else", 2, "kind$v2">>, <<"jump", "kind$1">>>>
    @@ "kind$v2" :> <<<<"retry_me_else", "kind$v3">>, <<"noop">>, <<"jump", "kind$2">>>>
    @@ "kind$v3" :> <<<<"trust_me_else_fail">>, <<"jump", "kind$3">>>>
    @@ "kind$1" :> <<<<"get_constant", "a", 0>>, <<"get_constant", "atom", 1>>, <<"proceed">>>>
    @@ "kind$2" :> <<<<"get_integer", 1, 0>>, <<"get_integer", 7, 1>>, <<"proceed">>>>
    @@ "kind$3" :> <<<<"get_structure", "f", 1, 0>>, <<"unify_integer", 2>>, <<"get_list", 1>>,
                     <<"unify_constant", "b">>, <<"unify_integer", 2>>, <<"proceed">>>>
    @@ "applied" :> <<<<"get_structure_frame", 1, 0>>, <<"unify_variable", x(3)>>,
                      <<"unify_variable", x(4)>>, <<"get_value", x(3), 1>>, <<"get_value", x(4), 2>>,
                      <<"proceed">>>>
    \* first(X) :- path(a, X), !, true_escape.
    @@ "first" :> <<<<"allocate", 2>>, <<"get_level", 1>>, <<"get_variable", y(0), 0>>,
                    <<"put_constant", "a", 0>>, <<"put_value", y(0), 1>>, <<"call", "path", 2>>,
                    <<"cut", 1>>, <<"deallocate">>, <<"execute", "true_escape">>>>
    \* settle(X) :- member(X, [a]), none(X).    settle(b) :- !.    settle(c).
    @@ "settle" :> <<<<"try", 1, "settle$1">>, <<"retry", "settle$2">>, <<"trust", "settle$3">>>>
    @@ "settle$1" :> <<<<"allocate", 1>>, <<"get_variable", y(0), 0>>>> \o PutList1("a", 1)
            \o <<<<"call", "member", 1>>, <<"put_value", y(0), 0>>, <<"deallocate">>, <<"execute", "none">>>>
    @@ "settle$2" :> <<<<"get_constant", "b", 0>>, <<"neck_cut">>, <<"proceed">>>>
    @@ "settle$3" :> <<<<"get_constant", "c", 0>>, <<"proceed">>>>
    \* later(X) :- member(Y, [a, b]), edge(Y, Z), edge(Z, X), nothing.
    @@ "later" :> <<<<"allocate", 3>>, <<"get_variable", y(0), 0>>, <<"put_variable", y(1), 0>>>>
            \o PutList2("b", "a", 1) \o <<<<"call", "member", 3>>, <<"put_value", y(1), 0>>,
            <<"put_variable", y(2), 1>>, <<"call", "edge", 3>>, <<"put_value", y(2), 0>>,
            <<"put_value", y(0), 1>>, <<"call", "edge", 1>>, <<"deallocate">>, <<"execute", "nothing">>>>
    @@ "nothing" :> <<<<"proceed">>>>
    \* bound :- either(_), nothing.    forget :- either(_), !, bound, nothing.
    @@ "either" :> <<<<"try", 1, "either$1">>, <<"trust", "either$2">>>>
    @@ "either$1" :> <<<<"get_constant", "a", 0>>, <<"execute", "nothing">>>>
    @@ "either$2" :> <<<<"get_constant", "b", 0>>, <<"proceed">>>>
    @@ "bound" :> <<<<"allocate", 0>>, <<"put_variable", x(0), 0>>, <<"call", "either", 0>>,
                    <<"deallocate">>, <<"execute", "nothing">>>>
    @@ "forget" :> <<<<"allocate", 1>>, <<"get_level", 0>>, <<"put_variable", x(0), 0>>,
                     <<"call", "either", 1>>, <<"cut", 0>>, <<"call", "bound", 0>>,
                     <<"deallocate">>, <<"execute", "nothing">>>>

\* Clauses of dynamic predicates end with instructions of their own.
Clauses ==
    "edge$1" :> <<<<"get_constant", "a", 0>>, <<"get_constant", "b", 1>>, <<"db_proceed">>>>
    @@ "edge$2" :> <<<<"get_constant", "b", 0>>, <<"get_constant", "c", 1>>, <<"db_proceed">>>>
    @@ "path$1" :> <<<<"db_execute", "edge">>>>
    @@ "path$2" :> <<<<"allocate", 2>>, <<"get_variable", y(0), 1>>, <<"put_variable", y(1), 1>>,
                     <<"call", "edge", 2>>, <<"put_value", y(1), 0>>, <<"put_value", y(0), 1>>,
                     <<"deallocate">>, <<"db_execute", "path">>>>
    @@ "lists$1" :> <<<<"db_execute", "append">>>>
    @@ "escaping$1" :> <<<<"get_constant", "a", 0>>, <<"db_execute", "true_escape">>>>
    @@ "escaping$2" :> <<<<"get_constant", "b", 0>>, <<"db_execute", "fail_escape">>>>
    @@ "escaping$3" :> <<<<"db_execute", "none">>>>

\* throw/1 of src/prolog/library/catch.qs; nothing here catches what it throws.
Throwing ==
    "throw" :> <<<<"allocate", 2>>, <<"get_variable", y(1), 0>>, <<"put_variable", y(0), 0>>,
                 <<"call", "thread_symbol", 2>>, <<"put_value", y(0), 0>>, <<"put_value", y(1), 1>>,
                 <<"deallocate">>, <<"execute", "throw/1$0">>>>
    @@ "throw/1$0" :> <<<<"exit">>>>
    @@ "thread_symbol" :> <<<<"noop">>, <<"proceed">>>>

Goals ==
    GoalCode("split", <<<<"allocate", 2>>, <<"put_variable", y(0), 0>>, <<"put_variable", y(1), 1>>>>
        \o PutList2("a", "b", 2) \o <<<<"call", "append", 2>>, <<"answer", <<y(0), y(1)>>>>>>)
    @@ GoalCode("occurs", <<<<"allocate", 1>>>> \o PutList1("a", 0)
        \o <<<<"put_variable", y(0), 1>>, <<"put_value", y(0), 2>>, <<"call", "append", 1>>,
             <<"answer", <<y(0)>>>>>>)
    @@ GoalCode("common", <<<<"allocate", 1>>>> \o PutList2("a", "b", 0) \o PutList1("b", 1)
        \o <<<<"put_variable", y(0), 2>>, <<"call", "intersect_list", 1>>, <<"answer", <<y(0)>>>>>>)
    @@ GoalCode("without", <<<<"allocate", 1>>, <<"put_constant", "a", 0>>>> \o PutList2("a", "b", 1)
        \o <<<<"put_variable", y(0), 2>>, <<"call", "delete_all", 1>>, <<"answer", <<y(0)>>>>>>)
    @@ GoalCode("pairs", <<<<"allocate", 1>>, <<"put_constant", "k", 0>>>> \o PutList1("a", 1)
        \o <<<<"put_variable", y(0), 2>>, <<"call", "distribute_right", 1>>, <<"answer", <<y(0)>>>>>>)
    @@ GoalCode("turned", <<<<"allocate", 1>>>> \o PutList2("a", "b", 0)
        \o <<<<"put_variable", y(0), 1>>, <<"put_constant", "[]", 2>>, <<"yield">>,
             <<"call", "$reverse", 1>>, <<"answer", <<y(0)>>>>>>)
    @@ GoalCode("paths", <<<<"allocate", 1>>, <<"put_constant", "a", 0>>, <<"put_variable", y(0), 1>>,
             <<"call", "path", 1>>, <<"answer", <<y(0)>>>>>>)
    @@ GoalCode("once", <<<<"allocate", 1>>, <<"put_variable", y(0), 0>>,
             <<"call", "first", 1>>, <<"answer", <<y(0)>>>>>>)
    @@ GoalCode("escapes", <<<<"allocate", 1>>, <<"put_variable", y(0), 0>>,
             <<"call", "escaping", 1>>, <<"answer", <<y(0)>>>>>>)
    @@ GoalCode("kinds", <<<<"allocate", 2>>, <<"put_variable", y(0), 0>>, <<"put_variable", y(1), 1>>,
             <<"call", "kind", 2>>, <<"call", "true_escape", 2>>, <<"answer", <<y(0), y(1)>>>>>>)
    @@ GoalCode("number", <<<<"allocate", 1>>, <<"put_integer", 1, 0>>, <<"put_variable", y(0), 1>>,
             <<"call", "kind", 1>>, <<"answer", <<y(0)>>>>>>)
    @@ GoalCode("struct", <<<<"allocate", 1>>, <<"put_structure", 1, 0>>, <<"set_constant", "f">>,
             <<"set_integer", 2>>, <<"put_list", 1>>, <<"set_variable", y(0)>>, <<"set_void", 1>>,
             <<"call", "kind", 1>>, <<"answer", <<y(0)>>>>>>)
    @@ GoalCode("apply", <<<<"allocate", 2>>, <<"put_variable", y(0), 0>>, <<"put_constant", "f", 1>>,
             <<"put_variable", y(1), 2>>, <<"call", "applied", 2>>, <<"answer", <<y(0), y(1)>>>>>>)
    @@ GoalCode("shared", <<<<"allocate", 1>>, <<"put_variable", y(0), 2>>, <<"put_list", 0>>,
             <<"set_value", y(0)>>, <<"set_constant", "[]">>, <<"put_constant", "[]", 1>>,
             <<"call", "append", 1>>, <<"answer", <<y(0)>>>>>>)
    @@ GoalCode("reached", <<<<"allocate", 1>>>> \o PutList1("a", 0)
        \o <<<<"put_constant", "[]", 1>>, <<"put_variable", y(0), 2>>,
             <<"call", "lists", 1>>, <<"answer", <<y(0)>>>>>>)
    @@ GoalCode("settles", <<<<"allocate", 1>>, <<"put_variable", y(0), 0>>, <<"call", "settle", 1>>,
             <<"answer", <<y(0)>>>>>>)
    @@ GoalCode("afterwards", <<<<"allocate", 1>>, <<"put_variable", y(0), 0>>, <<"call", "later", 1>>,
             <<"answer", <<y(0)>>>>>>)
    @@ GoalCode("piles", <<<<"allocate", 1>>, <<"put_variable", y(0), 0>>, <<"call", "bound", 1>>,
             <<"put_value", y(0), 0>>, <<"call", "first", 1>>, <<"answer", <<y(0)>>>>>>)
    @@ GoalCode("forgets", <<<<"allocate", 0>>, <<"call", "forget", 0>>, <<"answer", <<>>>>>>)

AllCode == Lists @@ Shapes @@ Clauses @@ Throwing @@ Goals

Arities ==
    [p \in {"append", "delete_all", "$reverse", "intersect_list", "distribute_right", "applied", "lists"} |-> 3]
    @@ [p \in {"member", "member_eq", "kind", "edge", "path"} |-> 2]
    @@ [p \in {"escaping", "first", "none", "settle", "later", "either", "true_escape", "fail_escape", "thread_symbol"} |-> 1]
    @@ [p \in {"nothing", "bound", "forget"} |-> 0]
    @@ [p \in {"throw/1$0"} |-> 2]

Dynamics ==
    [edge |-> <<"edge$1", "edge$2">>, path |-> <<"path$1", "path$2">>, lists |-> <<"lists$1">>,
     escaping |-> <<"escaping$1", "escaping$2", "escaping$3">>, none |-> <<>>]

EscapeTruth == [true_escape |-> TRUE, fail_escape |-> FALSE]

-----------------------------------------------------------------------------
(* The same as clauses and goals.                                          *)

C(c)     == <<"c", c>>
V(n)     == <<"v", n>>
N(n)     == <<"n", n>>
L(h, t)  == <<"s", ".", h, t>>
S(f, ts) == <<"s", f>> \o ts
Nil      == C("[]")
Fact(h)  == [head |-> h, body |-> <<>>]
Rule(h, b) == [head |-> h, body |-> b]

Program ==
    [append |-> <<Fact(S("append", <<Nil, V(1), V(1)>>)),
                  Rule(S("append", <<L(V(1), V(2)), V(3), L(V(1), V(4))>>),
                       <<S("append", <<V(2), V(3), V(4)>>)>>)>>,
     member_eq |-> <<Rule(S("member_eq", <<V(1), L(V(2), V(3))>>), <<S("==", <<V(1), V(2)>>)>>),
                     Rule(S("member_eq", <<V(1), L(V(2), V(3))>>), <<C("!"), S("member_eq", <<V(1), V(3)>>)>>)>>,
     delete_all |-> <<Fact(S("delete_all", <<V(1), Nil, Nil>>)),
                      Rule(S("delete_all", <<V(1), L(V(1), V(2)), V(3)>>),
                           <<C("!"), S("delete_all", <<V(1), V(2), V(3)>>)>>),
                      Rule(S("delete_all", <<V(1), L(V(2), V(3)), L(V(2), V(4))>>),
                           <<S("delete_all", <<V(1), V(3), V(4)>>)>>)>>,
     reverse |-> <<Fact(S("reverse", <<Nil, V(1), V(1)>>)),
                   Rule(S("reverse", <<L(V(1), V(2)), V(3), V(4)>>),
                        <<S("reverse", <<V(2), L(V(1), V(3)), V(4)>>)>>)>>,
     intersect_list |-> <<Fact(S("intersect_list", <<Nil, V(1), Nil>>)),
                          Rule(S("intersect_list", <<L(V(1), V(2)), V(3), V(4)>>),
                               <<S("member_eq", <<V(1), V(3)>>), C("!"), S("=", <<V(4), L(V(1), V(5))>>),
                                 S("intersect_list", <<V(2), V(3), V(5)>>)>>),
                          Rule(S("intersect_list", <<L(V(1), V(2)), V(3), V(4)>>),
                               <<S("intersect_list", <<V(2), V(3), V(4)>>)>>)>>,
     distribute_right |-> <<Rule(S("distribute_right", <<V(1), Nil, Nil>>), <<C("!")>>),
                            Rule(S("distribute_right", <<V(1), L(V(2), V(3)), L(S(",", <<V(2), V(1)>>), V(4))>>),
                                 <<S("distribute_right", <<V(1), V(3), V(4)>>)>>)>>,
     kind |-> <<Fact(S("kind", <<C("a"), C("atom")>>)), Fact(S("kind", <<N(1), N(7)>>)),
                Fact(S("kind", <<S("f", <<N(2)>>), L(C("b"), N(2))>>))>>,
     applied |-> <<Fact(S("applied", <<S("f", <<V(1)>>), C("f"), V(1)>>))>>,
     edge |-> <<Fact(S("edge", <<C("a"), C("b")>>)), Fact(S("edge", <<C("b"), C("c")>>))>>,
     path |-> <<Rule(S("path", <<V(1), V(2)>>), <<S("edge", <<V(1), V(2)>>)>>),
                Rule(S("path", <<V(1), V(2)>>), <<S("edge", <<V(1), V(3)>>), S("path", <<V(3), V(2)>>)>>)>>,
     first |-> <<Rule(S("first", <<V(1)>>), <<S("path", <<C("a"), V(1)>>), C("!")>>)>>,
     settle |-> <<Rule(S("settle", <<V(1)>>), <<C("fail")>>), Rule(S("settle", <<C("b")>>), <<C("!")>>),
                  Fact(S("settle", <<C("c")>>))>>,
     later |-> <<Rule(S("later", <<V(1)>>), <<S("edge", <<V(2), V(3)>>), S("edge", <<V(3), V(1)>>)>>)>>,
     bound |-> <<Fact(S("bound", <<>>)), Fact(S("bound", <<>>))>>,
     piled |-> <<Rule(S("piled", <<V(1)>>), <<S("bound", <<>>), S("first", <<V(1)>>)>>)>>,
     forget |-> <<Fact(S("forget", <<>>)), Fact(S("forget", <<>>))>>,
     escaping |-> <<Fact(S("escaping", <<C("a")>>))>>]
    @@ "=" :> <<Fact(S("=", <<V(1), V(1)>>))>>

One(g, ask) == [goals |-> <<g>>, ask |-> S("ans", ask)]

AllQueries ==
    [split   |-> One(S("append", <<V(1), V(2), L(C("a"), L(C("b"), Nil))>>), <<V(1), V(2)>>),
     occurs  |-> One(S("append", <<L(C("a"), Nil), V(1), V(1)>>), <<V(1)>>),
     common  |-> One(S("intersect_list", <<L(C("a"), L(C("b"), Nil)), L(C("b"), Nil), V(1)>>), <<V(1)>>),
     without |-> One(S("delete_all", <<C("a"), L(C("a"), L(C("b"), Nil)), V(1)>>), <<V(1)>>),
     pairs   |-> One(S("distribute_right", <<C("k"), L(C("a"), Nil), V(1)>>), <<V(1)>>),
     turned  |-> One(S("reverse", <<L(C("a"), L(C("b"), Nil)), Nil, V(1)>>), <<V(1)>>),
     paths   |-> One(S("path", <<C("a"), V(1)>>), <<V(1)>>),
     once    |-> One(S("first", <<V(1)>>), <<V(1)>>),
     escapes |-> One(S("escaping", <<V(1)>>), <<V(1)>>),
     kinds   |-> One(S("kind", <<V(1), V(2)>>), <<V(1), V(2)>>),
     number  |-> One(S("kind", <<N(1), V(1)>>), <<V(1)>>),
     struct  |-> One(S("kind", <<S("f", <<N(2)>>), L(V(1), V(2))>>), <<V(1)>>),
     apply   |-> One(S("applied", <<V(1), C("f"), V(2)>>), <<V(1), V(2)>>),
     shared  |-> One(S("append", <<L(V(1), Nil), Nil, V(1)>>), <<V(1)>>),
     settles |-> One(S("settle", <<V(1)>>), <<V(1)>>),
     afterwards |-> One(S("later", <<V(1)>>), <<V(1)>>),
     piles |-> One(S("piled", <<V(1)>>), <<V(1)>>),
     forgets |-> One(S("forget", <<>>), <<>>),
     reached |-> One(S("append", <<L(C("a"), Nil), Nil, V(1)>>), <<V(1)>>)]

AllAnswers == [q \in DOMAIN AllQueries |-> Answers(Program, AllQueries[q])] @@ "none" :> <<>>

-----------------------------------------------------------------------------
(* TLC works a definition out once, but not one that is put for a constant. *)

MCCode     == AllCode
MCArity    == Arities
MCDynamic  == Dynamics
MCEscapes  == EscapeTruth
MCQueries  == AllQueries
MCExpected == AllAnswers
=============================================================================
