------------------------- MODULE LogicalUpdateView -------------------------
(***************************************************************************)
(* What a dynamic predicate promises to the goals, clause and retract that *)
(* use it: each gets, in their order, the clauses that match its index     *)
(* argument and that the predicate had when the use began, whatever is     *)
(* asserted and retracted by itself or others in the meantime.             *)
(***************************************************************************)
EXTENDS Selection

CONSTANTS Clauses, Keys, Uses, NULL

VARIABLES
    db,      \* the clauses of the predicate
    key,     \* the index argument of each, "var" if it matches every other
    given,   \* the clause each use has been given last
    rest     \* the clauses it is still to be given

vars == <<db, key, given, rest>>

Args == Keys \union {"var"}

Among(c, s) == \E i \in DOMAIN s : s[i] = c

Matching(k) == Keep(db, {c \in Clauses : k = "var" \/ key[c] \in {k, "var"}})

Init ==
    /\ db = <<>>
    /\ key = [c \in Clauses |-> "var"]
    /\ given = [u \in Uses |-> NULL]
    /\ rest = [u \in Uses |-> <<>>]

\* A new clause: one nobody has any more.
Add(c, k) ==
    /\ key' = [key EXCEPT ![c] = k]
    /\ UNCHANGED given
    /\ \A u \in Uses : given[u] # c /\ ~Among(c, rest[u])
    /\ ~Among(c, db)
    /\ db' \in {<<c>> \o db, Append(db, c)}
    /\ UNCHANGED rest

Begin(u, k) ==
    /\ given[u] = NULL
    /\ LET m == Matching(k) IN
          /\ m # <<>>
          /\ given' = [given EXCEPT ![u] = Head(m)]
          /\ rest' = [rest EXCEPT ![u] = Tail(m)]
    /\ UNCHANGED <<db, key>>

Redo(u) ==
    /\ given[u] # NULL /\ rest[u] # <<>>
    /\ given' = [given EXCEPT ![u] = Head(rest[u])]
    /\ rest' = [rest EXCEPT ![u] = Tail(rest[u])]
    /\ UNCHANGED <<db, key>>

Retract(u) ==
    /\ given[u] # NULL /\ UNCHANGED given
    /\ db' = Keep(db, Clauses \ {given[u]})
    /\ UNCHANGED <<key, rest>>

\* A use gives up.
End(u) ==
    /\ given' = [given EXCEPT ![u] = NULL]
    /\ rest' = [rest EXCEPT ![u] = <<>>]
    /\ UNCHANGED <<db, key>>

\* The index arguments of clauses that are gone for good do not matter.
Next ==
    \/ \E c \in Clauses, k \in Args : Add(c, k)
    \/ \E u \in Uses : Redo(u) \/ Retract(u) \/ End(u)
    \/ \E u \in Uses, k \in Args : Begin(u, k)

Spec == Init /\ [][Next]_vars

=============================================================================
