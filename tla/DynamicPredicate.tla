-------------------------- MODULE DynamicPredicate --------------------------
(***************************************************************************)
(* A dynamic predicate: its clauses, the chains that link them, the time   *)
(* stamps that say when a clause is alive, and the count of references     *)
(* that keeps retracted clauses in memory while somebody uses the          *)
(* predicate.  A use is a goal, or a clause/2 or retract/1, of some thread,*)
(* from its first clause until its choice points are gone; uses of one     *)
(* thread or of several interleave between any two clauses.                *)
(***************************************************************************)
EXTENDS Selection, FiniteSets

CONSTANTS
    Clauses,     \* the addresses of code blocks
    Keys,        \* the index arguments that are not variables
    Uses,
    Retractors,  \* the uses that may be a retract/1
    OwnCuts,     \* whether clauses may cut while they are executed
    MaxStamp,    \* bound on the changes of the predicate
    NULL

Roles == {"goal", "clause", "retract", "retracted"}

ASSUME DynamicAssumption ==
    /\ NULL \notin Clauses \union Roles
    /\ Keys \intersect {"var", "all"} = {}
    /\ IsFiniteSet(Uses) /\ Retractors \subseteq Uses
    /\ OwnCuts \in BOOLEAN
    /\ MaxStamp \in Nat

VARIABLES
    \* DynamicPredicate
    stamp, dirty, refcount,
    chains,      \* allChain, varChain and the chain of each entry of the hash table
    entries,     \* the keys that have an entry
    \* CodeBlock
    key,         \* the index argument of the clause
    created, deleted,
    \* what a use has in its choice points, registers and trail
    role,        \* what the use is; "retracted" after the retract of its clause
    chain,       \* the chain it follows
    time,
    cur,         \* the clause it executes or looks at
    next,        \* for a goal, the clause in its choice point
    held         \* whether there is an entry for the reference on its trail

predVars  == <<stamp, dirty, refcount, chains, entries>>
blockVars == <<key, created, deleted>>
useVars   == <<role, chain, time, cur, next, held>>
vars      == <<predVars, blockVars, useVars>>

Args  == Keys \union {"var"}
Names == Args \union {"all"}

Linked(n) == {chains[n][i] : i \in DOMAIN chains[n]}

\* WORD32_MAX, a time that is never reached.
Never == MaxStamp + 2

TypeOK ==
    /\ stamp \in 1 .. MaxStamp + 1
    /\ dirty \in BOOLEAN
    /\ refcount \in Nat
    /\ chains \in [Names -> Seq(Clauses)]
    /\ entries \subseteq Keys
    /\ key \in [Clauses -> Args]
    /\ created \in [Clauses -> 0 .. MaxStamp + 1]
    /\ deleted \in [Clauses -> 1 .. Never]
    /\ role \in [Uses -> Roles \union {NULL}]
    /\ chain \in [Uses -> Names \union {NULL}]
    /\ time \in [Uses -> 0 .. MaxStamp + 1]
    /\ cur \in [Uses -> Clauses \union {NULL}]
    /\ next \in [Uses -> Clauses \union {NULL}]
    /\ held \in [Uses -> BOOLEAN]

(***************************************************************************)
(* Clauses and chains.                                                     *)
(***************************************************************************)

\* A bug the next definition avoids: the clauses of today, not those of then.
isAlive_now(c, ts) == created[c] <= ts /\ stamp < deleted[c]

isAlive(c, ts) == created[c] <= ts /\ ts < deleted[c]

toDelete(c, ts) == ts >= deleted[c]

Position(n, c) == CHOOSE i \in DOMAIN chains[n] : chains[n][i] = c

\* The first clause of chain n, from position i on, that is alive at ts.
FirstAlive(n, i, ts) ==
    LET alive == {j \in i .. Len(chains[n]) : isAlive(chains[n][j], ts)}
    IN IF alive = {} THEN NULL ELSE chains[n][CHOOSE j \in alive : \A k \in alive : j <= k]

nextAlive(n, ts) == FirstAlive(n, 1, ts)

nextNextAlive(n, c, ts) == FirstAlive(n, Position(n, c) + 1, ts)

lookUpClauseChain(k) ==
    CASE k = "var" -> "all"
      [] k \in entries -> k
      [] OTHER -> "var"

AddToChain(s, c, asserta) == IF asserta THEN <<c>> \o s ELSE Append(s, c)

\* A bug the next definition avoids: the new entry has its own clauses only.
copyVarClauses_none(k) == chains[k]

\* The chain of k to which a clause is added: that of an entry without clauses
\* starts with the clauses that match everything.
copyVarClauses(k) == IF chains[k] = <<>> THEN chains["var"] ELSE chains[k]

\* The chains to which a clause with index argument k is added.
Receivers(k) == IF k = "var" THEN {"all", "var"} \union entries ELSE {"all", k}

gcChain(s, ts) == Keep(s, {c \in Clauses : ~toDelete(c, ts)})

\* The retracted clauses are unlinked from every chain and freed.
gcPredicate(ts) == [n \in Names |-> gcChain(chains[n], ts)]

\* Bugs the next definition avoids: collecting without looking at the count, and
\* looking at it before it is decremented.
MayCollect_always == dirty
MayCollect_before == refcount = 0 /\ dirty

MayCollect == refcount = 1 /\ dirty

release ==
    /\ refcount' = refcount - 1
    /\ dirty' = (dirty /\ ~MayCollect)
    /\ chains' = IF MayCollect THEN gcPredicate(stamp) ELSE chains
    /\ UNCHANGED <<stamp, entries, blockVars>>

\* A bug the next definition avoids: the use is not counted.
aquire_none == UNCHANGED <<refcount, stamp, dirty, chains, entries, blockVars>>

aquire == refcount' = refcount + 1 /\ UNCHANGED <<stamp, dirty, chains, entries, blockVars>>

(***************************************************************************)
(* Changes and uses.                                                       *)
(***************************************************************************)

Init ==
    /\ stamp = 1 /\ dirty = FALSE /\ refcount = 0
    /\ chains = [n \in Names |-> <<>>]
    /\ entries = {}
    /\ key = [c \in Clauses |-> "var"]
    /\ created = [c \in Clauses |-> 0]
    /\ deleted = [c \in Clauses |-> Never]
    /\ role = [u \in Uses |-> NULL]
    /\ chain = [u \in Uses |-> NULL]
    /\ time = [u \in Uses |-> 0]
    /\ cur = [u \in Uses |-> NULL]
    /\ next = [u \in Uses |-> NULL]
    /\ held = [u \in Uses |-> FALSE]

\* psi_assert: of a clause at a free address.
AssertClause(c, k, asserta) ==
    /\ stamp <= MaxStamp
    /\ c \notin Linked("all")
    /\ created' = [created EXCEPT ![c] = stamp + 1]
    /\ deleted' = [deleted EXCEPT ![c] = Never]
    /\ key' = [key EXCEPT ![c] = k]
    /\ chains' = [n \in Names |->
                    IF n \notin Receivers(k) THEN chains[n]
                    ELSE AddToChain(IF n \in Keys THEN copyVarClauses(n) ELSE chains[n], c, asserta)]
    /\ entries' = entries \union ({k} \intersect Keys)
    /\ stamp' = stamp + 1
    /\ UNCHANGED <<dirty, refcount, useVars>>

\* A use begins with a clause c of chain n and puts a reference on the trail.
Enter(u, r, n, c) ==
    /\ role[u] = NULL /\ cur[u] = NULL
    /\ c # NULL
    /\ role' = [role EXCEPT ![u] = r]
    /\ chain' = [chain EXCEPT ![u] = n]
    /\ time' = [time EXCEPT ![u] = stamp]
    /\ cur' = [cur EXCEPT ![u] = c]
    /\ held' = [held EXCEPT ![u] = TRUE]
    /\ aquire

\* initializeDPcall: the call fails, and nothing changes, if no clause is alive.
BeginGoal(u, k) ==
    LET n == lookUpClauseChain(k)
        c == nextAlive(n, stamp)
    IN /\ Enter(u, "goal", n, c)
       /\ next' = [next EXCEPT ![u] = nextNextAlive(n, c, stamp)]

\* psi_predicate_stamp and psi_get_first_clause, of clause/2 or retract/1.
BeginClause(u, k) ==
    LET n == lookUpClauseChain(k)
    IN /\ \/ Enter(u, "clause", n, nextAlive(n, stamp))
          \/ u \in Retractors /\ Enter(u, "retract", n, nextAlive(n, stamp))
       /\ UNCHANGED next

\* Backtracking into a goal: the choice point goes on to the clause after its
\* next, or is popped.
DBBacktrack(u) ==
    /\ role[u] = "goal" /\ held[u] /\ next[u] # NULL
    /\ cur' = [cur EXCEPT ![u] = next[u]]
    /\ next' = [next EXCEPT ![u] = nextNextAlive(chain[u], next[u], time[u])]
    /\ UNCHANGED <<predVars, blockVars, role, chain, time, held>>

\* psi_get_next_clause, in $get_clause_ref.
NextClause(u) ==
    /\ role[u] \in {"clause", "retract", "retracted"}
    /\ LET c == nextNextAlive(chain[u], cur[u], time[u])
       IN c # NULL /\ cur' = [cur EXCEPT ![u] = c]
    /\ role' = [role EXCEPT ![u] = IF @ = "retracted" THEN "retract" ELSE @]
    /\ UNCHANGED <<predVars, blockVars, chain, time, next, held>>

\* psi_retract of the clause looked at.
Retract(u) ==
    /\ stamp <= MaxStamp
    /\ role[u] = "retract"
    /\ dirty' = TRUE
    /\ stamp' = stamp + 1
    /\ deleted' = [deleted EXCEPT ![cur[u]] = stamp + 1]
    /\ role' = [role EXCEPT ![u] = "retracted"]
    /\ UNCHANGED <<refcount, chains, entries, key, created, chain, time, cur, next, held>>

Forget(u) ==
    /\ chain' = [chain EXCEPT ![u] = NULL]
    /\ time' = [time EXCEPT ![u] = 0]
    /\ next' = [next EXCEPT ![u] = NULL]
    /\ held' = [held EXCEPT ![u] = FALSE]
    /\ role' = [role EXCEPT ![u] = NULL]

\* The use is over: backtracking past its last clause, a cut or an exception
\* further out, the exit of its thread.
End(u) ==
    /\ held[u]
    /\ cur' = [cur EXCEPT ![u] = NULL]
    /\ Forget(u)
    /\ release

\* A clause cuts, which ends the use, and goes on being executed.
OwnCut(u) ==
    /\ OwnCuts /\ role[u] = "goal"
    /\ Forget(u)
    /\ release
    /\ UNCHANGED cur

\* After its own cut a clause is done.
Proceed(u) ==
    /\ role[u] = NULL /\ cur[u] # NULL
    /\ cur' = [cur EXCEPT ![u] = NULL]
    /\ UNCHANGED <<predVars, blockVars, role, chain, time, next, held>>

Next ==
    \/ \E c \in Clauses, k \in Args, asserta \in BOOLEAN : AssertClause(c, k, asserta)
    \/ \E u \in Uses, k \in Args : BeginGoal(u, k) \/ BeginClause(u, k)
    \/ \E u \in Uses : DBBacktrack(u) \/ NextClause(u) \/ Retract(u) \/ End(u)
                       \/ OwnCut(u) \/ Proceed(u)

Spec == Init /\ [][Next]_vars

(***************************************************************************)
(* Properties.                                                             *)
(***************************************************************************)

\* No clause is freed while a use that is counted executes it, looks at it or
\* has it in its choice point: whoever retracts and collects in between.
ReferencesValid ==
    \A u \in Uses : held[u] => {cur[u], next[u]} \ {NULL} \subseteq Linked(chain[u])

\* No clause is freed while it is executed, whether it has cut or not.
RunningCodeValid ==
    \A u \in Uses : cur[u] # NULL => cur[u] \in Linked("all")

\* The chains by which calls are indexed hold exactly the clauses that match,
\* in the order of the predicate, whatever was asserted, retracted and collected.
IndexConsistent ==
    /\ chains["var"] = Keep(chains["all"], {c \in Clauses : key[c] = "var"})
    /\ \A k \in entries :
          chains[k] = Keep(chains["all"], {c \in Clauses : key[c] \in {k, "var"}})

\* When nobody uses the predicate no retracted clause is left in memory.
NoGarbage ==
    refcount = 0 => \A c \in Linked("all") : deleted[c] = Never

\* The clauses of chain n that are alive at ts, from position i on.
AliveFrom(n, i, ts) ==
    Keep(SubSeq(chains[n], i, Len(chains[n])), {c \in Clauses : isAlive(c, ts)})

\* The implementation of the logical update view: the clauses still to be given
\* to a use are those alive at its time behind where it stands.
ToCome(u) ==
    CASE ~held[u] -> <<>>
      [] held[u] /\ role[u] # "goal" -> AliveFrom(chain[u], Position(chain[u], cur[u]) + 1, time[u])
      [] held[u] /\ role[u] = "goal" ->
            IF next[u] = NULL THEN <<>>
            ELSE AliveFrom(chain[u], Position(chain[u], next[u]), time[u])

View == INSTANCE LogicalUpdateView WITH
    db    <- AliveFrom("all", 1, stamp),
    given <- [u \in Uses |-> IF held[u] THEN cur[u] ELSE NULL],
    rest  <- [u \in Uses |-> ToCome(u)]

RefinesView == View!Spec

=============================================================================
