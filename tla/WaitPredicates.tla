--------------------------- MODULE WaitPredicates ---------------------------
(***************************************************************************)
(* thread_wait_on_goal: a thread tries a goal, and when it fails waits for *)
(* the database, or for some of its predicates, to change before it tries  *)
(* again.  What was seen of the predicates is in a BlockingWaitObject      *)
(* (block.cc), made before the goal is first tried and brought up to date  *)
(* before every other try, each time in one atomic goal with the try       *)
(* (library/thread.qs).  In between other threads change the predicates.   *)
(*                                                                         *)
(* A predicate is listed as p/n, as +p/n (wait for an assert) or as -p/n   *)
(* (for a retract), and may come with the stamp it had at an earlier time. *)
(***************************************************************************)
EXTENDS Integers, FiniteSets

CONSTANTS
    Preds,      \* the dynamic predicates
    MaxChanges, \* bound on the changes of the database
    MaxListed,  \* bound on the length of the list of predicates
    NoStamp     \* an entry of the list without a stamp

ASSUME WaitAssumption ==
    /\ MaxChanges \in Nat
    /\ MaxListed \in Nat
    /\ NoStamp \notin Nat

Signs == {"any", "assert", "retract"}
Entry == [pred : Preds, sign : Signs]

VARIABLES
    stamps,    \* stamps[p][sign]: DynamicPredicate::stamp and its kind
    codeStamp, \* Code::stamp
    phase,     \* where the call is: "idle" when there is none
    wstatus,   \* block_status of the thread
    object,    \* the BlockingWaitObject
    timeout,   \* what the call may wait for: "forever", "until" or "every"
    expired,   \* the timeout of the object has passed
    since,     \* the stamps when the goal was last tried (a history)
    changed    \* what extract_changed_preds gave for the last try

waitVars == <<stamps, codeStamp, phase, wstatus, object, timeout, expired, since, changed>>

Counts == [Signs -> Nat]

\* WaitPred: stamp, assert_stamp, retract_stamp, their saved copies, modified.
WaitPred == [stamp : Counts, saved : Counts, modified : BOOLEAN]
NoObject == [preds |-> <<>>, code |-> 0, wake |-> FALSE]

WaitTypeOK ==
    /\ stamps \in [Preds -> Counts]
    /\ codeStamp \in 0 .. MaxChanges
    /\ phase \in {"idle", "wait", "retry"}
    /\ wstatus \in {"running", "blocked", "restart_wait", "restart_time"}
    /\ object.code \in Nat /\ object.wake \in BOOLEAN
    /\ DOMAIN object.preds \subseteq Entry
    /\ \A e \in DOMAIN object.preds : object.preds[e] \in WaitPred
    /\ timeout \in {"forever", "until", "every"}
    /\ expired \in BOOLEAN
    /\ since \in [stamps : [Preds -> Counts], code : 0 .. MaxChanges]
    /\ changed \subseteq Entry

Current == [stamps |-> stamps, code |-> codeStamp]

WaitInit ==
    /\ stamps = [p \in Preds |-> [s \in Signs |-> 0]]
    /\ codeStamp = 0
    /\ phase = "idle"
    /\ wstatus = "running"
    /\ object = NoObject
    /\ timeout = "forever"
    /\ expired = FALSE
    /\ since = Current
    /\ changed = {}

-----------------------------------------------------------------------------
(* The database.                                                           *)

\* psi_assert and psi_retract stamp the code, the predicate and its kind.
\* kind = "any": what changes the code area only, as the global state does.
Changed(p, kind) ==
    /\ codeStamp < MaxChanges
    /\ codeStamp' = codeStamp + 1
    /\ stamps' = IF kind = "any" THEN stamps
                 ELSE [stamps EXCEPT ![p]["any"] = @ + 1, ![p][kind] = @ + 1]

Change(p, kind) ==
    /\ Changed(p, kind)
    /\ UNCHANGED <<phase, wstatus, object, timeout, expired, since, changed>>

\* What the goal itself changes before it fails, if anything.
GoalEffect == UNCHANGED <<stamps, codeStamp>> \/ \E p \in Preds, k \in Signs : Changed(p, k)

-----------------------------------------------------------------------------
(* The blocking object.                                                    *)

\* BlockingWaitObject: given[e] is the stamp that came with the entry.
NewWaitPred(e, given) ==
    LET stamp == [s \in Signs |-> IF s = e.sign /\ given[e] # NoStamp
                                  THEN given[e] ELSE stamps[e.pred][s]] IN
    [stamp |-> stamp, saved |-> stamp, modified |-> FALSE]

\* A bug the next definition avoids: only the stamp of the predicate is looked at.
UpdateStamps_any(e, wp) ==
    LET new == stamps[e.pred] IN
    IF new["any"] = wp.stamp["any"] THEN wp
    ELSE [stamp |-> [wp.saved EXCEPT !["any"] = new["any"]], saved |-> new, modified |-> TRUE]

\* WaitPred::updateStamps
UpdateStamps(e, wp) ==
    LET new == stamps[e.pred] IN
    IF new["any"] # wp.stamp["any"]
    THEN [stamp |-> [wp.saved EXCEPT !["any"] = new["any"]],
          saved |-> new, modified |-> TRUE]
    ELSE IF new["assert"] # wp.stamp["assert"]
    THEN [stamp |-> [wp.stamp EXCEPT !["assert"] = wp.saved["assert"]],
          saved |-> [wp.saved EXCEPT !["assert"] = new["assert"]], modified |-> TRUE]
    ELSE IF new["retract"] # wp.stamp["retract"]
    THEN [stamp |-> [wp.stamp EXCEPT !["retract"] = wp.saved["retract"]],
          saved |-> [wp.saved EXCEPT !["retract"] = new["retract"]], modified |-> TRUE]
    ELSE wp

\* A bug the next definition avoids: a retract is looked for in the asserts.
IsUnblocked_assert ==
    IF object.preds = <<>> THEN object.code < codeStamp
    ELSE \E e \in DOMAIN object.preds :
            LET wp   == object.preds[e]
                sign == IF e.sign = "any" THEN "any" ELSE "assert" IN
            (IF sign = "any" THEN wp.stamp[sign] ELSE wp.saved[sign]) < stamps[e.pred][sign]

\* BlockingWaitObject::is_unblocked
IsUnblocked ==
    IF object.preds = <<>> THEN object.code < codeStamp
    ELSE \E e \in DOMAIN object.preds :
            LET wp == object.preds[e] IN
            (IF e.sign = "any" THEN wp.stamp["any"] ELSE wp.saved[e.sign])
                < stamps[e.pred][e.sign]

-----------------------------------------------------------------------------
(* The call.                                                               *)

\* $thread_wait_on_goal_atomic: the object is made and the goal tried, unless
\* the first predicate of the list has a stamp.  It failed, or there is no wait.
Setup(list, given, first, limit) ==
    LET tried == list = {} \/ given[first] = NoStamp IN
    /\ phase = "idle"
    /\ phase' = "wait"
    /\ object' = [preds |-> [e \in list |-> NewWaitPred(e, given)],
                  code |-> codeStamp, wake |-> FALSE]
    /\ timeout' = limit
    /\ expired' = FALSE
    /\ since' = IF tried THEN Current
                ELSE [Current EXCEPT !.stamps = [p \in Preds |-> [s \in Signs |->
                        LET e == [pred |-> p, sign |-> s] IN
                        IF e \in list /\ given[e] # NoStamp THEN given[e] ELSE stamps[p][s]]]]
    /\ IF tried THEN GoalEffect ELSE UNCHANGED <<stamps, codeStamp>>
    /\ changed' = {}
    /\ UNCHANGED wstatus

\* The object is deleted when the goal has succeeded, or the wait has failed.
Free ==
    /\ phase' = "idle"
    /\ object' = NoObject
    /\ timeout' = "forever"
    /\ expired' = FALSE
    /\ since' = Current
    /\ changed' = {}
    /\ wstatus' = "running"

TimedOut == object.wake /\ ~IsUnblocked

\* psi_thread_wait_ptr
WaitPtr ==
    /\ phase = "wait"
    /\ wstatus # "blocked"
    /\ \/ /\ IsUnblocked \/ (~object.wake /\ wstatus # "running")
          /\ phase' = "retry"
          /\ wstatus' = "running"
          /\ UNCHANGED <<object, timeout, expired, since, changed>>
       \/ /\ TimedOut
          /\ Free
       \/ /\ ~IsUnblocked /\ ~object.wake /\ wstatus = "running"
          /\ wstatus' = "blocked"
          /\ UNCHANGED <<phase, object, timeout, expired, since, changed>>
    /\ UNCHANGED <<stamps, codeStamp>>

\* BlockingWaitObject::unblock in the scheduler's walk.
Unblocked ==
    /\ wstatus = "blocked"
    /\ \/ /\ IsUnblocked
          /\ wstatus' = "restart_wait"
          /\ UNCHANGED object
       \/ /\ ~IsUnblocked /\ expired
          /\ wstatus' = "restart_time"
          /\ object' = [object EXCEPT !.wake = timeout # "every"]
    /\ expired' = (expired /\ timeout # "every")
    /\ UNCHANGED <<stamps, codeStamp, phase, timeout, since, changed>>

Expire ==
    /\ phase # "idle"
    /\ timeout # "forever"
    /\ ~expired
    /\ expired' = TRUE
    /\ UNCHANGED <<stamps, codeStamp, phase, wstatus, object, timeout, since, changed>>

\* extract_changed_preds
Extract(preds) == {e \in DOMAIN preds : preds[e].modified}

\* $_wait_atomic: BlockingWaitObject::update, extract_changed_preds and the goal.
WaitAtomic ==
    LET updated == [e \in DOMAIN object.preds |-> UpdateStamps(e, object.preds[e])] IN
    /\ phase = "retry"
    /\ \/ /\ Free
          /\ UNCHANGED <<stamps, codeStamp>>
       \/ /\ phase' = "wait"
          /\ object' = [object EXCEPT
                !.preds = [e \in DOMAIN updated |-> [updated[e] EXCEPT !.modified = FALSE]],
                !.code = codeStamp]
          /\ changed' = Extract(updated)
          /\ since' = Current
          /\ GoalEffect
          /\ UNCHANGED <<wstatus, timeout, expired>>

PredLists == {list \in SUBSET Entry : Cardinality(list) <= MaxListed}

\* The stamps an entry may come with: those of a time that is past.
Given(list) ==
    {g \in [list -> (0 .. MaxChanges) \union {NoStamp}] :
        \A e \in list : g[e] # NoStamp => g[e] <= stamps[e.pred][e.sign]}

WaitNext ==
    \/ \E p \in Preds, kind \in Signs : Change(p, kind)
    \/ /\ phase = "idle"
       /\ \E list \in PredLists, limit \in {"forever", "until", "every"} :
            \E given \in Given(list), first \in Entry :
                /\ list # {} => first \in list
                /\ Setup(list, given, first, limit)
    \/ WaitPtr
    \/ Unblocked
    \/ Expire
    \/ WaitAtomic

WaitSpec == WaitInit /\ [][WaitNext]_waitVars

\* The thread runs when it may, and the scheduler walks the blocked threads.
WaitFairness == WF_waitVars(WaitPtr) /\ WF_waitVars(Unblocked) /\ WF_waitVars(WaitAtomic)

-----------------------------------------------------------------------------
(* Properties.                                                             *)

\* A change the goal has not seen is waited for: the database when no predicate
\* is listed, else a predicate of the list, by an assert or a retract if so asked.
Unseen ==
    IF object.preds = <<>> THEN since.code < codeStamp
    ELSE \E e \in DOMAIN object.preds :
            since.stamps[e.pred][e.sign] < stamps[e.pred][e.sign]

\* No change is missed: after one the goal has not seen, the wait is over at
\* the next look (thread_escapes.cc:792), however the stamps were brought up
\* to date in the tries before (block.cc:157).
NoChangeMissed == phase = "wait" /\ Unseen => IsUnblocked

\* The call fails only when its time is up, and not over an unseen change.
FailsInTime ==
    [][phase = "wait" /\ phase' = "idle" => timeout = "until" /\ expired /\ ~Unseen]_waitVars

\* What changed in the way it was listed, since the goal was last tried, is
\* among the changed predicates that the next try is given.
AllReported ==
    [][phase = "retry" /\ phase' = "wait" =>
        \A e \in DOMAIN object.preds :
            since.stamps[e.pred][e.sign] < stamps[e.pred][e.sign] => e \in changed']_waitVars

\* The manual of thread_wait_on_goal: "CPreds will be rebound to those
\* predicates in PredList that have been changed since the last time Goal was
\* tried" (doc/manual/SEC3.html).
OnlyChangedReported ==
    [][phase = "retry" /\ phase' = "wait" =>
        \A e \in changed' : since.stamps[e.pred] # stamps[e.pred]]_waitVars

\* An unseen change of a predicate that is waited for has the goal tried again.
ChangeTried == (phase = "wait" /\ Unseen) ~> (phase # "wait")

\* A waiting thread has the stamps that tell it of every change (block.cc).
WaitSound == WaitTypeOK /\ NoChangeMissed

\* A try fails, or is given its changes, for the right reason.
TriesRight == FailsInTime /\ AllReported
=============================================================================
