------------------------ MODULE WaitPredicatesProofs ------------------------
(***************************************************************************)
(* That a thread which waits with thread_wait_on_goal misses no change of  *)
(* what it waits for, is told of every change when it tries again, and     *)
(* fails only when its time is up: for any set of predicates, any bound on *)
(* the changes and any list.                                               *)
(*                                                                         *)
(* None of the three is inductive.  BlockingWaitObject keeps two copies of *)
(* the three stamps of a predicate, and updateStamps brings only a part of *)
(* them up to date, which part depending on what has changed: the copies   *)
(* of one try are not a state of the predicate.  What does hold of them,   *)
(* after any number of tries, is SeesChanges and TellsChanges.             *)
(***************************************************************************)
EXTENDS WaitPredicates, TLAPS

\* object is a BlockingWaitObject, as every assignment leaves it.
IsObject == object = [preds |-> object.preds, code |-> object.code, wake |-> object.wake]

\* The stamp is_unblocked looks at.
Compared(e) == IF e.sign = "any" THEN object.preds[e].stamp["any"]
               ELSE object.preds[e].saved[e.sign]

\* Stamps only grow: those of the last try are those of the past.
PastInv ==
    /\ \A p \in Preds, s \in Signs : since.stamps[p][s] <= stamps[p][s]
    /\ object.code <= since.code

\* is_unblocked looks at a stamp no later than that of the last try.
SeesChanges == \A e \in DOMAIN object.preds : Compared(e) <= since.stamps[e.pred][e.sign]

\* updateStamps finds a change when the stamp of the predicate is not the one
\* it has; when it is, either nothing has happened in the way that is listed or
\* the stamp of that kind tells.
Tells(e) ==
    LET seen == object.preds[e].stamp
        now  == stamps[e.pred] IN
    /\ seen["any"] <= now["any"]
    /\ seen["any"] = now["any"] => \/ now[e.sign] = since.stamps[e.pred][e.sign]
                                   \/ now[e.sign] # seen[e.sign]
TellsChanges == \A e \in DOMAIN object.preds : Tells(e)

\* The object has been woken for the time only when the time was up for good.
TimeInv ==
    /\ object.wake => timeout = "until" /\ expired
    /\ expired => timeout # "forever"

Waiting ==
    /\ WaitTypeOK
    /\ IsObject
    /\ PastInv
    /\ SeesChanges
    /\ TellsChanges
    /\ TimeInv

-----------------------------------------------------------------------------
(* The parts of an object and the stamps.                                  *)

LEMMA NoObjectEmpty ==
    /\ DOMAIN NoObject.preds = {}
    /\ NoObject.code = 0
    /\ NoObject.code \in Nat
    /\ ~NoObject.wake
    /\ NoObject.wake \in BOOLEAN
    /\ NoObject = [preds |-> NoObject.preds, code |-> NoObject.code, wake |-> NoObject.wake]
BY DEF NoObject

\* A change stamps: nothing is stamped with an earlier time, the code area is
\* stamped, and a predicate is stamped whenever one of its kinds is.
LEMMA ChangedGrows ==
    ASSUME WaitTypeOK, NEW q \in Preds, NEW k \in Signs, Changed(q, k)
    PROVE  /\ stamps' \in [Preds -> Counts]
           /\ codeStamp' \in 0 .. MaxChanges
           /\ codeStamp < codeStamp'
           /\ \A p \in Preds, s \in Signs : stamps[p][s] <= stamps'[p][s]
           /\ \A p \in Preds : stamps'[p] = stamps[p] \/ stamps[p]["any"] < stamps'[p]["any"]
<1>0. /\ codeStamp \in Nat /\ codeStamp < MaxChanges /\ codeStamp' = codeStamp + 1
      /\ MaxChanges \in Nat
    BY WaitAssumption DEF Changed, WaitTypeOK
<1>1. stamps \in [Preds -> Counts] /\ "any" \in Signs
    BY DEF WaitTypeOK, Signs
<1>2. CASE k = "any"
    BY <1>0, <1>1, <1>2 DEF Changed, Counts
<1>3. CASE k # "any"
    <2> DEFINE new == [stamps[q] EXCEPT !["any"] = stamps[q]["any"] + 1,
                                        ![k] = stamps[q][k] + 1]
    <2>0. stamps[q] \in [Signs -> Nat] /\ stamps[q]["any"] \in Nat /\ stamps[q][k] \in Nat
        BY <1>1 DEF Counts
    <2>1. stamps' = [stamps EXCEPT ![q] = new]
        BY <1>1, <1>3, <2>0 DEF Changed, Counts
    <2>2. new \in [Signs -> Nat] /\ new["any"] = stamps[q]["any"] + 1
        BY <1>1, <1>3, <2>0
    <2>3. \A s \in Signs : stamps[q][s] <= new[s]
        BY <1>1, <1>3, <2>0
    <2> HIDE DEF new
    <2>4. ASSUME NEW p \in Preds
          PROVE  /\ \A s \in Signs : stamps[p][s] <= stamps'[p][s]
                 /\ stamps'[p] = stamps[p] \/ stamps[p]["any"] < stamps'[p]["any"]
        <3>1. CASE p = q
            BY <1>1, <2>0, <2>1, <2>2, <2>3, <3>1
        <3>2. CASE p # q
            BY <1>1, <2>1, <3>2 DEF Counts
        <3> QED BY <3>1, <3>2
    <2>5. stamps' \in [Preds -> Counts]
        BY <1>1, <2>1, <2>2 DEF Counts
    <2> QED BY <1>0, <2>4, <2>5
<1> QED BY <1>2, <1>3

\* The same of a goal that may have changed something before it failed.
LEMMA EffectGrows ==
    ASSUME WaitTypeOK, GoalEffect \/ UNCHANGED <<stamps, codeStamp>>
    PROVE  /\ stamps' \in [Preds -> Counts]
           /\ codeStamp' \in 0 .. MaxChanges
           /\ codeStamp <= codeStamp'
           /\ \A p \in Preds, s \in Signs : stamps[p][s] <= stamps'[p][s]
           /\ \A p \in Preds : stamps'[p] = stamps[p] \/ stamps[p]["any"] < stamps'[p]["any"]
<1>1. CASE UNCHANGED <<stamps, codeStamp>>
    BY <1>1, WaitAssumption DEF WaitTypeOK, Counts
<1>2. ASSUME NEW q \in Preds, NEW k \in Signs, Changed(q, k)
      PROVE  codeStamp <= codeStamp'
    BY <1>2, ChangedGrows, WaitAssumption DEF WaitTypeOK
<1>3. CASE \E q \in Preds, k \in Signs : Changed(q, k)
    BY <1>2, <1>3, ChangedGrows
<1> QED BY <1>1, <1>3 DEF GoalEffect

\* What is true of an entry stays true when only the stamps grow.
LEMMA StampsGrow ==
    ASSUME Waiting, NEW e \in DOMAIN object.preds,
           UNCHANGED <<object, since>>,
           \A p \in Preds, s \in Signs : stamps[p][s] <= stamps'[p][s],
           \A p \in Preds : stamps'[p] = stamps[p] \/ stamps[p]["any"] < stamps'[p]["any"],
           stamps' \in [Preds -> Counts]
    PROVE  Tells(e)'
<1>1. /\ e.pred \in Preds /\ e.sign \in Signs /\ "any" \in Signs
      /\ object.preds[e].stamp["any"] \in Nat
      /\ stamps[e.pred]["any"] \in Nat /\ stamps'[e.pred]["any"] \in Nat
    BY DEF Waiting, WaitTypeOK, WaitPred, Counts, Entry, Signs
<1>2. Tells(e)
    BY DEF Waiting, TellsChanges
<1>3. CASE stamps'[e.pred] = stamps[e.pred]
    BY <1>2, <1>3 DEF Tells
<1>4. CASE stamps[e.pred]["any"] < stamps'[e.pred]["any"]
    BY <1>1, <1>2, <1>4 DEF Tells
<1> QED BY <1>1, <1>3, <1>4

-----------------------------------------------------------------------------
(* What updateStamps does to an entry.                                     *)

LEMMA UpdateRight ==
    ASSUME Waiting, NEW e \in DOMAIN object.preds
    PROVE  LET new == UpdateStamps(e, object.preds[e])
               now == stamps[e.pred] IN
           /\ new \in WaitPred
           /\ new.stamp["any"] = now["any"]
           /\ (IF e.sign = "any" THEN new.stamp["any"] ELSE new.saved[e.sign]) <= now[e.sign]
           /\ since.stamps[e.pred][e.sign] < now[e.sign] => new.modified
<1> DEFINE wp  == object.preds[e]
           now == stamps[e.pred]
           new == UpdateStamps(e, wp)
           old == since.stamps[e.pred][e.sign]
<1>1. /\ wp \in WaitPred /\ now \in Counts
      /\ e.sign \in Signs /\ "any" \in Signs /\ "assert" \in Signs /\ "retract" \in Signs
      /\ old \in Nat /\ old <= now[e.sign]
    BY DEF Waiting, PastInv, WaitTypeOK, Entry, Counts, Signs
<1>2. /\ (IF e.sign = "any" THEN wp.stamp["any"] ELSE wp.saved[e.sign]) <= old
      /\ wp.stamp["any"] <= now["any"]
      /\ wp.stamp["any"] = now["any"] =>
            now[e.sign] = old \/ now[e.sign] # wp.stamp[e.sign]
    BY DEF Waiting, SeesChanges, TellsChanges, Tells, Compared
<1>3. e.sign \in {"any", "assert", "retract"}
    BY <1>1 DEF Signs
<1>4. /\ wp.stamp \in [Signs -> Nat] /\ wp.saved \in [Signs -> Nat] /\ now \in [Signs -> Nat]
      /\ wp.modified \in BOOLEAN
    BY <1>1 DEF WaitPred, Counts
<1>5. new = IF now["any"] # wp.stamp["any"]
            THEN [stamp |-> [wp.saved EXCEPT !["any"] = now["any"]],
                  saved |-> now, modified |-> TRUE]
            ELSE IF now["assert"] # wp.stamp["assert"]
            THEN [stamp |-> [wp.stamp EXCEPT !["assert"] = wp.saved["assert"]],
                  saved |-> [wp.saved EXCEPT !["assert"] = now["assert"]], modified |-> TRUE]
            ELSE IF now["retract"] # wp.stamp["retract"]
            THEN [stamp |-> [wp.stamp EXCEPT !["retract"] = wp.saved["retract"]],
                  saved |-> [wp.saved EXCEPT !["retract"] = now["retract"]], modified |-> TRUE]
            ELSE wp
    BY DEF UpdateStamps
<1> HIDE DEF wp, now, new, old
<1>6. CASE now["any"] # wp.stamp["any"]
    <2>1. new = [stamp |-> [wp.saved EXCEPT !["any"] = now["any"]],
                 saved |-> now, modified |-> TRUE]
        BY <1>5, <1>6
    <2>2. new \in WaitPred /\ new.stamp["any"] = now["any"] /\ new.saved = now /\ new.modified
        BY <2>1, <1>1, <1>4 DEF WaitPred, Counts
    <2> QED BY <2>2, <1>1, <1>4 DEF wp, now, new, old
<1>7. CASE now["any"] = wp.stamp["any"] /\ now["assert"] # wp.stamp["assert"]
    <2>1. new = [stamp |-> [wp.stamp EXCEPT !["assert"] = wp.saved["assert"]],
                 saved |-> [wp.saved EXCEPT !["assert"] = now["assert"]], modified |-> TRUE]
        BY <1>5, <1>7
    <2>2. /\ new \in WaitPred /\ new.stamp["any"] = now["any"] /\ new.modified
          /\ new.saved["assert"] = now["assert"] /\ new.saved["retract"] = wp.saved["retract"]
        BY <2>1, <1>1, <1>4, <1>7 DEF WaitPred, Counts
    <2>3. (IF e.sign = "any" THEN new.stamp["any"] ELSE new.saved[e.sign]) <= now[e.sign]
        <3>1. CASE e.sign = "any"
            BY <3>1, <2>2, <1>1, <1>4
        <3>2. CASE e.sign = "assert"
            BY <3>2, <2>2, <1>1, <1>4
        <3>3. CASE e.sign = "retract"
            BY <3>3, <2>2, <1>1, <1>2, <1>4
        <3> QED BY <3>1, <3>2, <3>3, <1>3
    <2> QED BY <2>2, <2>3 DEF wp, now, new, old
<1>8. CASE /\ now["any"] = wp.stamp["any"] /\ now["assert"] = wp.stamp["assert"]
           /\ now["retract"] # wp.stamp["retract"]
    <2>1. new = [stamp |-> [wp.stamp EXCEPT !["retract"] = wp.saved["retract"]],
                 saved |-> [wp.saved EXCEPT !["retract"] = now["retract"]], modified |-> TRUE]
        BY <1>5, <1>8
    <2>2. /\ new \in WaitPred /\ new.stamp["any"] = now["any"] /\ new.modified
          /\ new.saved["retract"] = now["retract"] /\ new.saved["assert"] = wp.saved["assert"]
        BY <2>1, <1>1, <1>4, <1>8 DEF WaitPred, Counts
    <2>3. (IF e.sign = "any" THEN new.stamp["any"] ELSE new.saved[e.sign]) <= now[e.sign]
        <3>1. CASE e.sign = "any"
            BY <3>1, <2>2, <1>1, <1>4
        <3>2. CASE e.sign = "retract"
            BY <3>2, <2>2, <1>1, <1>4
        <3>3. CASE e.sign = "assert"
            BY <3>3, <2>2, <1>1, <1>2, <1>4
        <3> QED BY <3>1, <3>2, <3>3, <1>3
    <2> QED BY <2>2, <2>3 DEF wp, now, new, old
<1>9. CASE /\ now["any"] = wp.stamp["any"] /\ now["assert"] = wp.stamp["assert"]
           /\ now["retract"] = wp.stamp["retract"]
    <2>1. new = wp
        BY <1>5, <1>9
    <2>2. now[e.sign] = wp.stamp[e.sign]
        BY <1>3, <1>9
    <2>3. now[e.sign] = old
        BY <2>2, <1>2, <1>9
    <2>4. (IF e.sign = "any" THEN wp.stamp["any"] ELSE wp.saved[e.sign]) <= now[e.sign]
        BY <2>3, <1>2
    <2>5. ~ (old < now[e.sign])
        BY <2>3, <1>1
    <2> QED BY <2>1, <2>4, <2>5, <1>1, <1>9 DEF wp, now, new, old
<1> QED BY <1>6, <1>7, <1>8, <1>9

-----------------------------------------------------------------------------
(* Every action keeps the invariant.                                       *)

LEMMA InitWaiting == WaitInit => Waiting
<1> SUFFICES ASSUME WaitInit PROVE Waiting
    OBVIOUS
<1>1. stamps \in [Preds -> Counts] /\ codeStamp = 0 /\ 0 \in 0 .. MaxChanges
    BY WaitAssumption DEF WaitInit, Counts
<1>2. since.stamps = stamps /\ since.code = codeStamp /\ object = NoObject
      /\ since = [stamps |-> stamps, code |-> codeStamp]
    BY DEF WaitInit, Current
<1>3. WaitTypeOK
    <2>1. /\ object.code \in Nat /\ object.wake \in BOOLEAN
          /\ DOMAIN object.preds = {}
        BY <1>2, NoObjectEmpty
    <2>2. since \in [stamps : [Preds -> Counts], code : 0 .. MaxChanges]
        BY <1>1, <1>2
    <2> QED BY <1>1, <2>1, <2>2 DEF WaitInit, WaitTypeOK
<1>4. IsObject
    BY <1>2, NoObjectEmpty DEF IsObject
<1>5. PastInv
    BY <1>1, <1>2, NoObjectEmpty DEF PastInv, Counts
<1>6. SeesChanges /\ TellsChanges
    BY <1>2, NoObjectEmpty DEF SeesChanges, TellsChanges
<1>7. TimeInv
    BY <1>2, NoObjectEmpty DEF WaitInit, TimeInv
<1> QED BY <1>3, <1>4, <1>5, <1>6, <1>7 DEF Waiting

LEMMA ChangeWaiting ==
    ASSUME Waiting, NEW p \in Preds, NEW k \in Signs, Change(p, k)
    PROVE  Waiting'
<1>0. WaitTypeOK /\ Changed(p, k)
      /\ UNCHANGED <<phase, wstatus, object, timeout, expired, since, changed>>
    BY DEF Waiting, Change
<1>1. /\ stamps' \in [Preds -> Counts] /\ codeStamp' \in 0 .. MaxChanges
      /\ \A q \in Preds, s \in Signs : stamps[q][s] <= stamps'[q][s]
      /\ \A q \in Preds : stamps'[q] = stamps[q] \/ stamps[q]["any"] < stamps'[q]["any"]
    BY <1>0, ChangedGrows
<1>2. WaitTypeOK'
    BY <1>0, <1>1 DEF WaitTypeOK
<1>3. IsObject' /\ SeesChanges' /\ TimeInv'
    BY <1>0 DEF Waiting, IsObject, SeesChanges, TimeInv, Compared
<1>4. PastInv'
    <2> SUFFICES ASSUME NEW q \in Preds, NEW s \in Signs
                 PROVE  since.stamps[q][s] <= stamps'[q][s]
        BY <1>0 DEF PastInv, Waiting
    <2> QED BY <1>0, <1>1 DEF PastInv, Waiting, WaitTypeOK, Counts
<1>5. TellsChanges'
    BY <1>0, <1>1, StampsGrow DEF TellsChanges
<1> QED BY <1>2, <1>3, <1>4, <1>5 DEF Waiting

\* The object is gone: nothing is listed.
LEMMA FreeWaiting ==
    ASSUME Waiting, Free, UNCHANGED <<stamps, codeStamp>>
    PROVE  Waiting'
<1>1. /\ object' = NoObject /\ since' = [stamps |-> stamps, code |-> codeStamp]
      /\ since'.stamps = stamps /\ since'.code = codeStamp
      /\ expired' = FALSE /\ timeout' = "forever" /\ phase' = "idle"
      /\ wstatus' = "running" /\ changed' = {}
    BY DEF Free, Current
<1>2. WaitTypeOK'
    <2>1. /\ object'.code \in Nat /\ object'.wake \in BOOLEAN
          /\ DOMAIN object'.preds = {}
        BY <1>1, NoObjectEmpty
    <2>2. stamps \in [Preds -> Counts] /\ codeStamp \in 0 .. MaxChanges
        BY DEF Waiting, WaitTypeOK
    <2>3. since' \in [stamps : [Preds -> Counts], code : 0 .. MaxChanges]
        BY <1>1, <2>2
    <2> QED BY <1>1, <2>1, <2>2, <2>3 DEF WaitTypeOK
<1>3. IsObject' /\ SeesChanges' /\ TellsChanges' /\ TimeInv'
    BY <1>1, NoObjectEmpty DEF IsObject, SeesChanges, TellsChanges, TimeInv
<1>4. PastInv'
    BY <1>1, NoObjectEmpty DEF PastInv, Waiting, WaitTypeOK, Counts
<1> QED BY <1>2, <1>3, <1>4 DEF Waiting

LEMMA WaitPtrWaiting ==
    ASSUME Waiting, WaitPtr
    PROVE  Waiting'
<1>1. CASE Free /\ UNCHANGED <<stamps, codeStamp>>
    BY <1>1, FreeWaiting
<1>2. CASE /\ phase' \in {"wait", "retry"} /\ wstatus' \in {"running", "blocked"}
           /\ UNCHANGED <<stamps, codeStamp, object, timeout, expired, since, changed>>
    BY <1>2 DEF Waiting, WaitTypeOK, IsObject, PastInv, SeesChanges, Compared, TellsChanges,
                Tells, TimeInv
<1> QED BY <1>1, <1>2 DEF WaitPtr

LEMMA UnblockedWaiting ==
    ASSUME Waiting, Unblocked
    PROVE  Waiting'
<1>0. /\ expired' = (expired /\ timeout # "every")
      /\ UNCHANGED <<stamps, codeStamp, phase, timeout, since, changed>>
      /\ wstatus' \in {"restart_wait", "restart_time"}
      /\ expired \in BOOLEAN /\ object.wake \in BOOLEAN
    BY DEF Unblocked, Waiting, WaitTypeOK
<1>1. /\ object'.preds = object.preds /\ object'.code = object.code
      /\ object' = [preds |-> object.preds, code |-> object.code, wake |-> object'.wake]
      /\ \/ object'.wake = object.wake
         \/ expired /\ object'.wake = (timeout # "every")
    <2>1. object = [preds |-> object.preds, code |-> object.code, wake |-> object.wake]
        BY DEF Waiting, IsObject
    <2>2. CASE object' = object
        BY <2>1, <2>2
    <2>3. CASE expired /\ object' = [object EXCEPT !.wake = timeout # "every"]
        BY <2>1, <2>3
    <2> QED BY <2>2, <2>3 DEF Unblocked
<1>2. WaitTypeOK'
    BY <1>0, <1>1 DEF Waiting, WaitTypeOK
<1>3. IsObject'
    BY <1>1 DEF IsObject
<1>4. PastInv' /\ SeesChanges' /\ TellsChanges'
    BY <1>0, <1>1 DEF Waiting, PastInv, SeesChanges, Compared, TellsChanges, Tells
<1>5. TimeInv'
    <2>1. timeout \in {"forever", "until", "every"}
        BY DEF Waiting, WaitTypeOK
    <2>2. (object.wake => timeout = "until" /\ expired) /\ (expired => timeout # "forever")
        BY DEF Waiting, TimeInv
    <2>3. object'.wake => timeout = "until" /\ expired
        BY <1>1, <2>1, <2>2
    <2> QED BY <1>0, <2>2, <2>3 DEF TimeInv
<1> QED BY <1>2, <1>3, <1>4, <1>5 DEF Waiting

LEMMA ExpireWaiting ==
    ASSUME Waiting, Expire
    PROVE  Waiting'
BY DEF Expire, Waiting, WaitTypeOK, IsObject, PastInv, SeesChanges, Compared, TellsChanges,
       Tells, TimeInv

\* An object is made: what it has of an entry is a stamp of the past, that the
\* entry came with, or the one of now.
LEMMA SetupWaiting ==
    ASSUME Waiting, NEW list \in PredLists, NEW limit \in {"forever", "until", "every"},
           NEW given \in Given(list), NEW first \in Entry,
           list # {} => first \in list,
           Setup(list, given, first, limit)
    PROVE  Waiting'
<1> DEFINE tried == list = {} \/ given[first] = NoStamp
           made  == [e \in list |-> NewWaitPred(e, given)]
<1>0. /\ phase' = "wait" /\ timeout' = limit /\ expired' = FALSE /\ changed' = {}
      /\ object' = [preds |-> made, code |-> codeStamp, wake |-> FALSE]
      /\ wstatus' = wstatus
      /\ since' = IF tried THEN Current
                  ELSE [Current EXCEPT !.stamps = [p \in Preds |-> [s \in Signs |->
                          LET e == [pred |-> p, sign |-> s] IN
                          IF e \in list /\ given[e] # NoStamp THEN given[e] ELSE stamps[p][s]]]]
      /\ GoalEffect \/ UNCHANGED <<stamps, codeStamp>>
    BY DEF Setup
<1>1. /\ stamps \in [Preds -> Counts] /\ codeStamp \in 0 .. MaxChanges /\ codeStamp \in Nat
      /\ wstatus \in {"running", "blocked", "restart_wait", "restart_time"}
    BY WaitAssumption DEF Waiting, WaitTypeOK
<1>2. /\ stamps' \in [Preds -> Counts] /\ codeStamp' \in 0 .. MaxChanges
      /\ codeStamp <= codeStamp'
      /\ \A p \in Preds, s \in Signs : stamps[p][s] <= stamps'[p][s]
      /\ \A p \in Preds : stamps'[p] = stamps[p] \/ stamps[p]["any"] < stamps'[p]["any"]
    BY <1>0, EffectGrows DEF Waiting
<1>3. /\ list \subseteq Entry
      /\ \A e \in list : given[e] # NoStamp =>
            given[e] \in Nat /\ given[e] <= stamps[e.pred][e.sign]
      /\ \A e \in list : /\ e.pred \in Preds /\ e.sign \in Signs
                         /\ e = [pred |-> e.pred, sign |-> e.sign]
    <2>1. list \subseteq Entry
        BY DEF PredLists
    <2>2. /\ given \in [list -> (0 .. MaxChanges) \union {NoStamp}]
          /\ \A e \in list : given[e] # NoStamp => given[e] <= stamps[e.pred][e.sign]
        BY DEF Given
    <2> QED BY <2>1, <2>2, WaitAssumption DEF Entry
<1>4. /\ since' = [stamps |-> since'.stamps, code |-> codeStamp]
      /\ since'.code = codeStamp
      /\ \A p \in Preds, s \in Signs :
            LET e == [pred |-> p, sign |-> s] IN
            since'.stamps[p][s] = IF ~tried /\ e \in list /\ given[e] # NoStamp
                                  THEN given[e] ELSE stamps[p][s]
      /\ since'.stamps \in [Preds -> Counts]
    <2>1. CASE tried
        <3>1. since' = [stamps |-> stamps, code |-> codeStamp]
            BY <1>0, <2>1 DEF Current
        <3> QED BY <3>1, <2>1, <1>1
    <2>2. CASE ~tried
        <3> DEFINE past == [p \in Preds |-> [s \in Signs |->
                        LET e == [pred |-> p, sign |-> s] IN
                        IF e \in list /\ given[e] # NoStamp THEN given[e] ELSE stamps[p][s]]]
        <3>1. since' = [stamps |-> past, code |-> codeStamp]
            BY <1>0, <2>2 DEF Current
        <3>2. \A p \in Preds, s \in Signs :
                past[p][s] = LET e == [pred |-> p, sign |-> s] IN
                             IF e \in list /\ given[e] # NoStamp THEN given[e] ELSE stamps[p][s]
            OBVIOUS
        <3>3. ASSUME NEW p \in Preds, NEW s \in Signs
              PROVE  (LET e == [pred |-> p, sign |-> s] IN
                      IF e \in list /\ given[e] # NoStamp THEN given[e] ELSE stamps[p][s]) \in Nat
            BY <1>1, <1>3 DEF Counts
        <3>4. past \in [Preds -> Counts]
            BY <3>3 DEF Counts
        <3> HIDE DEF past
        <3> QED BY <3>1, <3>2, <3>4, <2>2
    <2> QED BY <2>1, <2>2
<1>5. ASSUME NEW e \in list
      PROVE  LET wp == made[e] IN
             /\ wp \in WaitPred
             /\ wp.saved = wp.stamp
             /\ \A s \in Signs : wp.stamp[s] = IF s = e.sign /\ given[e] # NoStamp
                                               THEN given[e] ELSE stamps[e.pred][s]
    <2> DEFINE stamp == [s \in Signs |-> IF s = e.sign /\ given[e] # NoStamp
                                         THEN given[e] ELSE stamps[e.pred][s]]
    <2>1. made[e] = [stamp |-> stamp, saved |-> stamp, modified |-> FALSE]
        BY DEF NewWaitPred
    <2>2. stamp \in Counts
        BY <1>1, <1>3 DEF Counts
    <2>3. \A s \in Signs : stamp[s] = IF s = e.sign /\ given[e] # NoStamp
                                      THEN given[e] ELSE stamps[e.pred][s]
        OBVIOUS
    <2> HIDE DEF stamp, made
    <2> QED BY <2>1, <2>2, <2>3 DEF WaitPred
<1>6. object'.preds = made /\ DOMAIN object'.preds = list
      /\ object'.code = codeStamp /\ object'.wake = FALSE
    BY <1>0
<1>7. \A p \in Preds, s \in Signs : since'.stamps[p][s] <= stamps[p][s]
    <2> SUFFICES ASSUME NEW p \in Preds, NEW s \in Signs
                 PROVE  since'.stamps[p][s] <= stamps[p][s]
        OBVIOUS
    <2> DEFINE e == [pred |-> p, sign |-> s]
    <2>1. e.pred = p /\ e.sign = s /\ stamps[p][s] \in Nat
        BY <1>1 DEF Counts
    <2>2. since'.stamps[p][s] = IF ~tried /\ e \in list /\ given[e] # NoStamp
                                THEN given[e] ELSE stamps[p][s]
        BY <1>4
    <2>3. e \in list /\ given[e] # NoStamp => given[e] <= stamps[p][s]
        BY <1>3, <2>1
    <2> HIDE DEF e, tried
    <2> QED BY <2>1, <2>2, <2>3
<1>8. ASSUME NEW e \in list
      PROVE  /\ since'.stamps[e.pred][e.sign] = IF ~tried /\ given[e] # NoStamp
                                                THEN given[e] ELSE stamps[e.pred][e.sign]
             /\ made[e].stamp[e.sign] = IF given[e] # NoStamp
                                        THEN given[e] ELSE stamps[e.pred][e.sign]
             /\ made[e].saved = made[e].stamp
             /\ "any" # e.sign => made[e].stamp["any"] = stamps[e.pred]["any"]
             /\ given[e] # NoStamp => given[e] \in Nat /\ given[e] <= stamps[e.pred][e.sign]
             /\ stamps[e.pred][e.sign] \in Nat /\ stamps[e.pred]["any"] \in Nat
             /\ stamps'[e.pred][e.sign] \in Nat /\ stamps'[e.pred]["any"] \in Nat
             /\ stamps[e.pred]["any"] <= stamps'[e.pred]["any"]
             /\ \/ stamps'[e.pred] = stamps[e.pred]
                \/ stamps[e.pred]["any"] < stamps'[e.pred]["any"]
    <2>1. e.pred \in Preds /\ e.sign \in Signs /\ "any" \in Signs /\ e = [pred |-> e.pred, sign |-> e.sign]
        BY <1>3 DEF Signs
    <2>2. since'.stamps[e.pred][e.sign] = IF ~tried /\ given[e] # NoStamp
                                          THEN given[e] ELSE stamps[e.pred][e.sign]
        BY <1>4, <2>1
    <2> HIDE DEF made, tried
    <2> QED BY <2>1, <2>2, <1>1, <1>2, <1>3, <1>5 DEF Counts
<1> HIDE DEF made, tried
<1>9. WaitTypeOK'
    <2>1. \A e \in DOMAIN object'.preds : object'.preds[e] \in WaitPred
        BY <1>5, <1>6
    <2>2. since' \in [stamps : [Preds -> Counts], code : 0 .. MaxChanges]
        BY <1>1, <1>4
    <2> QED BY <1>0, <1>1, <1>2, <1>3, <1>6, <2>1, <2>2 DEF WaitTypeOK
<1>10. IsObject'
    BY <1>0, <1>6 DEF IsObject
<1>11. PastInv'
    <2>1. \A p \in Preds, s \in Signs : since'.stamps[p][s] <= stamps'[p][s]
        BY <1>1, <1>2, <1>4, <1>7 DEF Counts
    <2> QED BY <2>1, <1>1, <1>4, <1>6 DEF PastInv
<1>12. SeesChanges'
    <2> SUFFICES ASSUME NEW e \in list
                 PROVE  Compared(e)' <= since'.stamps[e.pred][e.sign]
        BY <1>6 DEF SeesChanges
    <2>1. Compared(e)' = made[e].stamp[e.sign]
        BY <1>6, <1>8 DEF Compared
    <2> QED BY <2>1, <1>8
<1>13. TellsChanges'
    <2> SUFFICES ASSUME NEW e \in list
                 PROVE  Tells(e)'
        BY <1>6 DEF TellsChanges
    <2>1. made[e].stamp["any"] <= stamps'[e.pred]["any"] /\ made[e].stamp["any"] \in Nat
        BY <1>8
    <2>2. ASSUME made[e].stamp["any"] = stamps'[e.pred]["any"]
          PROVE  \/ stamps'[e.pred][e.sign] = since'.stamps[e.pred][e.sign]
                 \/ stamps'[e.pred][e.sign] # made[e].stamp[e.sign]
        <3>1. stamps'[e.pred] = stamps[e.pred]
            BY <1>8, <2>2
        <3> QED BY <1>8, <3>1
    <2> QED BY <2>1, <2>2, <1>6 DEF Tells
<1>14. TimeInv'
    BY <1>0, <1>6 DEF TimeInv
<1> QED BY <1>9, <1>10, <1>11, <1>12, <1>13, <1>14 DEF Waiting

\* The object is brought up to date before the goal is tried again.
LEMMA UpdateWaiting ==
    ASSUME Waiting, WaitAtomic, ~Free
    PROVE  /\ Waiting'
           /\ \A e \in DOMAIN object.preds :
                 since.stamps[e.pred][e.sign] < stamps[e.pred][e.sign] => e \in changed'
<1> DEFINE updated == [e \in DOMAIN object.preds |-> UpdateStamps(e, object.preds[e])]
           made    == [e \in DOMAIN updated |-> [updated[e] EXCEPT !.modified = FALSE]]
           listed  == DOMAIN object.preds
<1>0. /\ phase' = "wait"
      /\ object' = [object EXCEPT !.preds = made, !.code = codeStamp]
      /\ changed' = Extract(updated)
      /\ since' = [stamps |-> stamps, code |-> codeStamp]
      /\ GoalEffect
      /\ UNCHANGED <<wstatus, timeout, expired>>
    BY DEF WaitAtomic, Current
<1>1. /\ WaitTypeOK
      /\ stamps \in [Preds -> Counts] /\ codeStamp \in 0 .. MaxChanges /\ codeStamp \in Nat
      /\ listed \subseteq Entry
      /\ object.wake \in BOOLEAN
    BY WaitAssumption DEF Waiting, WaitTypeOK
<1>2. /\ stamps' \in [Preds -> Counts] /\ codeStamp' \in 0 .. MaxChanges
      /\ codeStamp <= codeStamp'
      /\ \A p \in Preds, s \in Signs : stamps[p][s] <= stamps'[p][s]
      /\ \A p \in Preds : stamps'[p] = stamps[p] \/ stamps[p]["any"] < stamps'[p]["any"]
    BY <1>0, <1>1, EffectGrows
<1>3. /\ object' = [preds |-> made, code |-> codeStamp, wake |-> object.wake]
      /\ object'.preds = made /\ object'.code = codeStamp /\ object'.wake = object.wake
      /\ DOMAIN made = listed
      /\ since'.stamps = stamps /\ since'.code = codeStamp
    <2>1. object = [preds |-> object.preds, code |-> object.code, wake |-> object.wake]
        BY DEF Waiting, IsObject
    <2>2. DOMAIN made = listed
        OBVIOUS
    <2> HIDE DEF made
    <2> QED BY <1>0, <2>1, <2>2
<1>4. ASSUME NEW e \in listed
      PROVE  /\ updated[e] \in WaitPred
             /\ updated[e].stamp["any"] = stamps[e.pred]["any"]
             /\ (IF e.sign = "any" THEN updated[e].stamp["any"] ELSE updated[e].saved[e.sign])
                    <= stamps[e.pred][e.sign]
             /\ since.stamps[e.pred][e.sign] < stamps[e.pred][e.sign] => updated[e].modified
    BY UpdateRight
<1>5. ASSUME NEW e \in listed
      PROVE  /\ made[e] \in WaitPred
             /\ made[e].stamp = updated[e].stamp /\ made[e].saved = updated[e].saved
    <2>1. updated[e] \in WaitPred /\ made[e] = [updated[e] EXCEPT !.modified = FALSE]
        BY <1>4
    <2> HIDE DEF updated, made
    <2> QED BY <2>1 DEF WaitPred
<1>6. \A e \in listed :
         since.stamps[e.pred][e.sign] < stamps[e.pred][e.sign] => e \in changed'
    <2>1. DOMAIN updated = listed
        OBVIOUS
    <2> HIDE DEF updated
    <2> QED BY <1>0, <1>4, <2>1 DEF Extract
<1> HIDE DEF updated, made
<1>7. WaitTypeOK'
    <2>1. \A e \in DOMAIN object'.preds : object'.preds[e] \in WaitPred
        BY <1>3, <1>5
    <2>2. since' \in [stamps : [Preds -> Counts], code : 0 .. MaxChanges]
        BY <1>0, <1>1
    <2>3. changed' \subseteq Entry
        <3>1. DOMAIN updated = listed
            BY DEF updated
        <3> QED BY <1>0, <1>1, <3>1 DEF Extract
    <2>4. /\ wstatus' \in {"running", "blocked", "restart_wait", "restart_time"}
          /\ timeout' \in {"forever", "until", "every"} /\ expired' \in BOOLEAN
        BY <1>0, <1>1 DEF WaitTypeOK
    <2>5. /\ object'.code \in Nat /\ object'.wake \in BOOLEAN
          /\ DOMAIN object'.preds \subseteq Entry /\ phase' \in {"idle", "wait", "retry"}
        BY <1>0, <1>1, <1>3
    <2> QED BY <1>2, <2>1, <2>2, <2>3, <2>4, <2>5 DEF WaitTypeOK
<1>8. IsObject'
    BY <1>3 DEF IsObject
<1>9. PastInv'
    BY <1>1, <1>2, <1>3 DEF PastInv, Counts
<1>10. ASSUME NEW e \in listed
       PROVE  /\ e.pred \in Preds /\ e.sign \in Signs /\ "any" \in Signs
              /\ stamps[e.pred][e.sign] \in Nat /\ stamps[e.pred]["any"] \in Nat
              /\ stamps'[e.pred][e.sign] \in Nat /\ stamps'[e.pred]["any"] \in Nat
    BY <1>1, <1>2 DEF Entry, Counts, Signs
<1>11. SeesChanges'
    <2> SUFFICES ASSUME NEW e \in listed
                 PROVE  Compared(e)' <= stamps[e.pred][e.sign]
        BY <1>3 DEF SeesChanges
    <2> QED BY <1>3, <1>4, <1>5 DEF Compared
<1>12. TellsChanges'
    <2> SUFFICES ASSUME NEW e \in listed
                 PROVE  Tells(e)'
        BY <1>3 DEF TellsChanges
    <2>1. object'.preds[e].stamp["any"] = stamps[e.pred]["any"]
        BY <1>3, <1>4, <1>5
    <2>2. CASE stamps'[e.pred] = stamps[e.pred]
        BY <1>3, <1>10, <2>1, <2>2 DEF Tells
    <2>3. CASE stamps[e.pred]["any"] < stamps'[e.pred]["any"]
        BY <1>3, <1>10, <2>1, <2>3 DEF Tells
    <2> QED BY <1>2, <1>10, <2>2, <2>3
<1>13. TimeInv'
    BY <1>0, <1>3 DEF TimeInv, Waiting
<1> QED BY <1>6, <1>7, <1>8, <1>9, <1>11, <1>12, <1>13 DEF Waiting

LEMMA WaitAtomicWaiting ==
    ASSUME Waiting, WaitAtomic
    PROVE  Waiting'
<1>1. CASE ~Free
    BY <1>1, UpdateWaiting
<1>2. CASE Free /\ UNCHANGED <<stamps, codeStamp>>
    BY <1>2, FreeWaiting
<1>3. CASE Free /\ phase' = "wait"
    BY <1>3 DEF Free
<1> QED BY <1>1, <1>2, <1>3 DEF WaitAtomic

-----------------------------------------------------------------------------
(* The theorems.                                                           *)

LEMMA WaitingStep ==
    ASSUME Waiting, [WaitNext]_waitVars
    PROVE  Waiting'
<1>1. CASE \E p \in Preds, kind \in Signs : Change(p, kind)
    BY <1>1, ChangeWaiting
<1>2. ASSUME NEW list \in PredLists, NEW limit \in {"forever", "until", "every"},
             NEW given \in Given(list), NEW first \in Entry,
             list # {} => first \in list, Setup(list, given, first, limit)
      PROVE  Waiting'
    BY <1>2, SetupWaiting
<1>3. CASE WaitPtr
    BY <1>3, WaitPtrWaiting
<1>4. CASE Unblocked
    BY <1>4, UnblockedWaiting
<1>5. CASE Expire
    BY <1>5, ExpireWaiting
<1>6. CASE WaitAtomic
    BY <1>6, WaitAtomicWaiting
<1>7. CASE UNCHANGED waitVars
    BY <1>7 DEF waitVars, Waiting, WaitTypeOK, IsObject, PastInv, SeesChanges, Compared,
                TellsChanges, Tells, TimeInv
<1> QED BY <1>1, <1>2, <1>3, <1>4, <1>5, <1>6, <1>7 DEF WaitNext

LEMMA AlwaysWaiting == WaitSpec => []Waiting
<1>1. WaitInit => Waiting
    BY InitWaiting
<1>2. Waiting /\ [WaitNext]_waitVars => Waiting'
    BY WaitingStep
<1> QED BY <1>1, <1>2, PTL DEF WaitSpec

\* What the goal has not seen has is_unblocked say so.
LEMMA UnseenUnblocks ==
    ASSUME Waiting, Unseen
    PROVE  IsUnblocked
<1>1. CASE object.preds = <<>>
    <2>1. since.code < codeStamp /\ object.code <= since.code
        BY <1>1 DEF Unseen, Waiting, PastInv
    <2>2. object.code \in Nat /\ since.code \in Nat /\ codeStamp \in Nat
        BY WaitAssumption DEF Waiting, WaitTypeOK
    <2> QED BY <1>1, <2>1, <2>2 DEF IsUnblocked
<1>2. CASE object.preds # <<>>
    <2>1. PICK e \in DOMAIN object.preds :
             since.stamps[e.pred][e.sign] < stamps[e.pred][e.sign]
        BY <1>2 DEF Unseen
    <2>2. Compared(e) <= since.stamps[e.pred][e.sign]
        BY DEF Waiting, SeesChanges
    <2>3. /\ Compared(e) \in Nat
          /\ since.stamps[e.pred][e.sign] \in Nat /\ stamps[e.pred][e.sign] \in Nat
        <3>1. /\ object.preds[e] \in WaitPred /\ e.pred \in Preds
              /\ e.sign \in Signs /\ "any" \in Signs
            BY DEF Waiting, WaitTypeOK, Entry, Signs
        <3>2. since.stamps \in [Preds -> Counts] /\ stamps \in [Preds -> Counts]
            BY DEF Waiting, WaitTypeOK
        <3>3. object.preds[e].stamp \in Counts /\ object.preds[e].saved \in Counts
            BY <3>1 DEF WaitPred
        <3> QED BY <3>1, <3>2, <3>3 DEF Compared, Counts
    <2>4. Compared(e) < stamps[e.pred][e.sign]
        BY <2>1, <2>2, <2>3
    <2> QED BY <1>2, <2>4 DEF IsUnblocked, Compared
<1> QED BY <1>1, <1>2

\* No change is missed: when a predicate that is listed, or the database when
\* none is, changed since the goal was last tried, the wait is over at the next
\* look, after any number of tries and updates of the copied stamps
\* (BlockingWaitObject::is_unblocked and WaitPred::updateStamps, block.cc).
THEOREM NoChangeIsMissed == WaitSpec => []WaitSound
<1>1. Waiting => WaitSound
    BY UnseenUnblocks DEF WaitSound, NoChangeMissed, Waiting
<1> QED BY <1>1, AlwaysWaiting, PTL

\* The call fails only when its time is up, and never over a change that the
\* goal has not been tried against; and a new try is given every predicate that
\* changed in the way it was listed (psi_thread_wait_ptr, thread_escapes.cc, and
\* extract_changed_preds, block.cc).
THEOREM TriesAreRight == WaitSpec => TriesRight
<1>1. ASSUME Waiting, [WaitNext]_waitVars, phase = "wait", phase' = "idle"
      PROVE  timeout = "until" /\ expired /\ ~Unseen
    <2>1. CASE WaitPtr
        <3>1. object.wake /\ ~IsUnblocked
            BY <1>1, <2>1 DEF WaitPtr, TimedOut
        <3> QED BY <1>1, <3>1, UnseenUnblocks DEF Waiting, TimeInv
    <2> QED BY <1>1, <2>1 DEF WaitNext, waitVars, Change, Setup, Unblocked, Expire, WaitAtomic
<1>2. ASSUME Waiting, [WaitNext]_waitVars, phase = "retry", phase' = "wait"
      PROVE  \A e \in DOMAIN object.preds :
                since.stamps[e.pred][e.sign] < stamps[e.pred][e.sign] => e \in changed'
    <2>1. CASE WaitAtomic
        <3>1. ~Free
            BY <1>2 DEF Free
        <3> QED BY <1>2, <2>1, <3>1, UpdateWaiting
    <2> QED BY <1>2, <2>1 DEF WaitNext, waitVars, Change, Setup, Unblocked, Expire, WaitPtr
<1>3. Waiting /\ [WaitNext]_waitVars =>
        [phase = "wait" /\ phase' = "idle" => timeout = "until" /\ expired /\ ~Unseen]_waitVars
    BY <1>1
<1>4. Waiting /\ [WaitNext]_waitVars =>
        [phase = "retry" /\ phase' = "wait" =>
            \A e \in DOMAIN object.preds :
                since.stamps[e.pred][e.sign] < stamps[e.pred][e.sign] => e \in changed']_waitVars
    BY <1>2
<1>5. WaitSpec => FailsInTime
    BY <1>3, AlwaysWaiting, PTL DEF WaitSpec, FailsInTime
<1>6. WaitSpec => AllReported
    BY <1>4, AlwaysWaiting, PTL DEF WaitSpec, AllReported
<1> QED BY <1>5, <1>6 DEF TriesRight
=============================================================================
