------------------------------- MODULE Selection -------------------------------
(***************************************************************************)
(* SmartRouter.best_model of smart_router.py: a combo request ranks the    *)
(* candidates by what the metrics and the registry say of them, and then   *)
(* takes, among the best and those within SpreadBand points of them, a     *)
(* model of the provider that was selected longest ago.  The ranking is    *)
(* done by many threads at once and without a lock, the selection under    *)
(* one.  Lower scores are better.  Rates are per cent, latencies seconds.  *)
(*                                                                         *)
(* What is said of a model is its view:  usable when no filter drops it;   *)
(* stats of the last five minutes, of the model or else of its provider,   *)
(* or NoData; failures in the registry; limits, the 429s of its provider   *)
(* in the last ten minutes; proven when the registry has the provider as   *)
(* healthy.                                                                *)
(***************************************************************************)
EXTENDS Integers, FiniteSets, SequencesExt, TLC

CONSTANTS
    Providers,
    Models,
    Provider,      \* Provider[m], the part of its name before the slash
    Priority,      \* Priority[p], PROVIDER_PRIORITY or 50
    Size,          \* Size[m], the penalty of a small model
    LastResort,    \* PERMANENTLY_BLOCKED
    Views,         \* Views[m], what may be said of m
    Threads        \* threads that serve combo requests

NoData == [errors |-> -1, access |-> 0, latency |-> 0, failed |-> 0]
Stats  == {NoData} \cup [errors : 0..100, access : Nat, latency : Nat, failed : Nat]
View   == [usable : BOOLEAN, stats : Stats, failures : Nat, limits : Nat, proven : BOOLEAN]

ASSUME SelectionAssumption ==
    /\ Provider \in [Models -> Providers]
    /\ Priority \in [Providers -> 5..100]
    /\ Size \in [Models -> {0, 15, 50, 100}]
    /\ LastResort \subseteq Providers
    /\ \A m \in Models : Views[m] # {} /\ Views[m] \subseteq View
    \* errors of access are errors
    /\ \A m \in Models : \A v \in Views[m] : v.stats.access > 0 => v.stats.errors > 0

NoDataPenalty       == 30
FallbackOnlyPenalty == 500
SpreadBand          == 30
ScoreCap            == 999
LimitThreshold      == 3

VARIABLES
    view,      \* view[m], what the metrics and the registry say now
    recent,    \* _last_selected: the providers selected, the latest last
    used,      \* the providers whose prefixes the gateway's log has requests of
    cached,    \* what usage_cache holds of it, or Expired
    band       \* band[t]: the models thread t chooses from, or {} when it has not ranked

vars == <<view, recent, used, cached, band>>

Expired == {"expired"}

TypeOK == /\ \A m \in Models : view[m] \in Views[m]
          /\ ToSet(recent) \subseteq Providers /\ Len(recent) = Cardinality(ToSet(recent))
          /\ used \subseteq Providers
          /\ cached = Expired \/ cached \subseteq Providers
          /\ band \in [Threads -> SUBSET Models]

Init == /\ view \in [Models -> UNION {Views[m] : m \in Models}]
        /\ \A m \in Models : view[m] \in Views[m]
        /\ recent = <<>> /\ used = {} /\ cached = Expired
        /\ band = [t \in Threads |-> {}]

-----------------------------------------------------------------------------
Least(a, b) == IF a < b THEN a ELSE b

ErrorPenalty(rate) == CASE rate > 50 -> 200
                        [] rate > 20 -> 100
                        [] rate > 5  -> 50
                        [] OTHER     -> rate

(* A faulty penalty: without the part that does not depend on the count. *)
SlightPenalty(n) == Least(50 * n, 400)

AccessPenalty(n) == IF n = 0 THEN 0 ELSE 300 + Least(50 * n, 400)

FailPenalty(n) == IF n > 2 THEN Least(20 * n, 150) ELSE 0

(* get_429_penalty *)
LimitPenalty(n) == IF n < LimitThreshold THEN 0
                   ELSE Least((n - LimitThreshold + 1) * 100, 500)

Score(p, s) ==
    IF s = NoData THEN Priority[p] + NoDataPenalty
    ELSE Least(ScoreCap, Priority[p] + ErrorPenalty(s.errors) + AccessPenalty(s.access)
                         + Least(10 * s.latency, 200) + FailPenalty(s.failed))

FallbackOnly(m, v) == Provider[m] \in LastResort /\ ~v.proven

(* The score of m when v is said of it. *)
Totals == [m \in Models |-> [v \in Views[m] |->
               Score(Provider[m], v.stats) + Size[m] + Least(50 * v.failures, 250)
               + LimitPenalty(v.limits)
               + (IF FallbackOnly(m, v) THEN FallbackOnlyPenalty ELSE 0)]]

Total(m) == Totals[m][view[m]]

Usable == {m \in Models : view[m].usable}

(* A faulty band: the best alone. *)
TopOnly == {m \in Usable : \A n \in Usable : Total(m) <= Total(n)}

(* The models whose score is within the band above the best one's. *)
Band == {m \in Usable : \A n \in Usable : Total(m) <= Total(n) + SpreadBand}

(* best_model up to the lock.  One candidate alone is taken as it is, and  *)
(* nothing is noted.                                                       *)
Rank(t) ==
    /\ band[t] = {}
    /\ Cardinality(Usable) > 1
    /\ band' = [band EXCEPT ![t] = Band]
    /\ UNCHANGED <<view, recent, used, cached>>

Age(p) == IF p \in ToSet(recent) THEN CHOOSE i \in DOMAIN recent : recent[i] = p ELSE 0

(* A faulty note of the selection, that keeps the older one. *)
StampedTwice(p) == Append(recent, p)

Stamped(p) == Append(RemoveAt(recent, Age(p)), p)

(* How the band is sorted; of several first ones any may be chosen. *)
Before(p, q, usage) ==
    \/ p \notin usage /\ q \in usage
    \/ (p \in usage <=> q \in usage) /\ Age(p) <= Age(q)

(* A request to p in the log: a line names the account where it has one    *)
(* (ACC:github|...), and else the model (gh/...).  The look for a provider *)
(* is one for its prefix, which the account's name need not be; and what   *)
(* another router serves is not in the log at all.                         *)
Logged(p) == {used, used \cup {p}}

(* _spread_select: all of it is done under _spread_lock, the look into the *)
(* usage cache too, which reads the log again when it has expired.         *)
Select(t) ==
    /\ band[t] # {}
    /\ LET usage == IF cached = Expired THEN used ELSE cached
           among == {Provider[m] : m \in band[t]}
       IN \E p \in among :
            /\ \A q \in among : Before(p, q, usage)
            /\ recent' = Stamped(p)
            /\ used' \in Logged(p)
            /\ cached' = usage
    /\ band' = [band EXCEPT ![t] = {}]
    /\ UNCHANGED view

(* A request that names its model, or a probe: it was not selected, and    *)
(* may show too.                                                           *)
Direct(p) == /\ used' \in Logged(p) /\ used' # used
             /\ UNCHANGED <<view, recent, cached, band>>

(* Sixty seconds after the log was read. *)
Expire == /\ cached # Expired
          /\ cached' = Expired
          /\ UNCHANGED <<view, recent, used, band>>

(* The log has no dates: its requests are today's until it is rotated. *)
Rotate == /\ used # {}
          /\ used' = {}
          /\ UNCHANGED <<view, recent, cached, band>>

(* Requests, probes and time change what is said of a model. *)
Observe == \E m \in Models : \E v \in Views[m] :
           /\ view[m] # v
           /\ view' = [view EXCEPT ![m] = v]
           /\ UNCHANGED <<recent, used, cached, band>>

Next == \/ \E t \in Threads : Rank(t) \/ Select(t)
        \/ (\E p \in Providers : Direct(p)) \/ Expire \/ Rotate \/ Observe

Fairness == WF_vars(Expire) /\ \A t \in Threads : WF_vars(Rank(t)) /\ WF_vars(Select(t))

Spec == Init /\ [][Next]_vars /\ Fairness

-----------------------------------------------------------------------------
(* A model that has had neither failures nor rate limits lately, whatever  *)
(* its speed and its priority.                                             *)
Sound(m) == /\ view[m].stats.errors <= 5 /\ view[m].stats.failed <= 2 /\ view[m].stats.access = 0
            /\ view[m].failures = 0 /\ view[m].limits < LimitThreshold
            /\ Size[m] = 0 /\ ~FallbackOnly(m, view[m])

(* smart_router.py:494: "Account-access penalty: subscription_level /      *)
(* no_credit / auth errors won't self-heal in the window".  No request     *)
(* even considers a model with such errors while a sound one is to be had, *)
(* however slow that one is, however low its priority, and although the    *)
(* spread looks beyond the best.                                           *)
AccessErrorsSink ==
    [][\A t \in Threads : \A m \in band'[t] \ band[t] :
          view[m].stats.access > 0 => ~\E n \in Usable : Sound(n)]_vars

(* smart_router.py:317: the band must be such that no top provider         *)
(* "monopolizes the combo".  A provider that from some time on always has  *)
(* a model in the band is selected again and again, however other models   *)
(* come and go, whatever the stale copy of the log says, and although      *)
(* threads select from what they ranked earlier.  (Where it is the only    *)
(* one usable it is taken without a selection.)  That holds while the log  *)
(* says what was selected: a provider whose requests show under another    *)
(* name, or in no log at all, stays unused all day and is preferred to the *)
(* used ones, and one that others have used is put behind.                 *)
InBand(p)   == \E m \in Usable : /\ Provider[m] = p
                                /\ \A n \in Usable : Total(m) <= Total(n) + SpreadBand
Alone(p)    == {Provider[m] : m \in Usable} = {p}
Selected(p) == recent # <<>> /\ Last(recent) = p

Unseen == \E t \in Threads : band[t] # {} /\ band'[t] = {} /\ Last(recent') \notin used'

EveryEqualIsUsed ==
    <>[][~Unseen /\ \A p \in Providers : ~Direct(p)]_vars
        => \A p \in Providers : <>[]InBand(p) => []<>(Selected(p) \/ Alone(p))
=============================================================================
