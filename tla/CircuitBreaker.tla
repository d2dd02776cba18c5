---------------------------- MODULE CircuitBreaker ----------------------------
(***************************************************************************)
(* One provider's circuit breaker and everybody who uses it: the handler   *)
(* threads of the proxy, which reserve a slot before they call upstream    *)
(* and give it back afterwards (proxy_handler.py: _forward, _race_forward), *)
(* the threads that only record an outcome (log and database monitors,     *)
(* recovery probers, the admin API), those that only look                  *)
(* (is_provider_healthy), the clock, and a restart of the daemon.  Every   *)
(* registry call is atomic; a handler thread makes several, and the others *)
(* run in between.                                                         *)
(*                                                                         *)
(* A handler thread that needs a second upstream call for the same client  *)
(* (a fallback hop) takes a second slot while it holds the first: that is  *)
(* two members of Requests.                                                *)
(***************************************************************************)
EXTENDS Breaker, FiniteSets

CONSTANT Requests      \* upstream calls that can be in progress at once

ASSUME RequestsAssumption == IsFiniteSet(Requests)

VARIABLES
    cb,       \* the breaker, in memory and (saved after every change) on disk
    pc,       \* where each upstream call is between its registry calls
    leases,   \* calls holding a slot counted in the present half_open period
    leaked,   \* slots of this period whose call ended without returning one
    streak,   \* successes recorded in half_open since the last failure
    fresh,    \* failures since the last recovery or the last silent window
    silence   \* ticks since the last failure

(* The last four only observe: no action below depends on them. *)
history == <<leases, leaked, streak, fresh, silence>>
vars    == <<cb, pc, history>>

Phases == {"idle",       \* no slot
           "reserved",   \* _forward: slot taken, upstream not called yet
           "sent",       \* _forward: inside the try whose finally releases
           "recorded",   \* outcome recorded, slot not released yet
           "racing"}     \* _race_forward: slot taken, call running in the pool

TypeOK == /\ cb \in Breakers
          /\ pc \in [Requests -> Phases]
          /\ leases \subseteq Requests
          /\ leaked \in 0 .. CBHalfOpenMax
          /\ streak \in 0 .. CBSuccessThreshold
          /\ fresh \in 0 .. CBFailureThreshold
          /\ silence \in 0 .. CBWindow

Init == /\ cb = NewBreaker
        /\ pc = [r \in Requests |-> "idle"]
        /\ leases = {} /\ leaked = 0
        /\ streak = 0 /\ fresh = 0 /\ silence = CBWindow

-----------------------------------------------------------------------------
(* The breaker becomes `next'.  Slots belong to one half_open period:      *)
(* entering or leaving half_open forgets who held one.                     *)
Becomes(next, held, lost) ==
    /\ cb' = next
    /\ leases' = IF next.state = "half_open" THEN held ELSE {}
    /\ leaked' = IF next.state = "half_open" THEN lost ELSE 0

SawFailure == /\ streak' = 0
              /\ fresh' = OneMore(fresh, CBFailureThreshold)
              /\ silence' = 0

SawSuccess ==
    /\ streak' = IF cb.state = "half_open" THEN OneMore(streak, CBSuccessThreshold)
                                           ELSE streak
    /\ fresh' = IF cb.state = "half_open" /\ cb'.state = "closed" THEN 0 ELSE fresh
    /\ UNCHANGED silence

SawNothing == UNCHANGED <<streak, fresh, silence>>

Goes(r, phase) == pc' = [pc EXCEPT ![r] = phase]

(* One more slot is gone if r held one that is still counted. *)
LostWith(r) == IF r \in leases THEN OneMore(leaked, CBHalfOpenMax) ELSE leaked

-----------------------------------------------------------------------------
(* The calls of a handler thread.                                          *)

(* acquire_cb succeeds; a refused caller answers 503 and changes nothing.  *)
Reserve(r, phase) ==
    /\ pc[r] = "idle"
    /\ CanExecute(cb)
    /\ Goes(r, phase)
    /\ Becomes(AfterCheck(cb, TRUE), leases \cup {r}, leaked)
    /\ SawNothing

(* _forward finds the request's deadline passed and answers 504: the       *)
(* return is before the try, so its finally never runs.                    *)
DeadlinePassed(r) ==
    /\ pc[r] = "reserved"
    /\ Goes(r, "idle")
    /\ Becomes(cb, leases \ {r}, LostWith(r))
    /\ SawNothing

Send(r) ==
    /\ pc[r] = "reserved"
    /\ Goes(r, "sent")
    /\ UNCHANGED <<cb, history>>

(* A usable 200: mark_healthy records a success. *)
RecordSuccess(r) ==
    /\ pc[r] = "sent"
    /\ Goes(r, "recorded")
    /\ Becomes(AfterSuccess(cb), leases, leaked)
    /\ SawSuccess

(* mark_error records a failure: of a single call, or of a candidate of a  *)
(* race nobody won.                                                        *)
RecordFailure(r) ==
    /\ pc[r] \in {"sent", "racing"}
    /\ Goes(r, "recorded")
    /\ Becomes(AfterFailure(cb), leases, leaked)
    /\ SawFailure

(* The call ends with nothing recorded for this provider: a connection     *)
(* error, a gateway-wide error, a provider-wide error of a phantom         *)
(* provider, the client gone; or a race candidate that lost or timed out.  *)
RecordNothing(r) ==
    /\ pc[r] \in {"sent", "racing"}
    /\ Goes(r, "recorded")
    /\ UNCHANGED <<cb, history>>

(* release_cb, in the finally of _forward or at the end of _race_forward.  *)
Release(r) ==
    /\ pc[r] = "recorded"
    /\ Goes(r, "idle")
    /\ Becomes(AfterRelease(cb), leases \ {r}, leaked)
    /\ SawNothing

(* The winner of a race is not released: its slot comes back with the      *)
(* success mark_healthy records ...                                        *)
WinRace(r) ==
    /\ pc[r] = "racing"
    /\ Goes(r, "idle")
    /\ Becomes(AfterSuccess(cb), leases \ {r}, leaked)
    /\ SawSuccess

(* ... or with the failure an empty or fake 200 records ...                *)
WinRaceWithBadBody(r) ==
    /\ pc[r] = "racing"
    /\ Goes(r, "idle")
    /\ Becomes(AfterFailure(cb), leases \ {r}, leaked)
    /\ SawFailure

(* ... or not at all: mark_error ignores a provider-wide error (the budget *)
(* message in a 200) of a provider it takes for a phantom.                 *)
WinRaceAsPhantom(r) ==
    /\ pc[r] = "racing"
    /\ Goes(r, "idle")
    /\ Becomes(cb, leases \ {r}, LostWith(r))
    /\ SawNothing

-----------------------------------------------------------------------------
(* Everybody else.                                                         *)

(* mark_healthy from a monitor, a prober or the admin API. *)
OutsideSuccess ==
    /\ Becomes(AfterSuccess(cb), leases, leaked)
    /\ SawSuccess
    /\ UNCHANGED pc

(* mark_error from a monitor or a prober. *)
OutsideFailure ==
    /\ Becomes(AfterFailure(cb), leases, leaked)
    /\ SawFailure
    /\ UNCHANGED pc

(* is_provider_healthy looks without reserving. *)
Peek ==
    /\ Becomes(AfterCheck(cb, FALSE), leases, leaked)
    /\ SawNothing
    /\ UNCHANGED pc

Tick ==
    /\ Becomes(Aged(cb), leases, leaked)
    /\ silence' = OneMore(silence, CBWindow)
    /\ fresh' = IF silence' = CBWindow THEN 0 ELSE fresh
    /\ UNCHANGED <<pc, streak>>

(* The daemon dies with its handler threads and loads the file again. *)
Restart ==
    /\ Becomes(AfterLoad(cb), {}, 0)
    /\ pc' = [r \in Requests |-> "idle"]
    /\ streak' = 0
    /\ UNCHANGED <<fresh, silence>>

Handler(r) ==
    \/ Reserve(r, "reserved")
    \/ Reserve(r, "racing")
    \/ DeadlinePassed(r)
    \/ Send(r)
    \/ RecordSuccess(r)
    \/ RecordFailure(r)
    \/ RecordNothing(r)
    \/ Release(r)
    \/ WinRace(r)
    \/ WinRaceWithBadBody(r)
    \/ WinRaceAsPhantom(r)

Next == \/ \E r \in Requests : Handler(r)
        \/ OutsideSuccess
        \/ OutsideFailure
        \/ Peek
        \/ Tick
        \/ Restart

Spec == Init /\ [][Next]_vars

-----------------------------------------------------------------------------
(* Fairness: handler threads are scheduled and upstream calls end (sockets *)
(* have timeouts), clients keep asking, and time passes.                   *)
Answer(r) == \/ RecordSuccess(r) \/ RecordFailure(r) \/ RecordNothing(r)
             \/ WinRace(r) \/ WinRaceWithBadBody(r) \/ WinRaceAsPhantom(r)

Fairness ==
    /\ WF_vars(Tick)
    /\ WF_vars(\E r \in Requests : Reserve(r, "reserved"))
    /\ \A r \in Requests : /\ WF_vars(Send(r) \/ DeadlinePassed(r))
                           /\ WF_vars(Answer(r))
                           /\ WF_vars(Release(r))

FairSpec == Spec /\ Fairness

-----------------------------------------------------------------------------
(* Properties.                                                             *)

InProgress == {r \in Requests : pc[r] # "idle"}

(* A half_open breaker that refuses a caller has a reason to: as many      *)
(* upstream calls are really in progress as it has slots, except for those *)
(* that ended without returning theirs.  (can_execute_cb, release_cb.)     *)
RefusalsHaveACause ==
    cb.state = "half_open" /\ ~CanExecute(cb)
        => Cardinality(InProgress) + leaked >= CBHalfOpenMax

(* A half_open breaker closes only after CBSuccessThreshold successes in   *)
(* half_open with no failure and no restart between them.                  *)
(* (record_cb_success, record_cb_failure, _migrate_circuit_breakers.)      *)
RecoveryIsEarned ==
    [][cb.state = "half_open" /\ cb'.state = "closed"
           => streak' = CBSuccessThreshold]_vars

(* A closed breaker opens only after CBFailureThreshold failures since it  *)
(* last closed, with no silent window among them: neither failures that    *)
(* were forgiven nor failures that are too old count.                      *)
(* (record_cb_failure, record_cb_success, _clean_old_failures.)            *)
TripsAreFresh ==
    [][cb.state = "closed" /\ cb'.state = "open"
           => fresh' = CBFailureThreshold]_vars

(* A provider whose calls all succeed from some time on gets its breaker   *)
(* closed, provided no slot was lost in the half_open period at hand.      *)
Calm == \/ \E r \in Requests : \/ Reserve(r, "reserved") \/ Reserve(r, "racing")
                               \/ Send(r) \/ RecordSuccess(r) \/ Release(r)
                               \/ WinRace(r)
        \/ OutsideSuccess
        \/ Peek
        \/ Tick

RecoversWhenCalm ==
    <>[][Calm]_vars /\ <>[](leaked = 0) => <>[](cb.state = "closed")

(* health_registry.py says of half_open_requests and successes: "These     *)
(* counters describe in-flight requests in one process."                   *)
CountersDescribeInFlightRequests ==
    cb.state = "half_open" => cb.halfOpen <= Cardinality(InProgress)

(* health_registry.py says of CBHalfOpenMax: "max concurrent requests in   *)
(* half_open".                                                             *)
MaxConcurrentRequestsInHalfOpen ==
    Cardinality({r \in leases : pc[r] # "recorded"}) <= CBHalfOpenMax

-----------------------------------------------------------------------------
(* The inductive invariant behind the safety properties, in named parts.   *)

LeasesAreInProgress == leases \subseteq InProgress

LeasesBelongToHalfOpen == cb.state # "half_open" => leases = {} /\ leaked = 0

(* The counter never exceeds the slots somebody accounts for. *)
SlotAccounting ==
    cb.state = "half_open" => cb.halfOpen <= Cardinality(leases) + leaked

StreakCoversSuccesses == cb.state = "half_open" => cb.successes <= streak

(* No remembered failure is younger than the silence. *)
FailuresPrecedeSilence == \A i \in Recent : silence <= cb.failures[i]

(* The i-th newest failure still in the window is one of the fresh ones. *)
FreshCoversFailures ==
    \A i \in Recent : cb.failures[i] < CBWindow => i <= fresh

IInv == /\ TypeOK
        /\ LeasesAreInProgress
        /\ LeasesBelongToHalfOpen
        /\ SlotAccounting
        /\ StreakCoversSuccesses
        /\ FailuresPrecedeSilence
        /\ FreshCoversFailures
=============================================================================
