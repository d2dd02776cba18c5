---------------------------- MODULE HealthRegistry ----------------------------
(***************************************************************************)
(* The health registry (health_registry.py): one entry per provider and    *)
(* per model, the gateway-wide gate, and one circuit breaker per provider, *)
(* all behind one reentrant lock and written to health.json after every    *)
(* change.  A public method is one atomic step here; the interleavings of  *)
(* callers that make several calls are in the modules of those callers.    *)
(*                                                                         *)
(* Until-timestamps are the ticks that are left of them.  The slots of a   *)
(* half_open breaker are in CircuitBreaker; here its state decides whether *)
(* a provider may be used.                                                 *)
(***************************************************************************)
EXTENDS Breaker, Cooldown

CONSTANTS
    Providers,        \* names that normalize_provider returns
    Models,           \* model identifiers "provider/name"
    ProviderOf,       \* the provider a model identifier begins with
    Phantoms,         \* providers _is_phantom_provider does not believe in
    Errors,           \* the parsed errors that occur
    ProbingWindow     \* ticks granted when a cooldown has expired

ASSUME RegistryAssumption ==
    /\ Providers \cap Models = {}
    /\ ProviderOf \in [Models -> Providers]
    /\ Phantoms \subseteq Providers
    /\ \A e \in Errors : IsError(e) /\ {e.modelSpecific, e.global} \subseteq BOOLEAN
    /\ ProbingWindow \in Nat \ {0}

Keys == Providers \cup Models

VARIABLES
    entry,     \* entry[k]: what is known of a provider or a model
    gate,      \* ticks the gateway-wide gate stays shut
    breaker,   \* breaker[p]: the circuit breaker of a provider
    inARow     \* inARow[k]: errors of k since a request for k succeeded

(* inARow only observes: it counts up to MaxFailures, and a permanent error *)
(* counts for all of them.                                                  *)
vars == <<entry, gate, breaker, inARow>>

Statuses == {"absent", "healthy", "cooldown", "probing", "disabled"}

(* `kind' is the base type of the reason: the suffixes the code adds to it *)
(* are stripped again before it is compared.                               *)
Entries == [status : Statuses, left : Nat, kind : Kinds \cup {"none"},
            failures : 0 .. MaxFailures]

Absent  == [status |-> "absent", left |-> 0, kind |-> "none", failures |-> 0]
Healthy == [Absent EXCEPT !.status = "healthy"]

TypeOK == /\ entry \in [Keys -> Entries]
          /\ gate \in Nat
          /\ breaker \in [Providers -> Breakers]
          /\ inARow \in [Keys -> 0 .. MaxFailures]

Init == /\ entry = [k \in Keys |-> Absent]
        /\ gate = 0
        /\ breaker = [p \in Providers |-> NewBreaker]
        /\ inARow = [k \in Keys |-> 0]

-----------------------------------------------------------------------------
(* Reading the registry.                                                   *)

(* _entry_is_healthy, and an entry nobody wrote is taken for healthy. *)
Usable(x) == \/ x.status \in {"absent", "healthy"}
             \/ x.status = "cooldown" /\ IsExpired(x.left)

(* is_model_available *)
IsModelAvailable(m) == Usable(entry[m]) /\ Usable(entry[ProviderOf[m]])

(* is_provider_healthy, without the breaker transition it may cause. *)
IsProviderHealthy(p) == CanExecute(breaker[p]) /\ Usable(entry[p])

IsGlobalGated == gate > 0

-----------------------------------------------------------------------------
(* Writing it.                                                             *)

(* The entry that outcome q of Calculate makes of entry x. *)
AfterError(x, e, q) ==
    [status   |-> IF q.permanent THEN "disabled" ELSE "cooldown",
     left     |-> q.left,
     kind     |-> e.kind,
     failures |-> Failures(e, x.failures)]

(* mark_error for provider p and, when the caller names one, a model of it.*)
(* An error of the whole gateway only shuts the gate, for as long as the   *)
(* provider's cooldown would be; a provider-wide error of a phantom        *)
(* provider is ignored, its breaker included.                              *)
ShutGate(p, e) ==
    /\ e.global
    /\ \E q \in Calculate(e, entry[p].failures) :
          gate' = IF q.permanent THEN gate ELSE q.left
    /\ UNCHANGED <<entry, breaker, inARow>>

MarkEntry(k, p, e) ==
    /\ ~e.global
    /\ \E q \in Calculate(e, entry[k].failures) :
          entry' = [entry EXCEPT ![k] = AfterError(@, e, q)]
    /\ breaker' = [breaker EXCEPT ![p] = AfterFailure(@)]
    /\ inARow' = [inARow EXCEPT ![k] =
                     IF e.kind = "access" THEN MaxFailures ELSE Lower(@ + 1, MaxFailures)]
    /\ UNCHANGED gate

MarkModelError(m, e) ==
    /\ e.modelSpecific
    /\ MarkEntry(m, ProviderOf[m], e)

MarkProviderError(p, e) ==
    /\ p \notin Phantoms
    /\ MarkEntry(p, p, e)

(* A faulty mark_healthy, that keeps the failure count. *)
FailuresRemembered(p, ms) ==
    /\ entry' = [k \in Keys |-> IF k = p \/ k \in ms
                                  THEN [Healthy EXCEPT !.failures = entry[k].failures]
                                  ELSE entry[k]]
    /\ gate' = 0
    /\ breaker' = [breaker EXCEPT ![p] = AfterSuccess(@)]

(* mark_healthy for p and for the models in ms (the one the caller names,  *)
(* or none); force_healthy removes the entries first and so does the same. *)
MarkHealthy(p, ms) ==
    /\ entry' = [k \in Keys |-> IF k = p \/ k \in ms THEN Healthy ELSE entry[k]]
    /\ gate' = 0
    /\ breaker' = [breaker EXCEPT ![p] = AfterSuccess(@)]

Succeeded(ks) == inARow' = [k \in Keys |-> IF k \in ks THEN 0 ELSE inARow[k]]

(* A proxied request for m succeeds: _record_upstream_health names the     *)
(* provider only.                                                          *)
RequestSucceeds(m) == /\ MarkHealthy(ProviderOf[m], {})
                      /\ Succeeded({ProviderOf[m], m})

(* A probe of m succeeds, or the admin API resets m. *)
ModelRestored(m) == /\ MarkHealthy(ProviderOf[m], {m})
                    /\ Succeeded({ProviderOf[m], m})

(* A probe of the provider succeeds, or the admin API resets it. *)
ProviderRestored(p) == MarkHealthy(p, {}) /\ Succeeded({p})

(* The gate is opened by hand. *)
ClearGate == /\ gate > 0
             /\ gate' = 0
             /\ UNCHANGED <<entry, breaker, inARow>>

(* is_provider_healthy moves an open breaker whose timeout has passed. *)
LookAt(p) == /\ breaker' = [breaker EXCEPT ![p] = AfterCheck(@, FALSE)]
             /\ UNCHANGED <<entry, gate, inARow>>

(* The entry with another status and another time left. *)
Become(x, status, left) ==
    [status |-> status, left |-> left, kind |-> x.kind, failures |-> x.failures]

Probing(x)  == Become(x, "probing", ProbingWindow)
Disabled(x) == Become(x, "disabled", 0)

(* Two faulty cleanups: one locks rate limits too, one never forgets an    *)
(* entry nobody probed.                                                    *)
EverythingLocked(x) ==
    CASE x.status = "cooldown" /\ IsExpired(x.left) ->
            IF x.failures >= MaxFailures THEN Disabled(x) ELSE Probing(x)
      [] x.status = "probing" /\ IsExpired(x.left) -> Absent
      [] OTHER -> x

ProbedForever(x) ==
    IF x.status = "cooldown" /\ IsExpired(x.left)
      THEN IF x.failures >= MaxFailures /\ x.kind # "rate_limit"
             THEN Disabled(x) ELSE Probing(x)
      ELSE x

(* What cleanup_expired makes of an entry: an expired cooldown is put up   *)
(* for probing, unless MaxFailures lock it; rate limits are never locked.  *)
(* An entry nobody probed in its window is forgotten.                      *)
CleanedUp(x) ==
    CASE x.status = "cooldown" /\ IsExpired(x.left) ->
            IF x.failures >= MaxFailures /\ x.kind # "rate_limit"
              THEN Disabled(x) ELSE Probing(x)
      [] x.status = "probing" /\ IsExpired(x.left) -> Absent
      [] OTHER -> x

CleanupExpired ==
    /\ entry' = [k \in Keys |-> CleanedUp(entry[k])]
    /\ UNCHANGED <<gate, breaker, inARow>>

(* _migrate_disabled_rate_limits: a transient cause does not disable. *)
Migrated(x) == IF x.status = "disabled" /\ x.kind \in {"rate_limit", "request_scoped"}
                 THEN Probing(x) ELSE x

(* _load: a new process reads what the last change wrote. *)
Restart ==
    /\ entry' = [k \in Keys |-> Migrated(entry[k])]
    /\ breaker' = [p \in Providers |-> AfterLoad(breaker[p])]
    /\ UNCHANGED <<gate, inARow>>

(* A faulty countdown. *)
LessWithoutEnd(n) == n - 1

Less(n) == IF n > 0 THEN n - 1 ELSE 0

Tick ==
    /\ entry' = [k \in Keys |-> Become(entry[k], entry[k].status, Less(entry[k].left))]
    /\ gate' = Less(gate)
    /\ breaker' = [p \in Providers |-> Aged(breaker[p])]
    /\ UNCHANGED inARow

MarkError == \E e \in Errors : \/ \E p \in Providers : ShutGate(p, e)
                               \/ \E m \in Models : MarkModelError(m, e)
                               \/ \E p \in Providers : MarkProviderError(p, e)

Next == \/ MarkError
        \/ \E m \in Models : RequestSucceeds(m) \/ ModelRestored(m)
        \/ \E p \in Providers : ProviderRestored(p)
        \/ ClearGate
        \/ \E p \in Providers : LookAt(p)
        \/ CleanupExpired
        \/ Restart
        \/ Tick

Spec == Init /\ [][Next]_vars

(* The prober thread runs cleanup_expired every five minutes, traffic asks *)
(* about providers, and time passes.                                       *)
FairSpec == /\ Spec
            /\ WF_vars(Tick)
            /\ WF_vars(CleanupExpired)
            /\ \A p \in Providers : WF_vars(LookAt(p))

-----------------------------------------------------------------------------
(* Properties.                                                             *)

(* A rate limit passes: however often it strikes, and through cleanup and  *)
(* restarts, it never disables (cooldown.calculate, cleanup_expired).      *)
RateLimitsNeverDisable ==
    \A k \in Keys : entry[k].status = "disabled" => entry[k].kind # "rate_limit"

(* A provider is disabled only by a permanent error or by MaxFailures      *)
(* errors with no success between them, whatever cleanup and restarts do   *)
(* to its entry meanwhile (mark_error, mark_healthy, cleanup_expired).     *)
DisabledForCause(k) == entry[k].status = "disabled" => inARow[k] = MaxFailures

ProvidersDisabledForCause == \A p \in Providers : DisabledForCause(p)

(* What disables: never a rate limit, and a provider only what deserves it *)
(* (mark_error, cleanup_expired).                                          *)
OnlyCausesDisable == RateLimitsNeverDisable /\ ProvidersDisabledForCause

(* Of all this, whoever chooses providers and models sees whether a name   *)
(* is free, resting or locked.                                             *)
Standing(x) == CASE x.status \in {"absent", "healthy"} -> "free"
                 [] x.status \in {"cooldown", "probing"} -> "resting"
                 [] x.status = "disabled" -> "locked"

Cause(x) == CASE x.kind = "none" -> "none"
              [] x.kind = "rate_limit" -> "passing"
              [] x.kind = "access" -> "final"
              [] OTHER -> "lasting"

RecordOf(x) == [standing |-> Standing(x), cause |-> Cause(x), strikes |-> x.failures]

Promise == INSTANCE Availability WITH
               Names  <- Keys,
               Limit  <- MaxFailures,
               record <- [k \in Keys |-> RecordOf(entry[k])]

(* However errors, successes, cleanups, restarts and time follow each      *)
(* other: an error touches the entry it is about and counts once; a name   *)
(* locked for good is freed by a success or another error only; no rate    *)
(* limit is ever locked; nothing but an error ends freedom (mark_error,    *)
(* mark_healthy, cleanup_expired, _load).                                  *)
AvailabilityIsKept == Promise!Spec

(* When the errors stop, every provider and model becomes usable and stays *)
(* so, unless it is disabled, every breaker lets calls through, and the    *)
(* gate opens (cleanup_expired, is_expired, can_execute_cb, the gate).     *)
QuietAfter == <>[][~MarkError]_vars

Recovered == /\ \A k \in Keys : Usable(entry[k]) \/ entry[k].status = "disabled"
             /\ \A p \in Providers : CanExecute(breaker[p])
             /\ ~IsGlobalGated

EverythingComesBack == QuietAfter => <>[]Recovered

(* cooldown.py: "If we already have a cooldown and this is a recheck       *)
(* scenario: use the longer of the two".  Transport errors return before   *)
(* that and are left out.                                                  *)
LongerOfTheTwo ==
    [][\A k \in Keys :
           /\ entry[k].status = "cooldown" /\ entry'[k].status = "cooldown"
           /\ entry'[k].failures > entry[k].failures
           /\ entry'[k].kind # "transport"
           => entry'[k].left >= entry[k].left]_vars

(* cooldown.py of request-scoped types: "A global permanent disable would  *)
(* remove a working model from every future small prompt ... Keep it as a  *)
(* short recheck cooldown instead".                                        *)
RequestScopedNeverDisables ==
    \A k \in Keys : entry[k].status = "disabled" => entry[k].kind # "request_scoped"

(* health_registry.py of MAX_FAILURES: "after this many consecutive        *)
(* failures, permanently disable".                                         *)
ConsecutiveFailuresDisable == \A k \in Keys : DisabledForCause(k)
=============================================================================
