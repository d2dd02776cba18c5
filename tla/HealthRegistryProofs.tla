------------------------- MODULE HealthRegistryProofs -------------------------
(***************************************************************************)
(* What disables an entry of the registry, for every set of providers,     *)
(* models and errors and every MaxFailures: never a rate limit, and a      *)
(* provider only for cause.  The second is not inductive: cleanup_expired  *)
(* and calculate compare the failure count of the entry, which must not    *)
(* exceed the failures that really happened in a row (CountsAreEarned).    *)
(* Durations play no part in that; the second part types them, for which   *)
(* the powers of two of the backoff have to be shown to be numbers.  The   *)
(* third shows that every step is one that Availability allows, and the    *)
(* last takes the quarantine back to the line that was logged.             *)
(***************************************************************************)
EXTENDS HealthRegistry, ErrorParser, WellFoundedInduction, SequenceTheorems, TLAPS

(* Entries are kept by key, and counts are counts. *)
KeyedByName == /\ entry = [k \in Keys |-> entry[k]]
               /\ \A k \in Keys : entry[k].failures \in 0 .. MaxFailures
               /\ inARow \in [Keys -> 0 .. MaxFailures]

CountsAreEarned == \A p \in Providers : entry[p].failures <= inARow[p]

IInv == /\ KeyedByName
        /\ RateLimitsNeverDisable
        /\ CountsAreEarned
        /\ ProvidersDisabledForCause

-----------------------------------------------------------------------------
(* Failures counts one more, up to MaxFailures, or stops earlier. *)
LEMMA FailuresCount ==
    ASSUME NEW e, NEW f \in 0 .. MaxFailures
    PROVE  /\ Failures(e, f) \in 0 .. MaxFailures
           /\ Failures(e, f) <= Lower(f + 1, MaxFailures)
BY CooldownAssumption DEF Failures, Lower

(* A permanent quarantine is the answer to an access error, or to the last *)
(* of MaxFailures errors that is no rate limit.                            *)
LEMMA PermanentForCause ==
    ASSUME NEW e, e.kind \in Kinds, NEW f \in 0 .. MaxFailures,
           NEW q \in Calculate(e, f), q.permanent
    PROVE  /\ e.kind # "rate_limit"
           /\ e.kind = "access" \/ Failures(e, f) = MaxFailures
<1> DEFINE n == Failures(e, f)
<1>1. n \in 0 .. MaxFailures
  BY FailuresCount
<1> HIDE DEF n
<1>2. CASE e.kind = "transport"
  <2>1. q = Quarantine(IF n <= 1 THEN TransportShort ELSE TransportLong)
    BY <1>2 DEF Calculate, n
  <2> QED
    BY <2>1 DEF Quarantine
<1>3. CASE e.kind # "transport" /\ n >= MaxFailures
  <2>1. n = MaxFailures
    BY <1>1, <1>3, CooldownAssumption
  <2>2. CASE e.kind = "rate_limit"
    <3>1. Calculate(e, f) = {Quarantine(MaxCooldown)}
      BY <1>1, <1>3, <2>2, CooldownAssumption DEF Calculate, n
    <3> QED
      BY <3>1 DEF Quarantine
  <2> QED
    BY <2>1, <2>2 DEF n
<1>4. CASE e.kind # "transport" /\ n < MaxFailures
  <2>1. CASE e.kind # "access"
    <3>1. q \in {Quarantine(d) : d \in Jittered(Backoff(e.base, n))}
      BY <1>1, <1>4, <2>1, CooldownAssumption DEF Calculate, n
    <3>2. PICK d \in Jittered(Backoff(e.base, n)) : q = Quarantine(d)
      BY <3>1
    <3> QED
      BY <3>2 DEF Quarantine
  <2> QED
    BY <2>1
<1> QED
  BY <1>1, <1>2, <1>3, <1>4, CooldownAssumption

-----------------------------------------------------------------------------
(* A new registry knows nothing. *)
LEMMA InitIInv == Init => IInv
BY CooldownAssumption
DEF Init, IInv, KeyedByName, RateLimitsNeverDisable, CountsAreEarned,
    ProvidersDisabledForCause, DisabledForCause, Absent, Keys

(* An error is recorded for one key. *)
LEMMA MarkStep ==
    ASSUME IInv, NEW k \in Keys, NEW p \in Providers, NEW e \in Errors, MarkEntry(k, p, e)
    PROVE  IInv'
<1>1. PICK q \in Calculate(e, entry[k].failures) :
          entry' = [entry EXCEPT ![k] = AfterError(@, e, q)]
  BY DEF MarkEntry
<1> DEFINE x == AfterError(entry[k], e, q)
<1>2. entry' = [j \in Keys |-> IF j = k THEN x ELSE entry[j]]
  BY <1>1 DEF IInv, KeyedByName
<1>3. /\ x.status = IF q.permanent THEN "disabled" ELSE "cooldown"
      /\ x.kind = e.kind
      /\ x.failures = Failures(e, entry[k].failures)
  BY DEF AfterError
<1> HIDE DEF x
<1>4. entry[k].failures \in 0 .. MaxFailures /\ inARow[k] \in 0 .. MaxFailures
  BY DEF IInv, KeyedByName
<1>5. /\ x.failures \in 0 .. MaxFailures
      /\ x.failures <= Lower(entry[k].failures + 1, MaxFailures)
  BY <1>3, <1>4, FailuresCount
<1>6. e.kind \in Kinds
  BY RegistryAssumption DEF IsError
<1>7. q.permanent => e.kind # "rate_limit"
                     /\ (e.kind = "access" \/ x.failures = MaxFailures)
  BY <1>3, <1>4, <1>6, PermanentForCause
<1>8. inARow' = [inARow EXCEPT ![k] =
                    IF e.kind = "access" THEN MaxFailures ELSE Lower(@ + 1, MaxFailures)]
  BY DEF MarkEntry
<1> DEFINE y == IF e.kind = "access" THEN MaxFailures ELSE Lower(inARow[k] + 1, MaxFailures)
<1>9. /\ y \in 0 .. MaxFailures
      /\ e.kind = "access" => y = MaxFailures
      /\ entry[k].failures <= inARow[k] => x.failures <= y
  BY <1>4, <1>5, CooldownAssumption DEF Lower
<1>10. inARow' = [j \in Keys |-> IF j = k THEN y ELSE inARow[j]]
  BY <1>8 DEF IInv, KeyedByName
<1> HIDE DEF y
<1>11. KeyedByName'
  BY <1>2, <1>5, <1>9, <1>10 DEF IInv, KeyedByName
<1>12. RateLimitsNeverDisable'
  BY <1>2, <1>3, <1>7 DEF IInv, RateLimitsNeverDisable
<1>13. CountsAreEarned'
  BY <1>2, <1>9, <1>10 DEF IInv, CountsAreEarned, Keys
<1>14. ASSUME NEW r \in Providers, entry'[r].status = "disabled"
       PROVE  inARow'[r] = MaxFailures
  <2>1. CASE r = k
    <3>1. q.permanent
      BY <1>2, <1>3, <1>14, <2>1
    <3>2. y = MaxFailures
      <4>1. entry[k].failures <= inARow[k]
        BY <2>1 DEF IInv, CountsAreEarned
      <4> QED
        BY <1>7, <1>9, <3>1, <4>1, CooldownAssumption
    <3> QED
      BY <1>10, <2>1, <3>2
  <2>2. CASE r # k
    BY <1>2, <1>10, <1>14, <2>2
    DEF IInv, ProvidersDisabledForCause, DisabledForCause, Keys
  <2> QED
    BY <2>1, <2>2
<1> QED
  BY <1>11, <1>12, <1>13, <1>14 DEF IInv, ProvidersDisabledForCause, DisabledForCause

(* A success is recorded for a provider p, perhaps together with models. *)
LEMMA SuccessStep ==
    ASSUME IInv, NEW p \in Providers, NEW ms \in SUBSET Models, NEW ks \in SUBSET Keys,
           ks \subseteq {p} \cup Models, MarkHealthy(p, ms), Succeeded(ks)
    PROVE  IInv'
<1>1. entry' = [k \in Keys |-> IF k = p \/ k \in ms THEN Healthy ELSE entry[k]]
  BY DEF MarkHealthy
<1>2. inARow' = [k \in Keys |-> IF k \in ks THEN 0 ELSE inARow[k]]
  BY DEF Succeeded
<1>3. Healthy.failures = 0 /\ Healthy.status = "healthy"
  BY DEF Healthy, Absent
<1> HIDE DEF Healthy
<1>4. KeyedByName'
  BY <1>1, <1>2, <1>3, CooldownAssumption DEF IInv, KeyedByName
<1>5. RateLimitsNeverDisable'
  BY <1>1, <1>3 DEF IInv, RateLimitsNeverDisable
<1>6. ASSUME NEW r \in Providers
      PROVE  /\ entry'[r].failures <= inARow'[r]
             /\ DisabledForCause(r)'
  <2>1. r \in Keys /\ r \notin Models
    BY RegistryAssumption DEF Keys
  <2>2. inARow'[r] \in 0 .. MaxFailures
    BY <1>4, <2>1 DEF KeyedByName
  <2>3. CASE r = p
    BY <1>1, <1>3, <2>1, <2>2, <2>3 DEF DisabledForCause
  <2>4. CASE r # p
    BY <1>1, <1>2, <2>1, <2>4
    DEF IInv, CountsAreEarned, ProvidersDisabledForCause, DisabledForCause
  <2> QED
    BY <2>3, <2>4
<1> QED
  BY <1>4, <1>5, <1>6 DEF IInv, CountsAreEarned, ProvidersDisabledForCause

(* A step that rewrites every entry by itself: it keeps the kind, keeps or *)
(* clears the count, and disables only a full count that no rate limit     *)
(* made.                                                                   *)
LEMMA RewriteStep ==
    ASSUME IInv, entry' = [k \in Keys |-> entry'[k]], UNCHANGED inARow,
           \A k \in Keys :
              /\ entry'[k].failures \in {0, entry[k].failures}
              /\ entry'[k].status = "disabled"
                   => /\ entry'[k].kind = entry[k].kind
                      /\ \/ entry[k].status = "disabled"
                         \/ /\ entry[k].failures >= MaxFailures
                            /\ entry[k].kind # "rate_limit"
    PROVE  IInv'
<1>1. KeyedByName'
  BY CooldownAssumption DEF IInv, KeyedByName
<1>2. RateLimitsNeverDisable'
  BY DEF IInv, RateLimitsNeverDisable
<1>3. ASSUME NEW r \in Providers
      PROVE  /\ entry'[r].failures <= inARow'[r]
             /\ DisabledForCause(r)'
  <2>1. /\ r \in Keys /\ entry[r].failures <= inARow[r]
        /\ entry[r].failures \in 0 .. MaxFailures
        /\ inARow[r] \in 0 .. MaxFailures /\ inARow'[r] = inARow[r]
        /\ entry[r].status = "disabled" => inARow[r] = MaxFailures
    BY DEF IInv, KeyedByName, CountsAreEarned, ProvidersDisabledForCause,
           DisabledForCause, Keys
  <2>2. entry'[r].failures <= inARow'[r]
    BY <2>1, CooldownAssumption
  <2>3. entry'[r].status = "disabled" => inARow'[r] = MaxFailures
    BY <2>1, CooldownAssumption
  <2> QED
    BY <2>2, <2>3 DEF DisabledForCause
<1> QED
  BY <1>1, <1>2, <1>3 DEF IInv, CountsAreEarned, ProvidersDisabledForCause

(* The three steps of that sort. *)
LEMMA CleanupStep == IInv /\ CleanupExpired => IInv'
<1> SUFFICES ASSUME IInv, CleanupExpired PROVE IInv'
  OBVIOUS
<1>1. entry' = [k \in Keys |-> CleanedUp(entry[k])] /\ UNCHANGED inARow
  BY DEF CleanupExpired
<1>2. ASSUME NEW x
      PROVE  /\ CleanedUp(x).failures \in {0, x.failures}
             /\ CleanedUp(x).status = "disabled"
                  => /\ CleanedUp(x).kind = x.kind
                     /\ \/ x.status = "disabled"
                        \/ x.failures >= MaxFailures /\ x.kind # "rate_limit"
  BY DEF CleanedUp, Disabled, Probing, Become, Absent
<1> QED
  BY <1>1, <1>2, RewriteStep

LEMMA RestartStep == IInv /\ Restart => IInv'
<1> SUFFICES ASSUME IInv, Restart PROVE IInv'
  OBVIOUS
<1>1. entry' = [k \in Keys |-> Migrated(entry[k])] /\ UNCHANGED inARow
  BY DEF Restart
<1>2. ASSUME NEW x
      PROVE  /\ Migrated(x).failures = x.failures
             /\ Migrated(x).status = "disabled" => Migrated(x) = x
  BY DEF Migrated, Probing, Become
<1> QED
  BY <1>1, <1>2, RewriteStep

LEMMA TickStep == IInv /\ Tick => IInv'
<1> SUFFICES ASSUME IInv, Tick PROVE IInv'
  OBVIOUS
<1>1. /\ entry' = [k \in Keys |-> Become(entry[k], entry[k].status, Less(entry[k].left))]
      /\ UNCHANGED inARow
  BY DEF Tick
<1>2. ASSUME NEW x, NEW n
      PROVE  /\ Become(x, x.status, n).failures = x.failures
             /\ Become(x, x.status, n).status = x.status
             /\ Become(x, x.status, n).kind = x.kind
  BY DEF Become
<1> QED
  BY <1>1, <1>2, RewriteStep

-----------------------------------------------------------------------------
(* Every step preserves the invariant. *)
LEMMA NextIInv == IInv /\ [Next]_vars => IInv'
<1> SUFFICES ASSUME IInv, [Next]_vars PROVE IInv'
  OBVIOUS
<1> USE DEF Keys
<1>1. ASSUME NEW e \in Errors, NEW p \in Providers, ShutGate(p, e)
      PROVE  IInv'
  BY <1>1 DEF ShutGate, IInv, KeyedByName, RateLimitsNeverDisable, CountsAreEarned,
              ProvidersDisabledForCause, DisabledForCause
<1>2. ASSUME NEW e \in Errors, NEW m \in Models, MarkModelError(m, e)
      PROVE  IInv'
  BY <1>2, MarkStep, RegistryAssumption DEF MarkModelError
<1>3. ASSUME NEW e \in Errors, NEW p \in Providers, MarkProviderError(p, e)
      PROVE  IInv'
  BY <1>3, MarkStep DEF MarkProviderError
<1>4. ASSUME NEW m \in Models, RequestSucceeds(m) \/ ModelRestored(m)
      PROVE  IInv'
  <2>1. ProviderOf[m] \in Providers
    BY RegistryAssumption
  <2>2. CASE RequestSucceeds(m)
    BY <2>1, <2>2, SuccessStep DEF RequestSucceeds
  <2>3. CASE ModelRestored(m)
    BY <2>1, <2>3, SuccessStep DEF ModelRestored
  <2> QED
    BY <1>4, <2>2, <2>3
<1>5. ASSUME NEW p \in Providers, ProviderRestored(p)
      PROVE  IInv'
  BY <1>5, SuccessStep DEF ProviderRestored
<1>6. ASSUME UNCHANGED <<entry, inARow>>
      PROVE  IInv'
  BY <1>6 DEF IInv, KeyedByName, RateLimitsNeverDisable, CountsAreEarned,
              ProvidersDisabledForCause, DisabledForCause
<1>7. ASSUME ClearGate \/ (\E p \in Providers : LookAt(p)) \/ UNCHANGED vars
      PROVE  IInv'
  BY <1>6, <1>7 DEF ClearGate, LookAt, vars
<1> QED
  BY <1>1, <1>2, <1>3, <1>4, <1>5, <1>7, CleanupStep, RestartStep, TickStep
  DEF Next, MarkError

THEOREM Invariant == Spec => []IInv
BY InitIInv, NextIInv, PTL DEF Spec

(* However often rate limits strike, in whatever order with other errors,  *)
(* successes, cleanups and restarts, none disables an entry (calculate,    *)
(* cleanup_expired).                                                       *)
THEOREM RateLimitsPass == Spec => []RateLimitsNeverDisable
<1>1. IInv => RateLimitsNeverDisable
  BY DEF IInv
<1> QED
  BY <1>1, Invariant, PTL

(* A disabled provider had a permanent error, or MaxFailures errors in a   *)
(* row (mark_error, mark_healthy, cleanup_expired).                        *)
THEOREM ProvidersLockedForCause == Spec => []ProvidersDisabledForCause
<1>1. IInv => ProvidersDisabledForCause
  BY DEF IInv
<1> QED
  BY <1>1, Invariant, PTL

(* Both together, as the run checks them: no rate limit disables, and a    *)
(* provider only what deserves it (mark_error, cleanup_expired).           *)
THEOREM CausesDisable == Spec => []OnlyCausesDisable
BY RateLimitsPass, ProvidersLockedForCause, PTL DEF OnlyCausesDisable

-----------------------------------------------------------------------------
(* A set of numbers has a least one. *)
Below == {mn \in Nat \X Nat : mn[1] < mn[2]}

LEMMA LeastNumber ==
    ASSUME NEW bad \in SUBSET Nat, bad # {}
    PROVE  \E n \in bad : \A m \in bad : n <= m
<1>1. OpToRel(<, Nat) = Below
  BY DEF OpToRel, Below
<1>2. IsWellFoundedOn(Below, Nat)
  BY <1>1, NatLessThanWellFounded
<1>3. PICK n \in bad : \A m \in bad : <<m, n>> \notin Below
  BY <1>2, WFMin
<1>4. ASSUME NEW m \in bad PROVE n <= m
  <2>1. ~(m < n)
    BY <1>3 DEF Below
  <2> QED
    BY <2>1
<1> QED
  BY <1>4

(* Doublings is defined: a function that is right up to n makes one that   *)
(* is right up to n + 1.                                                   *)
Doubled(f, n) == IF n <= 1 THEN 1 ELSE 2 * f[n - 1]

LEMMA DoublingsExist == \E f \in [0 .. MaxFailures -> Nat] : f = [n \in 0 .. MaxFailures |-> Doubled(f, n)]
<1> DEFINE D == 0 .. MaxFailures
           Right(f, k) == \A n \in D : n <= k => f[n] = Doubled(f, n)
           Reached(k) == \E f \in [D -> Nat] : Right(f, k)
           bad == {k \in Nat : ~Reached(k)}
<1>1. MaxFailures \in Nat
  BY CooldownAssumption
<1>2. Reached(0)
  <2> DEFINE f == [n \in D |-> 1]
  <2>1. f \in [D -> Nat] /\ Right(f, 0)
    BY DEF Doubled
  <2> HIDE DEF f
  <2> QED
    BY <2>1
<1>3. ASSUME NEW k \in Nat, Reached(k) PROVE Reached(k + 1)
  <2>1. PICK f \in [D -> Nat] : Right(f, k)
    BY <1>3
  <2> DEFINE g == [n \in D |-> Doubled(f, n)]
  <2>2. g \in [D -> Nat]
    <3>1. ASSUME NEW n \in D PROVE Doubled(f, n) \in Nat
      <4>1. CASE n <= 1
        BY <4>1 DEF Doubled
      <4>2. CASE ~(n <= 1)
        <5>1. n - 1 \in D
          BY <1>1, <4>2
        <5>2. f[n - 1] \in Nat
          BY <5>1
        <5> QED
          BY <4>2, <5>2 DEF Doubled
      <4> QED
        BY <4>1, <4>2
    <3> QED
      BY <3>1
  <2>3. ASSUME NEW n \in D, n <= k + 1 PROVE g[n] = Doubled(g, n)
    <3>1. CASE n <= 1
      BY <3>1 DEF Doubled
    <3>2. CASE ~(n <= 1)
      <4>1. n - 1 \in D /\ n - 1 <= k
        BY <1>1, <2>3, <3>2
      <4>2. g[n - 1] = f[n - 1]
        BY <2>1, <4>1
      <4>3. g[n] = 2 * f[n - 1]
        BY <3>2 DEF Doubled
      <4> HIDE DEF g
      <4> QED
        BY <3>2, <4>2, <4>3 DEF Doubled
    <3> QED
      BY <3>1, <3>2
  <2> HIDE DEF g
  <2> QED
    BY <2>2, <2>3
<1>4. bad = {}
  <2> SUFFICES ASSUME bad # {} PROVE FALSE
    OBVIOUS
  <2>1. PICK n \in bad : \A m \in bad : n <= m
    <3>1. bad \in SUBSET Nat
      OBVIOUS
    <3> HIDE DEF bad
    <3> QED
      BY <3>1, LeastNumber
  <2> HIDE DEF Reached
  <2>2. n \in Nat /\ n # 0
    BY <1>2
  <2>3. n - 1 \in Nat /\ n - 1 \notin bad /\ (n - 1) + 1 = n
    BY <2>1, <2>2
  <2> QED
    BY <1>3, <2>1, <2>3
<1>5. PICK f \in [D -> Nat] : Right(f, MaxFailures)
  BY <1>1, <1>4
<1>6. f = [n \in D |-> Doubled(f, n)]
  BY <1>1, <1>5
<1> QED
  BY <1>6

LEMMA DoublingsType == Doublings \in [0 .. MaxFailures -> Nat]
<1> DEFINE D == 0 .. MaxFailures
           Rule(f) == f = [n \in D |-> Doubled(f, n)]
<1>1. Doublings = CHOOSE f : Rule(f)
  BY DEF Doublings, Doubled
<1>2. \E f : Rule(f)
  BY DoublingsExist
<1>3. Rule(Doublings)
  <2> HIDE DEF Rule
  <2> QED
    BY <1>1, <1>2
<1> DEFINE bad == {n \in D : Doublings[n] \notin Nat}
<1>4. bad = {}
  <2> SUFFICES ASSUME bad # {} PROVE FALSE
    OBVIOUS
  <2>1. PICK n \in bad : \A m \in bad : n <= m
    <3>1. bad \in SUBSET Nat
      OBVIOUS
    <3> HIDE DEF bad
    <3> QED
      BY <3>1, LeastNumber
  <2>2. n \in D /\ Doublings[n] = Doubled(Doublings, n)
    BY <1>3
  <2>3. CASE n <= 1
    BY <2>1, <2>2, <2>3 DEF Doubled
  <2>4. CASE ~(n <= 1)
    <3>1. n - 1 \in D /\ ~(n <= n - 1)
      BY <2>2, <2>4, CooldownAssumption
    <3>2. Doublings[n - 1] \in Nat
      BY <2>1, <3>1
    <3> QED
      BY <2>1, <2>2, <2>4, <3>2 DEF Doubled
  <2> QED
    BY <2>3, <2>4
<1>5. Doublings = [n \in D |-> Doublings[n]]
  BY <1>3
<1> QED
  BY <1>4, <1>5

-----------------------------------------------------------------------------
(* A quarantine lasts a number of ticks. *)
LEMMA QuarantineType ==
    ASSUME NEW e, e.base \in Nat, e.kind \in Kinds, NEW f \in 0 .. MaxFailures, NEW q \in Calculate(e, f)
    PROVE  q.left \in Nat
<1> DEFINE n == Failures(e, f)
<1>1. n \in 0 .. MaxFailures
  BY FailuresCount
<1>2. /\ MaxCooldown \in Nat /\ MinCooldown \in Nat /\ RequestScopedCooldown \in Nat
      /\ TransportShort \in Nat /\ TransportLong \in Nat
      /\ JitterPercents \subseteq Nat
  BY CooldownAssumption
<1>3. ASSUME NEW d \in Nat, NEW j \in JitterPercents PROVE (d * j) \div 100 \in Nat
  <2>1. d * j \in Nat
    BY <1>2
  <2> DEFINE x == d * j
  <2> HIDE DEF x
  <2>2. x \div 100 \in Nat
    BY <2>1 DEF x
  <2> QED
    BY <2>2 DEF x
<1>4. Backoff(e.base, n) \in Nat
  <2>1. Doublings[n] \in Nat
    BY <1>1, DoublingsType
  <2>2. e.base * Doublings[n] \in Nat
    BY <2>1
  <2> DEFINE x == e.base * Doublings[n]
             d == IF n > 1 THEN Lower(x, MaxCooldown) ELSE e.base
  <2>3. d \in Nat
    <3> HIDE DEF x
    <3>1. x \in Nat
      BY <2>2 DEF x
    <3> QED
      BY <1>2, <3>1 DEF Lower
  <2>4. Backoff(e.base, n) = IF 0 < d /\ d < MinCooldown THEN MinCooldown ELSE d
    BY DEF Backoff
  <2> HIDE DEF d
  <2> QED
    BY <1>2, <2>3, <2>4
<1> HIDE DEF n
<1>5. \/ \E x \in {MaxCooldown, RequestScopedCooldown, TransportShort, TransportLong} : q = Quarantine(x)
      \/ q = Forever
      \/ q \in {Quarantine(d) : d \in Jittered(Backoff(e.base, n))}
  <2>1. e.kind = "transport" \/ n >= MaxFailures \/ n < MaxFailures
    BY <1>1, CooldownAssumption
  <2>2. CASE e.kind = "transport"
    <3>1. q = Quarantine(IF n <= 1 THEN TransportShort ELSE TransportLong)
      BY <2>2 DEF Calculate, n
    <3> QED
      BY <3>1
  <2>3. CASE e.kind # "transport" /\ n >= MaxFailures
    <3>1. q \in CASE e.kind = "rate_limit" -> {Quarantine(MaxCooldown)}
              [] e.kind \in {"request_scoped", "request_variant"} ->
                    {Quarantine(RequestScopedCooldown)}
              [] OTHER -> {Forever}
      BY <1>1, <2>3, CooldownAssumption DEF Calculate, n
    <3> QED
      BY <3>1
  <2>4. CASE e.kind # "transport" /\ n < MaxFailures
    <3>1. q \in IF e.kind = "access" THEN {Forever}
                ELSE {Quarantine(d) : d \in Jittered(Backoff(e.base, n))}
      BY <1>1, <2>4, CooldownAssumption DEF Calculate, n
    <3> QED
      BY <3>1
  <2> QED
    BY <2>1, <2>2, <2>3, <2>4
<1>6. CASE \E x \in {MaxCooldown, RequestScopedCooldown, TransportShort, TransportLong} : q = Quarantine(x)
  BY <1>2, <1>6 DEF Quarantine
<1>7. CASE q = Forever
  BY <1>7 DEF Forever
<1>8. CASE q \in {Quarantine(d) : d \in Jittered(Backoff(e.base, n))}
  <2>1. PICK d \in Jittered(Backoff(e.base, n)) : q = Quarantine(d)
    BY <1>8
  <2>2. d \in Nat
    BY <1>3, <1>4 DEF Jittered
  <2> QED
    BY <2>1, <2>2 DEF Quarantine
<1> QED
  BY <1>5, <1>6, <1>7, <1>8

-----------------------------------------------------------------------------
LEMMA BreakerOf ==
    ASSUME NEW s \in {"closed", "open", "half_open"}, NEW f \in [Recent -> 0 .. CBWindow],
           NEW n \in 0 .. CBSuccessThreshold - 1, NEW c \in 0 .. CBOpenTimeout,
           NEW h \in 0 .. CBHalfOpenMax
    PROVE  [state |-> s, failures |-> f, successes |-> n, sinceChange |-> c, halfOpen |-> h]
              \in Breakers
BY DEF Breakers

(* A breaker stays one, whichever method of the registry touches it. *)
LEMMA BreakersStay ==
    ASSUME NEW b \in Breakers
    PROVE  /\ AfterFailure(b) \in Breakers /\ AfterSuccess(b) \in Breakers
           /\ AfterCheck(b, FALSE) \in Breakers
           /\ AfterLoad(b) \in Breakers /\ Aged(b) \in Breakers
<1>1. NoFailures \in [Recent -> 0 .. CBWindow]
  BY BreakerAssumption DEF NoFailures
<1>2. Decremented(b.halfOpen) \in 0 .. CBHalfOpenMax
  BY BreakerAssumption DEF Decremented, Breakers
<1>3. AfterFailure(b) \in Breakers
  <2> DEFINE w == WithFailure(b)
             counted == [b EXCEPT !.failures = w]
  <2>1. \A i \in Recent : i # 1 => i - 1 \in Recent
    BY BreakerAssumption DEF Recent
  <2>2. w \in [Recent -> 0 .. CBWindow]
    BY <2>1, BreakerAssumption DEF WithFailure, Breakers
  <2>3. \/ AfterFailure(b) = [counted EXCEPT !.state = "open", !.sinceChange = 0]
        \/ AfterFailure(b) = [counted EXCEPT !.state = "open", !.sinceChange = 0,
                                             !.successes = 0, !.halfOpen = 0]
        \/ AfterFailure(b) = counted
    BY DEF AfterFailure
  <2> HIDE DEF w
  <2>4. \E s \in {"open", b.state}, n \in {0, b.successes}, c \in {0, b.sinceChange},
           h \in {0, b.halfOpen} :
          AfterFailure(b) = [state |-> s, failures |-> w, successes |-> n,
                             sinceChange |-> c, halfOpen |-> h]
    BY <2>3 DEF Breakers
  <2> QED
    BY <2>2, <2>4, BreakerAssumption DEF Breakers
<1>4. AfterSuccess(b) \in Breakers
  <2> DEFINE less == Decremented(b.halfOpen)
  <2>1. CASE b.state = "half_open" /\ b.successes + 1 >= CBSuccessThreshold
    <3>1. AfterSuccess(b) = [b EXCEPT !.state = "closed", !.failures = NoFailures,
                                      !.successes = 0, !.sinceChange = 0, !.halfOpen = less]
      BY <2>1, BreakerAssumption DEF AfterSuccess, Breakers
    <3>2. AfterSuccess(b) = [state |-> "closed", failures |-> NoFailures, successes |-> 0,
                             sinceChange |-> 0, halfOpen |-> less]
      BY <3>1 DEF Breakers
    <3> QED
      BY <3>2, <1>1, <1>2, BreakerAssumption DEF Breakers
  <2>2. CASE b.state = "half_open" /\ b.successes + 1 < CBSuccessThreshold
    <3>1. AfterSuccess(b) = [b EXCEPT !.successes = b.successes + 1, !.halfOpen = less]
      BY <2>2, BreakerAssumption DEF AfterSuccess, Breakers
    <3>2. b.successes + 1 \in 0 .. CBSuccessThreshold - 1
      BY <2>2, BreakerAssumption DEF Breakers
    <3> HIDE DEF less
    <3> QED
      BY <3>1, <3>2, <1>2 DEF Breakers, less
  <2>3. CASE b.state # "half_open"
    BY <2>3 DEF AfterSuccess
  <2> QED
    BY <2>1, <2>2, <2>3, BreakerAssumption DEF Breakers
<1>5. AfterCheck(b, FALSE) \in Breakers
  <2>1. \/ AfterCheck(b, FALSE) = [b EXCEPT !.state = "half_open", !.successes = 0,
                                            !.sinceChange = 0, !.halfOpen = 0]
        \/ AfterCheck(b, FALSE) = [b EXCEPT !.halfOpen = b.halfOpen + 0]
        \/ AfterCheck(b, FALSE) = b
    BY DEF AfterCheck, Slot
  <2>2. b.halfOpen + 0 = b.halfOpen
    BY BreakerAssumption DEF Breakers
  <2>3. \E s \in {"half_open", b.state}, n \in {0, b.successes}, c \in {0, b.sinceChange},
           h \in {0, b.halfOpen} :
          AfterCheck(b, FALSE) = [state |-> s, failures |-> b.failures, successes |-> n,
                                  sinceChange |-> c, halfOpen |-> h]
    BY <2>1, <2>2 DEF Breakers
  <2>4. PICK s \in {"half_open", b.state}, n \in {0, b.successes}, c \in {0, b.sinceChange},
             h \in {0, b.halfOpen} :
          AfterCheck(b, FALSE) = [state |-> s, failures |-> b.failures, successes |-> n,
                                  sinceChange |-> c, halfOpen |-> h]
    BY <2>3
  <2>5. s \in {"closed", "open", "half_open"} /\ b.failures \in [Recent -> 0 .. CBWindow]
    BY DEF Breakers
  <2>6. /\ n \in 0 .. CBSuccessThreshold - 1 /\ c \in 0 .. CBOpenTimeout
        /\ h \in 0 .. CBHalfOpenMax
    BY BreakerAssumption DEF Breakers
  <2> DEFINE new == AfterCheck(b, FALSE)
  <2>7. new = [state |-> s, failures |-> b.failures, successes |-> n, sinceChange |-> c,
               halfOpen |-> h]
    BY <2>4
  <2> HIDE DEF new
  <2>8. new \in Breakers
    BY <2>5, <2>6, <2>7, BreakerOf
  <2> QED
    BY <2>8 DEF new
<1>6. AfterLoad(b) \in Breakers
  <2>1. \E n \in {0, b.successes}, h \in {0, b.halfOpen} :
          AfterLoad(b) = [state |-> b.state, failures |-> b.failures, successes |-> n,
                          sinceChange |-> b.sinceChange, halfOpen |-> h]
    BY DEF AfterLoad, Breakers
  <2> QED
    BY <2>1, BreakerAssumption DEF Breakers
<1>7. Aged(b) \in Breakers
  <2> DEFINE f == [i \in Recent |-> OneMore(b.failures[i], CBWindow)]
             a == OneMore(b.sinceChange, CBOpenTimeout)
  <2>1. f \in [Recent -> 0 .. CBWindow]
    BY BreakerAssumption DEF Breakers, OneMore
  <2>2. a \in 0 .. CBOpenTimeout
    BY BreakerAssumption DEF Breakers, OneMore
  <2>3. Aged(b) = [b EXCEPT !.failures = f, !.sinceChange = a]
    BY DEF Aged
  <2> HIDE DEF f, a
  <2> QED
    BY <2>1, <2>2, <2>3 DEF Breakers
<1> QED
  BY <1>3, <1>4, <1>5, <1>6, <1>7

(* So does an entry. *)
LEMMA EntriesStay ==
    ASSUME NEW x \in Entries
    PROVE  /\ CleanedUp(x) \in Entries /\ Migrated(x) \in Entries
           /\ Become(x, x.status, Less(x.left)) \in Entries
<1>1. Absent \in Entries
  BY CooldownAssumption DEF Absent, Entries, Statuses
<1>2. ASSUME NEW s \in Statuses, NEW n \in Nat PROVE Become(x, s, n) \in Entries
  BY DEF Become, Entries
<1>3. Probing(x) \in Entries /\ Disabled(x) \in Entries
  BY <1>2, RegistryAssumption DEF Probing, Disabled, Statuses
<1>4. Less(x.left) \in Nat /\ x.status \in Statuses
  BY DEF Less, Entries
<1>5. CleanedUp(x) \in {Disabled(x), Probing(x), Absent, x}
  BY DEF CleanedUp
<1> QED
  BY <1>1, <1>2, <1>3, <1>4, <1>5 DEF Migrated

LEMMA InitTyped == Init => TypeOK
<1> SUFFICES ASSUME Init PROVE TypeOK
  OBVIOUS
<1>1. Absent \in Entries
  BY CooldownAssumption DEF Absent, Entries, Statuses
<1>2. NewBreaker \in Breakers
  BY BreakerAssumption DEF NewBreaker, NoFailures, Breakers
<1> QED
  BY <1>1, <1>2, CooldownAssumption DEF Init, TypeOK

LEMMA MarkTyped ==
    ASSUME TypeOK, NEW k \in Keys, NEW p \in Providers, NEW e \in Errors, MarkEntry(k, p, e)
    PROVE  TypeOK'
<1>1. PICK q \in Calculate(e, entry[k].failures) :
          entry' = [entry EXCEPT ![k] = AfterError(@, e, q)]
  BY DEF MarkEntry
<1>2. entry[k] \in Entries /\ entry[k].failures \in 0 .. MaxFailures
  BY DEF TypeOK, Entries
<1>3. e.kind \in Kinds /\ e.base \in Nat
  BY RegistryAssumption DEF IsError
<1>4. q.left \in Nat
  BY <1>2, <1>3, QuarantineType
<1>5. Failures(e, entry[k].failures) \in 0 .. MaxFailures
  BY <1>2, FailuresCount
<1>6. AfterError(entry[k], e, q) \in Entries
  BY <1>3, <1>4, <1>5 DEF AfterError, Entries, Statuses
<1>7. entry' \in [Keys -> Entries]
  BY <1>1, <1>6 DEF TypeOK
<1>8. breaker' \in [Providers -> Breakers]
  <2>1. breaker' = [breaker EXCEPT ![p] = AfterFailure(breaker[p])]
    BY DEF MarkEntry
  <2> QED
    BY <2>1, BreakersStay DEF TypeOK
<1>9. inARow' \in [Keys -> 0 .. MaxFailures]
  BY CooldownAssumption DEF MarkEntry, Lower, TypeOK
<1> QED
  BY <1>7, <1>8, <1>9 DEF TypeOK, MarkEntry

LEMMA SuccessTyped ==
    ASSUME TypeOK, NEW p \in Providers, NEW ms \in SUBSET Models, NEW ks,
           MarkHealthy(p, ms), Succeeded(ks)
    PROVE  TypeOK'
<1>1. Healthy \in Entries
  BY CooldownAssumption DEF Healthy, Absent, Entries, Statuses
<1>2. entry' \in [Keys -> Entries]
  BY <1>1 DEF MarkHealthy, TypeOK
<1>3. breaker' \in [Providers -> Breakers]
  <2>1. breaker' = [breaker EXCEPT ![p] = AfterSuccess(breaker[p])]
    BY DEF MarkHealthy
  <2> QED
    BY <2>1, BreakersStay DEF TypeOK
<1>4. inARow' \in [Keys -> 0 .. MaxFailures] /\ gate' \in Nat
  BY CooldownAssumption DEF Succeeded, MarkHealthy, TypeOK
<1> QED
  BY <1>2, <1>3, <1>4 DEF TypeOK

LEMMA GateTyped ==
    ASSUME TypeOK, NEW p \in Providers, NEW e \in Errors, ShutGate(p, e)
    PROVE  TypeOK'
<1>1. PICK q \in Calculate(e, entry[p].failures) : gate' = IF q.permanent THEN gate ELSE q.left
  BY DEF ShutGate
<1>2. entry[p].failures \in 0 .. MaxFailures
  BY DEF TypeOK, Entries, Keys
<1>3. e.kind \in Kinds /\ e.base \in Nat
  BY RegistryAssumption DEF IsError
<1>4. q.left \in Nat
  BY <1>2, <1>3, QuarantineType
<1> QED
  BY <1>1, <1>4 DEF TypeOK, ShutGate

LEMMA NextTyped == TypeOK /\ [Next]_vars => TypeOK'
<1> SUFFICES ASSUME TypeOK, [Next]_vars PROVE TypeOK'
  OBVIOUS
<1>1. ASSUME NEW e \in Errors, NEW p \in Providers, ShutGate(p, e) PROVE TypeOK'
  BY <1>1, GateTyped
<1>2. ASSUME NEW e \in Errors, NEW m \in Models, MarkModelError(m, e) PROVE TypeOK'
  BY <1>2, MarkTyped, RegistryAssumption DEF MarkModelError, Keys
<1>3. ASSUME NEW e \in Errors, NEW p \in Providers, MarkProviderError(p, e) PROVE TypeOK'
  BY <1>3, MarkTyped DEF MarkProviderError, Keys
<1>4. ASSUME NEW m \in Models, RequestSucceeds(m) \/ ModelRestored(m) PROVE TypeOK'
  <2>1. ProviderOf[m] \in Providers
    BY RegistryAssumption
  <2> QED
    BY <1>4, <2>1, SuccessTyped DEF RequestSucceeds, ModelRestored
<1>5. ASSUME NEW p \in Providers, ProviderRestored(p) PROVE TypeOK'
  BY <1>5, SuccessTyped DEF ProviderRestored
<1>6. CASE ClearGate
  BY <1>6 DEF ClearGate, TypeOK
<1>7. ASSUME NEW p \in Providers, LookAt(p) PROVE TypeOK'
  <2>1. breaker' = [breaker EXCEPT ![p] = AfterCheck(breaker[p], FALSE)]
    BY <1>7 DEF LookAt
  <2> QED
    BY <1>7, <2>1, BreakersStay DEF LookAt, TypeOK
<1>8. CASE CleanupExpired
  BY <1>8, EntriesStay DEF CleanupExpired, TypeOK
<1>9. CASE Restart
  BY <1>9, EntriesStay, BreakersStay DEF Restart, TypeOK
<1>10. CASE Tick
  <2>1. Less(gate) \in Nat
    BY DEF Less, TypeOK
  <2> QED
    BY <1>10, <2>1, EntriesStay, BreakersStay DEF Tick, TypeOK
<1>11. CASE UNCHANGED vars
  BY <1>11 DEF vars, TypeOK
<1> QED
  BY <1>1, <1>2, <1>3, <1>4, <1>5, <1>6, <1>7, <1>8, <1>9, <1>10, <1>11 DEF Next, MarkError

(* Whatever is reported, in whatever order with cleanup, restarts and time *)
(* passing, every entry, the gate and every breaker are well formed, and   *)
(* no time that is left is negative (health_registry.py, cooldown.py).     *)
THEOREM RegistryTyped == Spec => []TypeOK
BY InitTyped, NextTyped, PTL DEF Spec

-----------------------------------------------------------------------------
(* The promise of Availability, step by step. *)

(* A permanent error is quarantined for ever. *)
LEMMA AccessIsForever ==
    ASSUME NEW e, e.kind = "access", NEW f \in 0 .. MaxFailures, NEW q \in Calculate(e, f)
    PROVE  q = Forever
<1>1. Failures(e, f) \in 0 .. MaxFailures /\ MaxFailures \in Nat
  BY FailuresCount, CooldownAssumption
<1>2. Calculate(e, f) = {Forever}
  <2>1. CASE Failures(e, f) >= MaxFailures
    BY <1>1, <2>1 DEF Calculate
  <2>2. CASE Failures(e, f) < MaxFailures
    BY <1>1, <2>2 DEF Calculate
  <2> QED
    BY <1>1, <2>1, <2>2
<1> QED
  BY <1>2

(* What a step does to an entry, seen as a record of availability. *)
LEMMA CleanupReviews ==
    ASSUME NEW x \in Entries
    PROVE  RecordOf(CleanedUp(x)) \in Promise!Reviewed(RecordOf(x))
<1>1. RecordOf(Absent) = Promise!Free
  BY DEF RecordOf, Standing, Cause, Absent, Promise!Free
<1>2. CASE x.status = "cooldown" /\ IsExpired(x.left)
  <2>1. RecordOf(x).standing = "resting"
    BY <1>2 DEF RecordOf, Standing
  <2>2. RecordOf(Probing(x)) = RecordOf(x)
    BY <1>2 DEF RecordOf, Standing, Cause, Probing, Become
  <2>3. RecordOf(Disabled(x)) = [RecordOf(x) EXCEPT !.standing = "locked"]
    BY DEF RecordOf, Standing, Cause, Disabled, Become
  <2>4. CASE x.failures >= MaxFailures /\ x.kind # "rate_limit"
    <3>1. RecordOf(x).strikes = MaxFailures
      BY <2>4, CooldownAssumption DEF RecordOf, Entries
    <3>2. RecordOf(x).cause # "passing"
      BY <2>4 DEF RecordOf, Cause
    <3>3. CleanedUp(x) = Disabled(x)
      BY <1>2, <2>4 DEF CleanedUp
    <3> QED
      BY <2>1, <2>3, <3>1, <3>2, <3>3 DEF Promise!Reviewed
  <2>5. CASE ~(x.failures >= MaxFailures /\ x.kind # "rate_limit")
    <3>1. CleanedUp(x) = Probing(x)
      BY <1>2, <2>5 DEF CleanedUp
    <3> QED
      BY <2>2, <3>1 DEF Promise!Reviewed
  <2> QED
    BY <2>4, <2>5
<1>3. CASE x.status = "probing" /\ IsExpired(x.left)
  <2>1. CleanedUp(x) = Absent
    BY <1>3 DEF CleanedUp
  <2>2. RecordOf(x).standing = "resting"
    BY <1>3 DEF RecordOf, Standing
  <2> QED
    BY <1>1, <2>1, <2>2 DEF Promise!Reviewed
<1>4. CASE ~(x.status = "cooldown" /\ IsExpired(x.left)) /\ ~(x.status = "probing" /\ IsExpired(x.left))
  <2>1. CleanedUp(x) = x
    BY <1>4 DEF CleanedUp
  <2> QED
    BY <2>1 DEF Promise!Reviewed
<1> QED
  BY <1>2, <1>3, <1>4

LEMMA RestartReloads ==
    ASSUME NEW x \in Entries
    PROVE  RecordOf(Migrated(x)) \in Promise!Reloaded(RecordOf(x))
<1>1. CASE x.status = "disabled" /\ x.kind \in {"rate_limit", "request_scoped"}
  <2>1. Migrated(x) = Probing(x)
    BY <1>1 DEF Migrated
  <2>2. RecordOf(Probing(x)) = [RecordOf(x) EXCEPT !.standing = "resting"]
    BY DEF RecordOf, Standing, Cause, Probing, Become
  <2>3. RecordOf(x).standing = "locked" /\ RecordOf(x).cause # "final"
    BY <1>1 DEF RecordOf, Standing, Cause
  <2> QED
    BY <2>1, <2>2, <2>3 DEF Promise!Reloaded
<1>2. CASE ~(x.status = "disabled" /\ x.kind \in {"rate_limit", "request_scoped"})
  <2>1. Migrated(x) = x
    BY <1>2 DEF Migrated
  <2> QED
    BY <2>1 DEF Promise!Reloaded
<1> QED
  BY <1>1, <1>2

LEMMA TimeKeepsRecords ==
    ASSUME NEW x \in Entries, NEW n
    PROVE  RecordOf(Become(x, x.status, n)) = RecordOf(x)
BY DEF RecordOf, Standing, Cause, Become

LEMMA ErrorStrikes ==
    ASSUME NEW x \in Entries, NEW e \in Errors, NEW q \in Calculate(e, x.failures)
    PROVE  RecordOf(AfterError(x, e, q)) \in Promise!Struck(RecordOf(x))
<1> DEFINE y == AfterError(x, e, q)
           n == Failures(e, x.failures)
<1>1. e.kind \in Kinds /\ x.failures \in 0 .. MaxFailures
  BY RegistryAssumption DEF IsError, Entries
<1>2. n \in 1 .. MaxFailures /\ n <= x.failures + 1
  BY <1>1, CooldownAssumption DEF Failures, Lower
<1>3. /\ e.kind = "access" => q.permanent
      /\ e.kind = "rate_limit" => ~q.permanent
      /\ q.permanent => e.kind = "access" \/ n = MaxFailures
  BY <1>1, PermanentForCause, AccessIsForever DEF Forever
<1>4. y.status = (IF q.permanent THEN "disabled" ELSE "cooldown") /\ y.kind = e.kind /\ y.failures = n
  BY DEF AfterError
<1> HIDE DEF y, n
<1>5. RecordOf(y) = [standing |-> IF q.permanent THEN "locked" ELSE "resting",
                     cause |-> Cause(y), strikes |-> n]
  BY <1>3, <1>4 DEF RecordOf, Standing
<1>6. /\ Cause(y) \in Promise!Causes
      /\ Cause(y) = "passing" <=> e.kind = "rate_limit"
      /\ Cause(y) = "final" <=> e.kind = "access"
  BY <1>1, <1>4 DEF Cause, Promise!Causes, Kinds
<1>7. RecordOf(x).strikes = x.failures
  BY DEF RecordOf
<1>8. CASE q.permanent
  <2>1. RecordOf(y) = [standing |-> "locked", cause |-> Cause(y), strikes |-> n]
    BY <1>5, <1>8
  <2>2. Cause(y) # "passing" /\ (Cause(y) = "lasting" => n = MaxFailures)
    BY <1>3, <1>6, <1>8
  <2> QED
    BY <1>2, <1>6, <1>7, <2>1, <2>2 DEF Promise!Struck, y
<1>9. CASE ~q.permanent
  <2>1. RecordOf(y) = [standing |-> "resting", cause |-> Cause(y), strikes |-> n]
    BY <1>5, <1>9
  <2>2. Cause(y) # "final"
    BY <1>3, <1>6, <1>9
  <2> QED
    BY <1>2, <1>6, <1>7, <2>1, <2>2 DEF Promise!Struck, y
<1> QED
  BY <1>3, <1>8, <1>9

RecordOfAll == [k \in Keys |-> RecordOf(entry[k])]

(* What a step is to those who read the registry. *)
LEMMA MarkIsStrike ==
    ASSUME TypeOK, NEW k \in Keys, NEW p \in Providers, NEW e \in Errors, MarkEntry(k, p, e)
    PROVE  Promise!Strike(k)
<1>1. PICK q \in Calculate(e, entry[k].failures) :
          entry' = [entry EXCEPT ![k] = AfterError(entry[k], e, q)]
  BY DEF MarkEntry
<1>2. entry[k] \in Entries /\ entry \in [Keys -> Entries]
  BY DEF TypeOK
<1>3. RecordOf(entry'[k]) \in Promise!Struck(RecordOf(entry[k]))
  BY <1>1, <1>2, ErrorStrikes
<1>4. [j \in Keys |-> RecordOf(entry'[j])]
         = [[j \in Keys |-> RecordOf(entry[j])] EXCEPT ![k] = RecordOf(entry'[k])]
  BY <1>1, <1>2
<1> QED
  BY <1>3, <1>4 DEF Promise!Strike

LEMMA SuccessIsPardon ==
    ASSUME TypeOK, NEW p \in Providers, NEW ms \in SUBSET Models, NEW m \in Keys,
           ms \subseteq {m}, m \in ms \/ m = p, MarkHealthy(p, ms)
    PROVE  Promise!Pardon(p, m)
<1>1. RecordOf(Healthy) = Promise!Free
  BY DEF RecordOf, Standing, Cause, Healthy, Absent, Promise!Free
<1>2. \A k \in Keys : (k = p \/ k \in ms) <=> k \in {p, m}
  OBVIOUS
<1>3. \A k \in Keys : RecordOf(entry'[k]) = IF k \in {p, m} THEN Promise!Free ELSE RecordOf(entry[k])
  BY <1>1, <1>2 DEF MarkHealthy
<1> QED
  BY <1>3 DEF Promise!Pardon

LEMMA RecordsStay ==
    ASSUME entry' = entry
    PROVE  RecordOfAll' = RecordOfAll
BY DEF RecordOfAll

LEMMA AvailabilitySteps ==
    TypeOK /\ [Next]_vars => [Promise!Next]_RecordOfAll
<1> SUFFICES ASSUME TypeOK, [Next]_vars
             PROVE  Promise!Next \/ RecordOfAll' = RecordOfAll
  OBVIOUS
<1>1. ASSUME NEW e \in Errors, NEW p \in Providers, ShutGate(p, e)
      PROVE  RecordOfAll' = RecordOfAll
  BY <1>1, RecordsStay DEF ShutGate
<1>2. ASSUME NEW e \in Errors, NEW m \in Models, MarkModelError(m, e)
      PROVE  Promise!Next
  <2>1. m \in Keys /\ ProviderOf[m] \in Providers
    BY RegistryAssumption DEF Keys
  <2>2. Promise!Strike(m)
    BY <1>2, <2>1, MarkIsStrike DEF MarkModelError
  <2> QED
    BY <2>1, <2>2 DEF Promise!Next
<1>3. ASSUME NEW e \in Errors, NEW p \in Providers, MarkProviderError(p, e)
      PROVE  Promise!Next
  <2>1. p \in Keys
    BY DEF Keys
  <2>2. Promise!Strike(p)
    BY <1>3, <2>1, MarkIsStrike DEF MarkProviderError
  <2> QED
    BY <2>1, <2>2 DEF Promise!Next
<1>4. ASSUME NEW m \in Models, RequestSucceeds(m) \/ ModelRestored(m)
      PROVE  Promise!Next
  <2>1. m \in Keys /\ ProviderOf[m] \in Providers /\ ProviderOf[m] \in Keys
    BY RegistryAssumption DEF Keys
  <2>2. CASE RequestSucceeds(m)
    <3>1. Promise!Pardon(ProviderOf[m], ProviderOf[m])
      BY <2>1, <2>2, SuccessIsPardon DEF RequestSucceeds
    <3> QED
      BY <2>1, <3>1 DEF Promise!Next
  <2>3. CASE ModelRestored(m)
    <3>1. Promise!Pardon(ProviderOf[m], m)
      BY <2>1, <2>3, SuccessIsPardon DEF ModelRestored
    <3> QED
      BY <2>1, <3>1 DEF Promise!Next
  <2> QED
    BY <1>4, <2>2, <2>3
<1>5. ASSUME NEW p \in Providers, ProviderRestored(p)
      PROVE  Promise!Next
  <2>1. p \in Keys
    BY DEF Keys
  <2>2. Promise!Pardon(p, p)
    BY <1>5, <2>1, SuccessIsPardon DEF ProviderRestored
  <2> QED
    BY <2>1, <2>2 DEF Promise!Next
<1>6. CASE ClearGate \/ \E p \in Providers : LookAt(p)
  BY <1>6, RecordsStay DEF ClearGate, LookAt
<1>7. CASE CleanupExpired
  <2>1. \A k \in Keys : RecordOf(entry'[k]) \in Promise!Reviewed(RecordOf(entry[k]))
    BY <1>7, CleanupReviews DEF CleanupExpired, TypeOK
  <2>2. Promise!Review
    BY <2>1 DEF Promise!Review
  <2> QED
    BY <2>2 DEF Promise!Next
<1>8. CASE Restart
  <2>1. \A k \in Keys : RecordOf(entry'[k]) \in Promise!Reloaded(RecordOf(entry[k]))
    BY <1>8, RestartReloads DEF Restart, TypeOK
  <2>2. Promise!Reload
    BY <2>1 DEF Promise!Reload
  <2> QED
    BY <2>2 DEF Promise!Next
<1>9. CASE Tick
  <2>1. \A k \in Keys : RecordOf(entry'[k]) = RecordOf(entry[k])
    BY <1>9, TimeKeepsRecords DEF Tick, TypeOK
  <2> QED
    BY <2>1 DEF RecordOfAll
<1>10. CASE UNCHANGED vars
  BY <1>10, RecordsStay DEF vars
<1> QED
  BY <1>1, <1>2, <1>3, <1>4, <1>5, <1>6, <1>7, <1>8, <1>9, <1>10 DEF Next, MarkError

LEMMA AvailabilityBegins == Init => Promise!Init
<1>1. RecordOf(Absent) = Promise!Free
  BY DEF RecordOf, Standing, Cause, Absent, Promise!Free
<1> QED
  BY <1>1 DEF Init, Promise!Init

(* The registry implements the promise, for any providers, models and      *)
(* errors: one error puts away one name and counts once; a rate limit never *)
(* locks; a final cause locks at once and is lifted by a success or another *)
(* error only; nothing but an error ends freedom (health_registry.py).     *)
THEOREM AvailabilityKept == Spec => AvailabilityIsKept
<1>1. TypeOK /\ [Next]_vars => [Promise!Next]_[k \in Keys |-> RecordOf(entry[k])]
  BY AvailabilitySteps DEF RecordOfAll
<1> QED
  BY <1>1, AvailabilityBegins, RegistryTyped, PTL DEF Spec, AvailabilityIsKept, Promise!Spec

-----------------------------------------------------------------------------
(* The error parser, whose results the registry is given (ErrorParser.tla). *)

(* The types of ERROR_PATTERNS and of what matches none of them. *)
Types == {"rate_limit_tpd", "rate_limit_rpm", "rate_limit_until", "daily_free_exhausted",
          "monthly_limit", "weekly_limit", "daily_quota_exceeded", "generic_429",
          "payment_required", "invalid_subscription", "subscription_level", "paid_required",
          "no_credit", "no_credentials", "auth_invalid", "request_invalid",
          "function_not_found", "model_not_found", "model_deprecated", "model_not_supported",
          "model_unavailable", "context_length", "context_length_nvidia", "gateway_quota",
          "fetch_failed", "generic_500", "worker_request_limit", "unknown_4xx",
          "unknown_500", "unknown_5xx", "unknown"}

(* What parse_error may decide: the permanent types shut no gate, and none *)
(* of them is about the size of a request.                                 *)
Results == [type : Types, minutes : Nat, permanent : BOOLEAN, specific : BOOLEAN,
            global : BOOLEAN]

Sane(r) == /\ r \in Results
           /\ r.permanent => ~r.global /\ r.type \notin {"context_length", "context_length_nvidia"}

SaneResults == {r \in Results : Sane(r)}

LEMMA ElementsOf ==
    ASSUME NEW S, NEW s \in Seq(S)
    PROVE  DOMAIN s = 1 .. Len(s) /\ \A i \in 1 .. Len(s) : s[i] \in S
OBVIOUS

LEMMA SaneRow ==
    ASSUME NEW type \in Types, NEW n \in Nat
    PROVE  Row(type, n) \in SaneResults
BY DEF Row, Sane, Results, SaneResults

LEMMA SaneGlobal ==
    ASSUME NEW type \in Types, NEW n \in Nat
    PROVE  [Row(type, n) EXCEPT !.global = TRUE] \in SaneResults
BY DEF Row, Sane, Results, SaneResults

LEMMA SaneOfModel ==
    ASSUME NEW r \in SaneResults
    PROVE  OfModel(r) \in SaneResults
BY DEF OfModel, Sane, Results, SaneResults

LEMMA SanePermanent ==
    ASSUME NEW type \in Types \ {"context_length", "context_length_nvidia"}, NEW n \in Nat
    PROVE  Permanent(Row(type, n)) \in SaneResults
BY DEF Row, Permanent, Sane, Results, SaneResults

LEMMA SaneRows == DOMAIN Rows = 1 .. 33
                  /\ \A i \in 1 .. 33 : Rows[i] \in SaneResults
<1>0. Day \in Nat /\ 7 * Day \in Nat
  BY DEF Day
<1>1. LimitRows \in Seq(SaneResults) /\ Len(LimitRows) = 9
  <2>1. {"daily_free_exhausted", "daily_quota_exceeded", "generic_429", "monthly_limit",
          "rate_limit_rpm", "rate_limit_tpd", "rate_limit_until", "weekly_limit"} \subseteq Types
    BY DEF Types
  <2>2. OfModel(Row("rate_limit_tpd", 90)) \in SaneResults
    BY <1>0, <2>1, SaneRow, SaneOfModel
  <2>3. OfModel(Row("rate_limit_rpm", 1)) \in SaneResults
    BY <1>0, <2>1, SaneRow, SaneOfModel
  <2>4. Row("rate_limit_until", 60) \in SaneResults
    BY <1>0, <2>1, SaneRow
  <2>5. Row("daily_free_exhausted", Day) \in SaneResults
    BY <1>0, <2>1, SaneRow
  <2>6. Row("monthly_limit", 60) \in SaneResults
    BY <1>0, <2>1, SaneRow
  <2>7. OfModel(Row("weekly_limit", 7 * Day)) \in SaneResults
    BY <1>0, <2>1, SaneRow, SaneOfModel
  <2>8. Row("daily_quota_exceeded", 60) \in SaneResults
    BY <1>0, <2>1, SaneRow
  <2>9. Row("generic_429", 15) \in SaneResults
    BY <1>0, <2>1, SaneRow
  <2>10. OfModel(Row("rate_limit_rpm", 5)) \in SaneResults
    BY <1>0, <2>1, SaneRow, SaneOfModel
  <2> QED
    BY <2>2, <2>3, <2>4, <2>5, <2>6, <2>7, <2>8, <2>9, <2>10 DEF LimitRows
<1>2. AccessRows \in Seq(SaneResults) /\ Len(AccessRows) = 8
  <2>1. {"auth_invalid", "invalid_subscription", "no_credentials", "no_credit",
          "paid_required", "payment_required", "subscription_level"} \subseteq Types \ {"context_length", "context_length_nvidia"}
    BY DEF Types
  <2>2. Permanent(Row("payment_required", 0)) \in SaneResults
    BY <1>0, <2>1, SanePermanent
  <2>3. Row("invalid_subscription", 60) \in SaneResults
    BY <1>0, <2>1, SaneRow
  <2>4. OfModel(Permanent(Row("subscription_level", 0))) \in SaneResults
    BY <1>0, <2>1, SanePermanent, SaneOfModel
  <2>5. Row("subscription_level", Day) \in SaneResults
    BY <1>0, <2>1, SaneRow
  <2>6. Permanent(Row("paid_required", 0)) \in SaneResults
    BY <1>0, <2>1, SanePermanent
  <2>7. Row("no_credit", Day) \in SaneResults
    BY <1>0, <2>1, SaneRow
  <2>8. Row("no_credentials", Day) \in SaneResults
    BY <1>0, <2>1, SaneRow
  <2>9. Permanent(Row("auth_invalid", 0)) \in SaneResults
    BY <1>0, <2>1, SanePermanent
  <2> QED
    BY <2>2, <2>3, <2>4, <2>5, <2>6, <2>7, <2>8, <2>9 DEF AccessRows
<1>3. ModelRows \in Seq(SaneResults) /\ Len(ModelRows) = 6
  <2>1. {"function_not_found", "model_deprecated", "model_not_found",
          "model_not_supported", "model_unavailable", "request_invalid"} \subseteq Types
    BY DEF Types
  <2>2. Row("request_invalid", 0) \in SaneResults
    BY <1>0, <2>1, SaneRow
  <2>3. OfModel(Row("function_not_found", 60)) \in SaneResults
    BY <1>0, <2>1, SaneRow, SaneOfModel
  <2>4. OfModel(Row("model_not_found", Day)) \in SaneResults
    BY <1>0, <2>1, SaneRow, SaneOfModel
  <2>5. OfModel(Row("model_deprecated", Day)) \in SaneResults
    BY <1>0, <2>1, SaneRow, SaneOfModel
  <2>6. OfModel(Row("model_not_supported", Day)) \in SaneResults
    BY <1>0, <2>1, SaneRow, SaneOfModel
  <2>7. OfModel(Row("model_unavailable", 15)) \in SaneResults
    BY <1>0, <2>1, SaneRow, SaneOfModel
  <2> QED
    BY <2>2, <2>3, <2>4, <2>5, <2>6, <2>7 DEF ModelRows
<1>4. SizeRows \in Seq(SaneResults) /\ Len(SizeRows) = 5
  <2>1. {"context_length", "context_length_nvidia", "daily_free_exhausted",
          "rate_limit_rpm"} \subseteq Types
    BY DEF Types
  <2>2. OfModel(Row("context_length", 15)) \in SaneResults
    BY <1>0, <2>1, SaneRow, SaneOfModel
  <2>3. OfModel(Row("context_length_nvidia", 15)) \in SaneResults
    BY <1>0, <2>1, SaneRow, SaneOfModel
  <2>4. OfModel(Row("daily_free_exhausted", Day)) \in SaneResults
    BY <1>0, <2>1, SaneRow, SaneOfModel
  <2>5. OfModel(Row("rate_limit_rpm", 5)) \in SaneResults
    BY <1>0, <2>1, SaneRow, SaneOfModel
  <2> QED
    BY <2>2, <2>3, <2>4, <2>5 DEF SizeRows
<1>5. GenericRows \in Seq(SaneResults) /\ Len(GenericRows) = 5
  <2>1. {"fetch_failed", "gateway_quota", "generic_429", "generic_500",
          "worker_request_limit"} \subseteq Types
    BY DEF Types
  <2>2. [Row("gateway_quota", 15) EXCEPT !.global = TRUE] \in SaneResults
    BY <1>0, <2>1, SaneGlobal
  <2>3. Row("generic_429", 15) \in SaneResults
    BY <1>0, <2>1, SaneRow
  <2>4. Row("fetch_failed", 5) \in SaneResults
    BY <1>0, <2>1, SaneRow
  <2>5. Row("generic_500", 2) \in SaneResults
    BY <1>0, <2>1, SaneRow
  <2>6. Row("worker_request_limit", 60) \in SaneResults
    BY <1>0, <2>1, SaneRow
  <2> QED
    BY <2>2, <2>3, <2>4, <2>5, <2>6 DEF GenericRows
<1> DEFINE a == LimitRows \o AccessRows
           b == a \o ModelRows
           c == b \o SizeRows
<1>6. a \in Seq(SaneResults) /\ Len(a) = Len(LimitRows) + Len(AccessRows)
  BY <1>1, <1>2, ConcatProperties
<1>7. b \in Seq(SaneResults) /\ Len(b) = Len(a) + Len(ModelRows)
  <2> HIDE DEF a
  <2> QED
    BY <1>3, <1>6, ConcatProperties
<1>8. c \in Seq(SaneResults) /\ Len(c) = Len(b) + Len(SizeRows)
  <2> HIDE DEF b
  <2> QED
    BY <1>4, <1>7, ConcatProperties
<1>9. Rows = c \o GenericRows
  BY DEF Rows
<1> HIDE DEF a, b, c
<1>10. /\ Rows \in Seq(SaneResults)
       /\ Len(Rows) = Len(c) + Len(GenericRows)
  BY <1>5, <1>8, <1>9, ConcatProperties
<1>11. Len(Rows) = 33
  BY <1>1, <1>2, <1>3, <1>4, <1>5, <1>6, <1>7, <1>8, <1>10
<1> QED
  BY <1>10, <1>11, ElementsOf

LEMMA FirstMatches ==
    ASSUME NEW text \in SUBSET (1 .. 33), text # {}
    PROVE  First(text) \in text
<1>1. \E i \in text : \A j \in text : i <= j
  BY LeastNumber
<1> QED
  BY <1>1 DEF First

LEMMA ItemParts ==
    ASSUME NEW i \in Items
    PROVE  /\ i.text \in SUBSET (1 .. 33)
           /\ i.hint \in Nat
           /\ i.named \in Known /\ i.from \in Known
<1>1. DOMAIN Rows = 1 .. 33 /\ {} \in SUBSET (1 .. 33)
  BY SaneRows
<1>2. Texts \subseteq SUBSET (1 .. 33) /\ Hints \subseteq Nat
  BY <1>1, ParserAssumption
<1>a. {"none"} \subseteq Known /\ Tiers \subseteq Known
  BY DEF Known
<1>3. CASE i \in CrossLines
  BY <1>2, <1>3, <1>a DEF CrossLines
<1>5. CASE i \in ModelLines
  BY <1>2, <1>5, <1>a DEF ModelLines
<1>6. CASE i \in TinyLines
  BY <1>1, <1>6, <1>a DEF TinyLines
<1>4. CASE i \in ComboLines
  <2>1. PICK s \in HttpStatuses, f \in Known :
           i = [status |-> s, text |-> ComboText(s), tiny |-> s = 429, hint |-> 0,
                named |-> "none", from |-> f]
    BY <1>4 DEF ComboLines
  <2>2. ComboText(s) \in SUBSET (1 .. 33)
    BY DEF ComboText
  <2> QED
    BY <2>1, <2>2, <1>a
<1> QED
  BY <1>3, <1>4, <1>5, <1>6 DEF Items

LEMMA Decided ==
    ASSUME NEW i \in Items
    PROVE  Sane(Decide(i))
<1>1. i.text \in SUBSET (1 .. 33)
  BY ItemParts
<1>2. CASE i.text # {} /\ ~(i.status = 429 /\ i.tiny)
  <2>1. First(i.text) \in 1 .. 33
    BY <1>1, <1>2, FirstMatches
  <2>2. Rows[First(i.text)] \in SaneResults
    BY <2>1, SaneRows
  <2> QED
    BY <1>2, <2>2 DEF Decide, SaneResults
<1>3. CASE ~(i.text # {} /\ ~(i.status = 429 /\ i.tiny))
  <2>1. PICK type \in Types, minutes \in Nat : Decide(i) = Row(type, minutes)
    <3>1. CASE i.status = 429 /\ i.tiny
      <4>1. Decide(i) = Row("generic_429", 15)
        BY <3>1 DEF Decide
      <4> QED
        BY <4>1 DEF Types
    <3>2. CASE ~(i.status = 429 /\ i.tiny)
      <4>1. Decide(i) = Unknown(i.status)
        BY <1>3, <3>2 DEF Decide
      <4>2. \/ Unknown(i.status) = Row("unknown_4xx", 15)
            \/ Unknown(i.status) = Row("unknown_500", 5)
            \/ Unknown(i.status) = Row("unknown_5xx", 5)
            \/ Unknown(i.status) = Row("unknown", 60)
        <5>1. CASE i.status \in 400 .. 499
          BY <5>1 DEF Unknown
        <5>2. CASE i.status = 500
          BY <5>2 DEF Unknown
        <5>3. CASE i.status \in 501 .. 599
          BY <5>3 DEF Unknown
        <5>4. CASE i.status \notin 400 .. 499 /\ i.status # 500 /\ i.status \notin 501 .. 599
          BY <5>4 DEF Unknown
        <5> QED
          BY <5>1, <5>2, <5>3, <5>4
      <4> QED
        BY <4>1, <4>2 DEF Types
    <3> QED
      BY <3>1, <3>2
  <2> QED
    BY <2>1 DEF Row, Sane, Results
<1> QED
  BY <1>2, <1>3

(* A hint of a second or more is kept to the minute. *)
LEMMA HintBound ==
    ASSUME NEW h \in Nat
    PROVE  HintMinutes(h) \in Nat /\ 60 * HintMinutes(h) >= h - 59
BY DEF HintMinutes

(* What going over a result changes. *)
LEMMA GoneOver ==
    ASSUME NEW r, Sane(r), NEW model, NEW h \in Nat
    PROVE  LET s == Postprocess(r, model, h) IN
           /\ Sane(s)
           /\ s.type = r.type /\ s.permanent = r.permanent /\ s.global = r.global
           /\ r.type \in Structural => s.minutes >= r.minutes
           /\ h > 0 /\ ~r.permanent => s.minutes >= HintMinutes(h)
           /\ model = "free" /\ r.type \in {"generic_429", "unknown_4xx"} => s.specific
<1> DEFINE m == HintMinutes(h)
           t == Hinted(r, h)
           limit == model = "free" /\ r.type \in {"generic_429", "unknown_4xx"}
           s == [t EXCEPT !.specific = @ \/ limit]
<1>1. m \in Nat
  BY HintBound
<1>2. PICK n \in Nat :
         /\ t = [r EXCEPT !.minutes = n]
         /\ r.type \in Structural => n >= r.minutes
         /\ h > 0 /\ ~r.permanent => n >= m
  <2>1. r \in Results /\ r.minutes \in Nat /\ r = [r EXCEPT !.minutes = r.minutes]
    BY DEF Sane, Results
  <2>2. CASE h = 0 \/ r.permanent \/ (r.type \in Structural /\ m <= r.minutes)
    <3>1. t = r
      BY <2>2 DEF Hinted
    <3> HIDE DEF t, m
    <3> QED
      BY <2>1, <2>2, <3>1
  <2>3. CASE ~(h = 0 \/ r.permanent \/ (r.type \in Structural /\ m <= r.minutes))
    <3>1. t = [r EXCEPT !.minutes = m]
      BY <2>3 DEF Hinted
    <3> HIDE DEF t, m
    <3> QED
      BY <1>1, <2>1, <2>3, <3>1
  <2> QED
    BY <2>2, <2>3
<1> HIDE DEF m, t
<1>3. /\ t \in Results /\ t.type = r.type /\ t.minutes = n /\ t.permanent = r.permanent
      /\ t.global = r.global
  BY <1>2 DEF Sane, Results
<1>4. limit \in BOOLEAN /\ t.specific \in BOOLEAN
  BY <1>3 DEF Results
<1>5. Postprocess(r, model, h) = s
  BY <1>3 DEF Postprocess, Scoped, t
<1> HIDE DEF limit
<1>6. /\ s \in Results /\ s.type = t.type /\ s.minutes = t.minutes
      /\ s.permanent = t.permanent /\ s.global = t.global
      /\ limit => s.specific
  BY <1>3, <1>4 DEF Results
<1> HIDE DEF s
<1>7. Sane(s)
  BY <1>3, <1>6 DEF Sane
<1>8. model = "free" /\ r.type \in {"generic_429", "unknown_4xx"} => s.specific
  BY <1>6 DEF limit
<1> QED
  BY <1>2, <1>3, <1>5, <1>6, <1>7, <1>8 DEF m

(* Both passes together. *)
LEMMA Parsed ==
    ASSUME NEW i \in Items
    PROVE  LET d == Decide(i)
               r == Parse(i)
           IN  /\ Sane(r)
               /\ r.type = d.type /\ r.permanent = d.permanent
               /\ r.type \in Structural => r.minutes >= d.minutes
               /\ i.hint > 0 /\ ~r.permanent => r.minutes >= HintMinutes(i.hint)
               /\ Model(i) = "free" /\ r.type \in {"generic_429", "unknown_4xx"}
                     => r.specific
<1> DEFINE d == Decide(i)
           o == Once(i)
           r == Parse(i)
<1>1. i.hint \in Nat /\ Sane(d)
  BY ItemParts, Decided
<1>2. /\ o = Postprocess(d, i.named, i.hint)
      /\ r = Postprocess(o, Model(i), i.hint)
  BY DEF Once, Parse
<1> HIDE DEF d, o, r
<1>3. /\ Sane(o) /\ o.type = d.type /\ o.permanent = d.permanent
      /\ d.type \in Structural => o.minutes >= d.minutes
  BY <1>1, <1>2, GoneOver
<1>4. /\ Sane(r) /\ r.type = o.type /\ r.permanent = o.permanent
      /\ o.type \in Structural => r.minutes >= o.minutes
      /\ i.hint > 0 /\ ~o.permanent => r.minutes >= HintMinutes(i.hint)
      /\ Model(i) = "free" /\ o.type \in {"generic_429", "unknown_4xx"} => r.specific
  BY <1>1, <1>2, <1>3, GoneOver
<1>5. d.minutes \in Nat /\ o.minutes \in Nat /\ r.minutes \in Nat
  BY <1>1, <1>3, <1>4 DEF Sane, Results
<1> QED
  BY <1>3, <1>4, <1>5 DEF d, r

-----------------------------------------------------------------------------
(* What the calculator makes of it.                                        *)

(* The first count of an error leaves at least the time it names, less the *)
(* jitter and the tick.                                                    *)
LEMMA FirstQuarantine ==
    ASSUME JitterPercents \subseteq 85 .. 115,
           NEW e, e.kind \in Kinds \ {"transport", "access"}, e.base \in Nat,
           NEW f \in 0 .. MaxFailures, Failures(e, f) = 1,
           NEW q \in Calculate(e, f)
    PROVE  100 * (q.left + 1) >= 85 * e.base
<1>1. 1 < MaxFailures /\ MaxFailures \in Nat /\ MinCooldown \in Nat
  BY CooldownAssumption
<1>2. q \in {Quarantine(d) : d \in Jittered(Backoff(e.base, 1))}
  BY <1>1 DEF Calculate
<1> DEFINE b == Backoff(e.base, 1)
<1>3. b \in Nat /\ b >= e.base
  BY <1>1 DEF Backoff
<1>4. PICK j \in JitterPercents : q = Quarantine((b * j) \div 100)
  BY <1>2 DEF Jittered
<1> HIDE DEF b
<1>5. j \in 85 .. 115
  BY <1>4
<1>6. b * j \in Nat /\ b * j >= 85 * b
  BY <1>3, <1>5
<1>7. q.left = (b * j) \div 100
  BY <1>4 DEF Quarantine
<1> DEFINE x == b * j
<1> HIDE DEF x
<1>8. x \in Nat => 100 * (x \div 100 + 1) >= x
  OBVIOUS
<1>9. x \in Nat /\ q.left = x \div 100 /\ x >= 85 * b
  BY <1>6, <1>7 DEF x
<1> QED
  BY <1>3, <1>8, <1>9

LEMMA KindsOf ==
    ASSUME NEW r, Sane(r)
    PROVE  /\ KindOf(r) \in Kinds
           /\ r.permanent <=> KindOf(r) = "access"
<1>1. r.permanent \in BOOLEAN
  BY DEF Sane, Results
<1>2. CASE r.permanent
  <2>1. r.type \notin {"context_length", "context_length_nvidia"}
    BY <1>2 DEF Sane
  <2>2. KindOf(r) = "access"
    BY <1>2, <2>1 DEF KindOf
  <2> QED
    BY <1>2, <2>2 DEF Kinds
<1>3. CASE ~r.permanent
  <2>1. KindOf(r) \in {"transport", "rate_limit", "request_scoped", "request_variant",
                              "other"}
    BY <1>3 DEF KindOf
  <2> QED
    BY <1>3, <2>1 DEF Kinds
<1> QED
  BY <1>1, <1>2, <1>3

-----------------------------------------------------------------------------
(* How a mark came about: by the gate, or by a count of a scope that is    *)
(* still the one the quarantine was computed with.                         *)
Gated(r, s, q) ==
    /\ s = "gate" /\ r.global
    /\ \E f \in 0 .. MaxFailures : q \in Calculate(AsError(r), f)

Counted(r, s, q) ==
    /\ s = ScopeOf(r, item) /\ s \in Scopes
    /\ \E f \in 0 .. MaxFailures : /\ failures[s] = Failures(AsError(r), f)
                                  /\ q \in Calculate(AsError(r), f)

MarkTells ==
    /\ item # Nothing
    /\ \E s, q : /\ mark = [result |-> Parse(item), scope |-> s, quarantine |-> q]
                 /\ Gated(mark.result, s, q) \/ Counted(mark.result, s, q)

Handled ==
    /\ failures \in [Scopes -> 0 .. MaxFailures]
    /\ item = Nothing \/ item \in Items
    /\ mark = Nothing \/ MarkTells

LEMMA InScope ==
    ASSUME NEW i \in Items, NEW r
    PROVE  ScopeOf(r, i) \in Scopes
<1>1. i.named \in Known /\ i.from \in Known
  BY ItemParts
<1>2. Model(i) \in Known
  BY <1>1 DEF Model
<1> QED
  BY <1>2 DEF ScopeOf, Known, Scopes

LEMMA HandledInit == ParserInit => Handled
BY CooldownAssumption DEF ParserInit, Handled

LEMMA HandledNext ==
    ASSUME Handled, [ParserNext]_parserVars
    PROVE  Handled'
<1>1. ASSUME NEW i \in Items, Log(i)
      PROVE  Handled'
  <2>1. item = Nothing /\ item' = i /\ failures' = failures /\ mark' = mark
    BY <1>1 DEF Log
  <2>2. mark = Nothing
    BY <2>1 DEF Handled, MarkTells
  <2> QED
    BY <2>1, <2>2 DEF Handled
<1>2. CASE Gate
  <2>1. PICK r, f : r = Parse(item) /\ f = failures["provider"]
    OBVIOUS
  <2>2. PICK q \in Calculate(AsError(r), f) :
           mark' = [result |-> r, scope |-> "gate", quarantine |-> q]
    BY <1>2, <2>1 DEF Gate
  <2>3. item # Nothing /\ item' = item /\ failures' = failures /\ r.global
    BY <1>2, <2>1 DEF Gate
  <2>4. f \in 0 .. MaxFailures
    BY <2>1 DEF Handled, Scopes
  <2>5. r = Parse(item)' /\ mark'.result = r
    BY <2>1, <2>2, <2>3
  <2>6. Gated(r, "gate", q)'
    BY <2>2, <2>3, <2>4 DEF Gated
  <2>7. MarkTells'
    BY <2>2, <2>3, <2>5, <2>6 DEF MarkTells
  <2> QED
    BY <2>3, <2>7 DEF Handled
<1>3. CASE Mark
  <2>1. PICK r, s, e : /\ r = Parse(item) /\ s = ScopeOf(r, item)
                       /\ e = AsError(r)
    OBVIOUS
  <2>2. PICK q \in Calculate(e, failures[s]) :
           mark' = [result |-> r, scope |-> s, quarantine |-> q]
    BY <1>3, <2>1 DEF Mark
  <2>3. /\ item # Nothing /\ item' = item
        /\ failures' = [failures EXCEPT ![s] = Failures(e, failures[s])]
    BY <1>3, <2>1 DEF Mark
  <2>4. item \in Items /\ s \in Scopes
    BY <2>1, <2>3, InScope DEF Handled
  <2>5. /\ r = Parse(item)' /\ s = ScopeOf(r, item)'
        /\ mark'.result = r
    BY <2>1, <2>2, <2>3
  <2>6. failures[s] \in 0 .. MaxFailures /\ Failures(e, failures[s]) \in 0 .. MaxFailures
    BY <2>4, FailuresCount DEF Handled
  <2>7. /\ failures' \in [Scopes -> 0 .. MaxFailures]
        /\ failures'[s] = Failures(e, failures[s])
    BY <2>3, <2>4, <2>6 DEF Handled
  <2>8. Counted(r, s, q)'
    BY <2>1, <2>2, <2>4, <2>5, <2>6, <2>7 DEF Counted
  <2>9. MarkTells'
    BY <2>2, <2>3, <2>5, <2>8 DEF MarkTells
  <2> QED
    BY <2>3, <2>4, <2>7, <2>9 DEF Handled
<1>4. CASE Forget
  BY <1>4 DEF Forget, Handled
<1>5. ASSUME NEW s \in Scopes, Recover(s)
      PROVE  Handled'
  <2>1. /\ item = Nothing /\ item' = item /\ mark' = mark
        /\ failures' = [failures EXCEPT ![s] = 0]
    BY <1>5 DEF Recover
  <2>2. mark = Nothing
    BY <2>1 DEF Handled, MarkTells
  <2> QED
    BY <2>1, <2>2, CooldownAssumption DEF Handled
<1>6. CASE UNCHANGED parserVars
  BY <1>6 DEF parserVars, Handled, MarkTells, Gated, Counted
<1> QED
  BY <1>1, <1>2, <1>3, <1>4, <1>5, <1>6 DEF ParserNext

LEMMA AlwaysHandled == ParserSpec => []Handled
<1>1. Handled /\ [ParserNext]_parserVars => Handled'
  BY HandledNext
<1> QED
  BY <1>1, HandledInit, PTL DEF ParserSpec

-----------------------------------------------------------------------------
(* What is marked, with the item it was made of. *)
LEMMA Marks ==
    ASSUME Handled, Marked
    PROVE  \E r, s, q :
             /\ mark = [result |-> r, scope |-> s, quarantine |-> q]
             /\ item \in Items /\ r = Parse(item) /\ Sane(r)
             /\ \/ Gated(r, s, q)
                \/ Counted(r, s, q)
<1>1. item \in Items /\ MarkTells
  BY DEF Handled, Marked, MarkTells
<1>2. PICK s, q : /\ mark = [result |-> Parse(item), scope |-> s, quarantine |-> q]
                  /\ Gated(mark.result, s, q) \/ Counted(mark.result, s, q)
  BY <1>1 DEF MarkTells
<1>3. PICK r : r = Parse(item)
  OBVIOUS
<1>4. Sane(r)
  BY <1>1, <1>3, Parsed
<1>5. mark = [result |-> r, scope |-> s, quarantine |-> q] /\ mark.result = r
  BY <1>2, <1>3
<1> QED
  BY <1>1, <1>2, <1>3, <1>4, <1>5

(* An error as the parser hands it to the calculator. *)
LEMMA ErrorsAre ==
    ASSUME NEW r, Sane(r)
    PROVE  LET e == AsError(r) IN
           /\ e.kind = KindOf(r) /\ e.kind \in Kinds
           /\ e.base = 2 * r.minutes /\ e.base \in Nat
           /\ r.permanent <=> e.kind = "access"
<1>1. r.minutes \in Nat
  BY DEF Sane, Results
<1>2. 2 * r.minutes \in Nat
  BY <1>1
<1>3. KindOf(r) \in Kinds /\ (r.permanent <=> KindOf(r) = "access")
  BY KindsOf
<1> QED
  BY <1>2, <1>3 DEF AsError

LEMMA HandledTyped ==
    ASSUME Handled
    PROVE  ParserTypeOK
<1>1. CASE mark = Nothing
  BY <1>1 DEF Handled, ParserTypeOK
<1>2. CASE mark # Nothing
  <2>1. PICK r, s, q :
             /\ mark = [result |-> r, scope |-> s, quarantine |-> q]
             /\ Sane(r)
             /\ \/ Gated(r, s, q)
                \/ Counted(r, s, q)
    BY <1>2, Marks DEF Marked
  <2>2. r.minutes \in Nat
    BY <2>1 DEF Sane, Results
  <2>3. s \in Scopes \cup {"gate"}
    BY <2>1 DEF Gated, Counted
  <2>4. q.left \in Nat
    <3>1. PICK f \in 0 .. MaxFailures : q \in Calculate(AsError(r), f)
      BY <2>1 DEF Gated, Counted
    <3> QED
      BY <2>1, <3>1, ErrorsAre, QuarantineType
  <2>5. mark.result = r /\ mark.scope = s /\ mark.quarantine = q
    BY <2>1
  <2> QED
    BY <2>2, <2>3, <2>4, <2>5 DEF Handled, ParserTypeOK
<1> QED
  BY <1>1, <1>2

LEMMA NeverShortened ==
    ASSUME Handled
    PROVE  HintsNeverShorten
<1> SUFFICES ASSUME Marked, Decide(item).type \in Structural
             PROVE  /\ mark.result.minutes >= Decide(item).minutes
                    /\ Decide(item).permanent => mark.quarantine = Forever
  BY DEF HintsNeverShorten
<1>1. PICK r, s, q :
         /\ mark = [result |-> r, scope |-> s, quarantine |-> q]
         /\ item \in Items /\ r = Parse(item) /\ Sane(r)
         /\ \/ Gated(r, s, q)
            \/ Counted(r, s, q)
  BY Marks
<1>2. /\ r.type = Decide(item).type /\ r.permanent = Decide(item).permanent
      /\ r.type \in Structural => r.minutes >= Decide(item).minutes
  BY <1>1, Parsed
<1>3. mark.result = r /\ mark.quarantine = q
  BY <1>1
<1>4. ASSUME r.permanent
      PROVE  q = Forever
  <2>1. ~r.global
    BY <1>1, <1>4 DEF Sane
  <2>2. PICK f \in 0 .. MaxFailures : q \in Calculate(AsError(r), f)
    BY <1>1, <2>1 DEF Gated, Counted
  <2> QED
    BY <1>1, <1>4, <2>2, ErrorsAre, AccessIsForever
<1> QED
  BY <1>2, <1>3, <1>4

LEMMA Honoured ==
    ASSUME Handled
    PROVE  HintsAreHonoured
<1> SUFFICES ASSUME Marked, item.hint > 0,
                    KindOf(mark.result) \notin {"transport", "access"},
                    mark.scope # "gate", failures[mark.scope] = 1
             PROVE  30 * 100 * (mark.quarantine.left + 1) >= 85 * (item.hint - 59)
  BY DEF HintsAreHonoured
<1>1. PICK r, s, q :
         /\ mark = [result |-> r, scope |-> s, quarantine |-> q]
         /\ item \in Items /\ r = Parse(item) /\ Sane(r)
         /\ \/ Gated(r, s, q)
            \/ Counted(r, s, q)
  BY Marks
<1>2. mark.result = r /\ mark.scope = s /\ mark.quarantine = q
  BY <1>1
<1> DEFINE e == AsError(r)
<1>3. PICK f \in 0 .. MaxFailures : Failures(e, f) = 1 /\ q \in Calculate(e, f)
  BY <1>1, <1>2 DEF Gated, Counted
<1>4. /\ e.kind \in Kinds \ {"transport", "access"} /\ ~r.permanent
      /\ e.base = 2 * r.minutes /\ e.base \in Nat
  BY <1>1, <1>2, ErrorsAre
<1> HIDE DEF e
<1>5. JitterPercents \subseteq 85 .. 115
  BY ParserAssumption
<1>6. 100 * (q.left + 1) >= 85 * e.base
  BY <1>3, <1>4, <1>5, FirstQuarantine
<1>7. q.left \in Nat /\ r.minutes \in Nat
  BY <1>1, <1>3, <1>4, QuarantineType DEF Sane, Results
<1>8. item.hint \in Nat
  BY <1>1, ItemParts
<1>9. /\ HintMinutes(item.hint) \in Nat
      /\ 60 * HintMinutes(item.hint) >= item.hint - 59
  BY <1>8, HintBound
<1>10. r.minutes >= HintMinutes(item.hint)
  BY <1>1, <1>4, Parsed
<1> DEFINE h == item.hint
           m == r.minutes
           k == HintMinutes(item.hint)
           x == q.left
           b == e.base
<1> HIDE DEF h, m, k, x, b
<1>11. /\ h \in Nat /\ m \in Nat /\ k \in Nat /\ x \in Nat /\ b \in Nat
       /\ 100 * (x + 1) >= 85 * b /\ b = 2 * m /\ m >= k /\ 60 * k >= h - 59
  BY <1>4, <1>6, <1>7, <1>8, <1>9, <1>10 DEF h, m, k, x, b
<1>12. 30 * 100 * (x + 1) >= 85 * (h - 59)
  BY <1>11
<1> QED
  BY <1>2, <1>12 DEF x, h

LEMMA FreeStep ==
    ASSUME Handled, [ParserNext]_parserVars,
           mark' # mark, mark' # Nothing, Model(item) = "free",
           mark'.result.type \in {"generic_429", "unknown_4xx"}
    PROVE  failures'["provider"] = failures["provider"]
<1>1. Gate \/ Mark
  BY DEF ParserNext, Log, Forget, Recover, parserVars
<1>2. CASE Gate
  BY <1>2 DEF Gate
<1>3. CASE Mark
  <2>1. PICK r, s, e : /\ r = Parse(item) /\ s = ScopeOf(r, item)
                       /\ e = AsError(r)
    OBVIOUS
  <2>2. PICK q : mark' = [result |-> r, scope |-> s, quarantine |-> q]
    BY <1>3, <2>1 DEF Mark
  <2>3. /\ item # Nothing
        /\ failures' = [failures EXCEPT ![s] = Failures(e, @)]
    BY <1>3, <2>1 DEF Mark
  <2>4. r.specific
    <3>1. item \in Items
      BY <2>3 DEF Handled
    <3>2. mark'.result = r
      BY <2>2
    <3> QED
      BY <2>1, <3>1, <3>2, Parsed
  <2>5. s = "free"
    BY <2>1, <2>4 DEF ScopeOf
  <2> QED
    BY <2>3, <2>5 DEF Handled, Scopes
<1> QED
  BY <1>1, <1>2, <1>3

(* error_parser.py, cooldown.py: whatever is logged, in whichever form,    *)
(* the parser's two passes and the calculator give a scope, a number of    *)
(* minutes and a quarantine.                                               *)
THEOREM ParserTyped == ParserSpec => []ParserTypeOK
<1>1. Handled => ParserTypeOK
  BY HandledTyped
<1> QED
  BY <1>1, AlwaysHandled, PTL

(* error_parser.py:167-197: no hint takes back what a text decides for     *)
(* good or for a structural reason, for any texts and hints; and the       *)
(* quarantine of what is permanent never ends.                             *)
THEOREM StructuralStays == ParserSpec => []HintsNeverShorten
<1>1. Handled => HintsNeverShorten
  BY NeverShortened
<1> QED
  BY <1>1, AlwaysHandled, PTL

(* error_parser.py:174-186, cooldown.py:150-165: the first transient error *)
(* keeps its scope away for as long as the text asks, to the minute, less  *)
(* a jitter of fifteen percent and a tick, for every hint.                 *)
THEOREM HintsKept == ParserSpec => []HintsAreHonoured
<1>1. Handled => HintsAreHonoured
  BY Honoured
<1> QED
  BY <1>1, AlwaysHandled, PTL

(* error_parser.py:191-195: a generic rate limit, or a 4xx no pattern      *)
(* matches, of a :free model never counts against its provider, whoever    *)
(* names the model.                                                        *)
THEOREM FreeModelsAlone == ParserSpec => FreeTierIsScoped
<1> DEFINE Apart == mark' # mark /\ mark' # Nothing /\ Model(item) = "free"
                    /\ mark'.result.type \in {"generic_429", "unknown_4xx"}
                    => failures'["provider"] = failures["provider"]
<1>1. Handled /\ [ParserNext]_parserVars => [Apart]_parserVars
  BY FreeStep
<1> QED
  BY <1>1, AlwaysHandled, PTL DEF ParserSpec, FreeTierIsScoped
=============================================================================
