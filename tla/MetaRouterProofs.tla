--------------------------- MODULE MetaRouterProofs ---------------------------
(***************************************************************************)
(* Safety of the selector and its registry, for any routers, weights,      *)
(* models, thresholds and handler threads.                                 *)
(***************************************************************************)
EXTENDS MetaRouter, FiniteSetTheorems, WellFoundedInduction, TLAPS

Careful == Routers \ Lightweight

(* What one record and the number of successful probes behind it satisfy.  *)
Earned(r, k) == /\ r.status = "probing" => k >= 1 /\ r.probesOk = 1
                /\ r.status = "healthy" => k = 2

RecordsOK == /\ registry \in [Routers -> RouterStates]
             /\ proofs \in [Routers -> 0 .. 2]

IInv == RecordsOK /\ \A n \in Careful : Earned(registry[n], proofs[n])

(* One success more earns what mark_healthy makes of it. *)
LEMMA SuccessEarned ==
    ASSUME NEW r \in RouterStates, NEW k \in 0 .. 2, Earned(r, k)
    PROVE  Earned(MarkedHealthy(r, FALSE), IF k < 2 THEN k + 1 ELSE k)
BY DEF Earned, MarkedHealthy, RouterStates, RouterStatuses

(* What the two marks and a reload return is a record. *)
LEMMA MarkedHealthyType ==
    ASSUME NEW r \in RouterStates, NEW l \in BOOLEAN
    PROVE  MarkedHealthy(r, l) \in RouterStates
BY StrikesAssumption DEF MarkedHealthy, RouterStates, RouterStatuses

LEMMA MarkedUnhealthyType ==
    ASSUME NEW r \in RouterStates
    PROVE  MarkedUnhealthy(r) \in RouterStates
<1> DEFINE n == IF r.failures < Strikes THEN r.failures + 1 ELSE r.failures
<1>1. n \in 0 .. Strikes
  BY StrikesAssumption DEF RouterStates
<1>2. MarkedUnhealthy(r) = [r EXCEPT !.failures = n,
                               !.status = IF n = Strikes THEN "cooldown" ELSE @]
  BY DEF MarkedUnhealthy
<1> HIDE DEF n
<1> QED
  BY <1>1, <1>2 DEF RouterStates, RouterStatuses

LEMMA LoadedType ==
    ASSUME NEW r \in RouterStates, NEW l \in BOOLEAN
    PROVE  Loaded(r, l) \in RouterStates
BY StrikesAssumption DEF Loaded, NewRouter, RouterStates, RouterStatuses

(* A failure either puts the router in cooldown or changes neither its     *)
(* status nor its probes.                                                  *)
LEMMA FailureForgives ==
    ASSUME NEW r \in RouterStates
    PROVE  \/ MarkedUnhealthy(r).status = "cooldown"
           \/ /\ MarkedUnhealthy(r).status = r.status
              /\ MarkedUnhealthy(r).probesOk = r.probesOk
BY DEF MarkedUnhealthy, RouterStates

(* So failures keep what was earned, whoever reports them. *)
LEMMA FailureKeeps ==
    ASSUME IInv, NEW n \in Routers,
           registry' = Marked(registry, n),
           proofs' = [proofs EXCEPT ![n] = IF registry'[n].status = "cooldown" THEN 0 ELSE @]
    PROVE  IInv'
<1> DEFINE new == MarkedUnhealthy(registry[n])
<1>1. new \in RouterStates
  BY MarkedUnhealthyType DEF IInv, RecordsOK
<1>2. registry' = [registry EXCEPT ![n] = new]
  BY DEF Marked
<1>3. \/ new.status = "cooldown"
      \/ new.status = registry[n].status /\ new.probesOk = registry[n].probesOk
  BY FailureForgives DEF IInv, RecordsOK
<1> HIDE DEF new
<1>4. registry'[n] = new
  BY <1>2 DEF IInv, RecordsOK
<1>5. RecordsOK'
  BY <1>1, <1>2 DEF IInv, RecordsOK
<1>6. ASSUME NEW o \in Careful PROVE Earned(registry[o], proofs[o])'
  <2>1. CASE o = n
    <3>1. CASE new.status = "cooldown"
      BY <2>1, <3>1, <1>4 DEF Earned
    <3>2. CASE new.status # "cooldown"
      <4>1. proofs'[n] = proofs[n]
        BY <3>2, <1>4 DEF IInv, RecordsOK
      <4> QED
        BY <2>1, <3>2, <1>3, <1>4, <4>1 DEF Earned, IInv
    <3> QED
      BY <3>1, <3>2
  <2>2. CASE o # n
    BY <2>2, <1>2 DEF IInv, RecordsOK, Careful, Earned
  <2> QED
    BY <2>1, <2>2
<1> QED
  BY <1>5, <1>6 DEF IInv

LEMMA InitEarned == Init => IInv
BY StrikesAssumption DEF Init, IInv, RecordsOK, NewRouter, RouterStates, RouterStatuses, Earned, Careful

(* A recorded probe. *)
LEMMA RecordKeeps ==
    ASSUME IInv, NEW n \in Routers, Record(n)
    PROVE  IInv'
<1>1. CASE verdict[n] = "answered"
  <2> DEFINE new  == MarkedHealthy(registry[n], n \in Lightweight)
             more == IF n \notin Lightweight /\ proofs[n] < 2 THEN proofs[n] + 1 ELSE proofs[n]
  <2>1. new \in RouterStates
    <3>1. registry[n] \in RouterStates
      BY DEF IInv, RecordsOK
    <3>2. new = MarkedHealthy(registry[n], TRUE) \/ new = MarkedHealthy(registry[n], FALSE)
      BY DEF MarkedHealthy
    <3> HIDE DEF new
    <3> QED
      BY <3>1, <3>2, MarkedHealthyType
  <2>6. more \in 0 .. 2
    <3>1. proofs[n] \in 0 .. 2
      BY DEF IInv, RecordsOK
    <3> QED
      BY <3>1
  <2>2. n \in Careful => Earned(new, more)
    <3> SUFFICES ASSUME n \in Careful PROVE Earned(new, more)
      OBVIOUS
    <3>1. new = MarkedHealthy(registry[n], FALSE)
      BY DEF MarkedHealthy, Careful
    <3>2. more = IF proofs[n] < 2 THEN proofs[n] + 1 ELSE proofs[n]
      BY DEF Careful
    <3> HIDE DEF new, more
    <3>3. Earned(registry[n], proofs[n]) /\ registry[n] \in RouterStates /\ proofs[n] \in 0 .. 2
      BY DEF IInv, RecordsOK
    <3> QED
      BY <3>1, <3>2, <3>3, SuccessEarned
  <2>3. registry' = [registry EXCEPT ![n] = new] /\ proofs' = [proofs EXCEPT ![n] = more]
    BY <1>1 DEF Record
  <2> HIDE DEF new, more
  <2>4. RecordsOK'
    BY <2>1, <2>6, <2>3 DEF IInv, RecordsOK
  <2>5. ASSUME NEW o \in Careful PROVE Earned(registry[o], proofs[o])'
    BY <2>2, <2>3 DEF IInv, RecordsOK, Careful, Earned
  <2> QED
    BY <2>4, <2>5 DEF IInv
<1>2. CASE verdict[n] # "answered"
  BY <1>2, FailureKeeps DEF Record
<1> QED
  BY <1>1, <1>2

LEMMA RestartKeeps ==
    ASSUME IInv, Restart
    PROVE  IInv'
<1>1. ASSUME NEW n \in Routers PROVE Loaded(registry[n], n \in Lightweight) \in RouterStates
  <2>1. CASE n \in Lightweight
    <3>1. Loaded(registry[n], n \in Lightweight) = Loaded(registry[n], TRUE)
      BY <2>1 DEF Loaded
    <3> QED
      BY <3>1, LoadedType DEF IInv, RecordsOK
  <2>2. CASE n \notin Lightweight
    BY <2>2 DEF Loaded, IInv, RecordsOK
  <2> QED
    BY <2>1, <2>2
<1>2. RecordsOK'
  BY <1>1 DEF Restart, IInv, RecordsOK
<1>3. ASSUME NEW n \in Careful PROVE Earned(registry[n], proofs[n])'
  BY DEF Restart, IInv, Loaded, Careful, Earned
<1> QED
  BY <1>2, <1>3 DEF IInv

LEMMA NextKeeps == IInv /\ [Next]_vars => IInv'
<1> SUFFICES ASSUME IInv, [Next]_vars PROVE IInv'
  OBVIOUS
<1>1. ASSUME UNCHANGED <<registry, proofs>> PROVE IInv'
  BY <1>1 DEF IInv, RecordsOK
<1>2. ASSUME NEW t \in Requests, Arrive(t) PROVE IInv'
  BY <1>2, <1>1 DEF Arrive
<1>3. ASSUME NEW t \in Requests, Select(t) PROVE IInv'
  BY <1>3, <1>1 DEF Select
<1>4. ASSUME NEW t \in Requests, Finish(t) \/ FirstAnswers(t) \/ FirstErrs(t) PROVE IInv'
  BY <1>4, <1>1 DEF Finish, FirstAnswers, FirstErrs
<1>5. ASSUME NEW n, Failed(n) PROVE IInv'
  <2>1. CASE n \in Routers
    BY <1>5, <2>1, FailureKeeps DEF Failed
  <2>2. CASE n \notin Routers
    <3>1. registry' = registry /\ proofs' = proofs
      BY <1>5, <2>2 DEF Failed, Marked, IInv, RecordsOK
    <3> QED
      BY <3>1, <1>1
  <2> QED
    BY <2>1, <2>2
<1>6. ASSUME NEW t \in Requests, FirstUnreachable(t) \/ SecondFails(t) PROVE IInv'
  BY <1>6, <1>5 DEF FirstUnreachable, SecondFails
<1>7. ASSUME NEW n \in Routers, Probe(n) \/ Flip(n) PROVE IInv'
  BY <1>7, <1>1 DEF Probe, Flip
<1>8. ASSUME NEW n \in Routers, Record(n) PROVE IInv'
  BY <1>8, RecordKeeps
<1>9. CASE Restart
  BY <1>9, RestartKeeps
<1>10. CASE UNCHANGED vars
  BY <1>10, <1>1 DEF vars
<1> QED
  BY <1>2, <1>3, <1>4, <1>6, <1>7, <1>8, <1>9, <1>10 DEF Next, Handle

(* A router probed at its catalog is in use only after two successful      *)
(* probes since its last cooldown.                                         *)
THEOREM HealthEarned == Spec => []HealthIsEarned
<1>1. IInv => HealthIsEarned
  BY DEF IInv, HealthIsEarned, Earned, Careful
<1> QED
  BY <1>1, InitEarned, NextKeeps, PTL DEF Spec

-----------------------------------------------------------------------------
(* The flapping filter never takes everybody. *)
LEMMA SteadyKeepsSome ==
    ASSUME NEW ns, ns # {}
    PROVE  Steady(ns) # {}
BY DEF Steady

(* Whoever lists the model makes somebody eligible. *)
LEMMA EligibleFound ==
    ASSUME NEW g, NEW m, NEW n \in Healthy(g),
           m = None \/ \E x \in catalog[n] : SameModel(m, x)
    PROVE  Eligible(g, m) # {}
<1> DEFINE capable == {o \in Healthy(g) : \E x \in catalog[o] : SameModel(m, x)}
<1>1. m # None => capable # {}
  OBVIOUS
<1>2. m # None => Eligible(g, m) \in {{Dedicated}, capable} \/ capable = {}
  BY DEF Eligible
<1>3. m = None => Eligible(g, m) = Healthy(g)
  BY DEF Eligible
<1> QED
  BY <1>1, <1>2, <1>3

(* call has its shape, so that a thread's own entry is what SetCall writes. *)
CallsKept == call = [t \in Requests |-> call[t]]

LEMMA NextCalls == CallsKept /\ [Next]_vars => CallsKept'
<1> SUFFICES ASSUME CallsKept, [Next]_vars PROVE CallsKept'
  OBVIOUS
<1>1. ASSUME NEW t, NEW c, SetCall(t, c) PROVE CallsKept'
  BY <1>1 DEF SetCall, CallsKept
<1>2. ASSUME UNCHANGED call PROVE CallsKept'
  BY <1>2 DEF CallsKept
<1>3. ASSUME NEW t \in Requests, Arrive(t) \/ Handle(t) PROVE CallsKept'
  BY <1>3, <1>1 DEF Arrive, Handle, Select, Finish, FirstAnswers, FirstErrs,
                    FirstUnreachable, SecondFails
<1>4. ASSUME NEW n \in Routers, Probe(n) \/ Record(n) \/ Flip(n) PROVE CallsKept'
  BY <1>4, <1>2 DEF Probe, Record, Flip
<1>5. CASE Restart
  BY <1>5 DEF Restart, CallsKept
<1>6. CASE UNCHANGED vars
  BY <1>6, <1>2 DEF vars
<1> QED
  BY <1>3, <1>4, <1>5, <1>6 DEF Next

(* What a thread turns into when SetCall was given c. *)
LEMMA SetCallSets ==
    ASSUME CallsKept, NEW t \in Requests, NEW c, SetCall(t, c)
    PROVE  call'[t] = c /\ \A o \in Requests \ {t} : call'[o] = call[o]
BY DEF CallsKept, SetCall

(* A refusal leaves no healthy router that could serve the model. *)
LEMMA SelectUsable ==
    ASSUME NEW t \in Requests, Select(t), CallsKept, call'[t].at = "refused",
           ~Forbidden(call'[t].model, call'[t].private),
           NEW n \in Healthy(registry)
    PROVE  call'[t].model # None /\ \A x \in catalog[n] : ~SameModel(call'[t].model, x)
<1>1. PICK m \in Models \cup {None} : \E private \in BOOLEAN :
         SetCall(t, IF (IF Forbidden(m, private) THEN {} ELSE Steady(Eligible(registry, m))) = {}
                    THEN [at |-> "refused", router |-> None, model |-> m, private |-> private]
                    ELSE [at |-> "first",
                          router |-> Best(IF Forbidden(m, private) THEN {}
                                          ELSE Steady(Eligible(registry, m))),
                          model |-> m, private |-> FALSE])
  BY DEF Select
<1>2. PICK private \in BOOLEAN :
         SetCall(t, IF (IF Forbidden(m, private) THEN {} ELSE Steady(Eligible(registry, m))) = {}
                    THEN [at |-> "refused", router |-> None, model |-> m, private |-> private]
                    ELSE [at |-> "first",
                          router |-> Best(IF Forbidden(m, private) THEN {}
                                          ELSE Steady(Eligible(registry, m))),
                          model |-> m, private |-> FALSE])
  BY <1>1
<1> DEFINE ns == IF Forbidden(m, private) THEN {} ELSE Steady(Eligible(registry, m))
           c  == IF ns = {} THEN [at |-> "refused", router |-> None, model |-> m,
                                  private |-> private]
                 ELSE [at |-> "first", router |-> Best(ns), model |-> m, private |-> FALSE]
<1>3. call'[t] = c
  <2>1. SetCall(t, c)
    BY <1>2
  <2> HIDE DEF c
  <2> QED
    BY <2>1, SetCallSets
<1>4. ns = {} /\ call'[t].model = m /\ call'[t].private = private
  <2> HIDE DEF ns
  <2>1. ns = {}
    <3> SUFFICES ASSUME ns # {} PROVE FALSE
      OBVIOUS
    <3>1. c = [at |-> "first", router |-> Best(ns), model |-> m, private |-> FALSE]
      OBVIOUS
    <3>2. c.at = "first"
      BY <3>1
    <3> HIDE DEF c
    <3> QED
      BY <1>3, <3>2
  <2>2. c = [at |-> "refused", router |-> None, model |-> m, private |-> private]
    BY <2>1
  <2>3. c.model = m /\ c.private = private
    BY <2>2
  <2> HIDE DEF c
  <2> QED
    BY <1>3, <2>1, <2>3
<1>5. Eligible(registry, m) = {}
  BY <1>4, SteadyKeepsSome
<1>6. ~(m = None \/ \E x \in catalog[n] : SameModel(m, x))
  BY <1>5, EligibleFound
<1> QED
  BY <1>4, <1>6

(* A request is refused only if no healthy router could serve it. *)
THEOREM UsableRouters == Spec => HealthyRoutersAreUsable
<1> DEFINE Usable(t) ==
      call'[t].at = "refused" /\ call[t].at = "choosing"
      /\ ~Forbidden(call'[t].model, call'[t].private)
        => \A n \in Healthy(registry) :
              call'[t].model # None /\ \A x \in catalog[n] : ~SameModel(call'[t].model, x)
<1>1. Init => CallsKept
  BY DEF Init, CallsKept
<1>2. CallsKept /\ [Next]_vars => [\A t \in Requests : Usable(t)]_vars
  <2> SUFFICES ASSUME CallsKept, Next, NEW t \in Requests,
                      call'[t].at = "refused", call[t].at = "choosing",
                      ~Forbidden(call'[t].model, call'[t].private),
                      NEW n \in Healthy(registry)
               PROVE  call'[t].model # None
                      /\ \A x \in catalog[n] : ~SameModel(call'[t].model, x)
    OBVIOUS
  <2>1. call'[t] # call[t]
    OBVIOUS
  <2>2. ASSUME NEW o \in Requests, NEW c, SetCall(o, c) PROVE o = t /\ call'[t] = c
    BY <2>2, <2>1, SetCallSets
  <2>3. ASSUME NEW o \in Requests, Arrive(o) PROVE FALSE
    <3>1. call'[t] = [Idle EXCEPT !.at = "choosing"]
      BY <2>3, <2>2 DEF Arrive
    <3> QED
      BY <3>1 DEF Idle
  <2>4. ASSUME NEW o \in Requests,
               Finish(o) \/ FirstAnswers(o) \/ FirstErrs(o) \/ FirstUnreachable(o) \/ SecondFails(o)
        PROVE FALSE
    <3>1. call[o].at # "choosing"
      BY <2>4 DEF Finish, FirstAnswers, FirstErrs, FirstUnreachable, SecondFails
    <3>2. PICK c : SetCall(o, c)
      BY <2>4 DEF Finish, FirstAnswers, FirstErrs, FirstUnreachable, SecondFails
    <3> QED
      BY <3>1, <3>2, <2>2
  <2>5. ASSUME NEW o \in Requests, Select(o) PROVE o = t
    <3>1. PICK c : SetCall(o, c)
      BY <2>5 DEF Select
    <3> QED
      BY <3>1, <2>2
  <2>6. ASSUME NEW o \in Routers, Probe(o) \/ Record(o) \/ Flip(o) PROVE FALSE
    BY <2>6, <2>1 DEF Probe, Record, Flip
  <2>7. CASE Restart
    BY <2>7 DEF Restart, Idle
  <2>8. CASE Select(t)
    BY <2>8, SelectUsable
  <2> QED
    BY <2>3, <2>4, <2>5, <2>6, <2>7, <2>8 DEF Next, Handle
<1>3. [\A t \in Requests : Usable(t)]_vars
      <=> [\A t \in Requests :
            LET c == call'[t] IN
            c.at = "refused" /\ call[t].at = "choosing" /\ ~Forbidden(c.model, c.private)
              => \A n \in Healthy(registry) :
                    c.model # None /\ \A x \in catalog[n] : ~SameModel(c.model, x)]_vars
  OBVIOUS
<1> HIDE DEF Usable
<1> QED
  BY <1>1, <1>2, <1>3, NextCalls, PTL DEF Spec, HealthyRoutersAreUsable

-----------------------------------------------------------------------------
(* Sums over sets of routers. *)

(* A set of sets of routers has one that no removal of a router leaves in it. *)
LEMMA SmallestSet ==
    ASSUME NEW bad \in SUBSET (SUBSET Routers), bad # {}
    PROVE  \E ns \in bad : \A n \in ns : ns \ {n} \notin bad
<1>1. FiniteSubsetsOf(Routers) = SUBSET Routers
  BY SelectorAssumption, FS_FiniteSubsetsOfFinite
<1>2. IsWellFoundedOn(StrictSubsetOrdering(Routers), SUBSET Routers)
  BY <1>1, FS_StrictSubsetOrderingWellFounded
<1>3. PICK ns \in bad : \A o \in bad : <<o, ns>> \notin StrictSubsetOrdering(Routers)
  <2> DEFINE smaller == StrictSubsetOrdering(Routers)
  <2>1. IsWellFoundedOn(smaller, SUBSET Routers)
    BY <1>2
  <2> HIDE DEF smaller
  <2>2. \E ns \in bad : \A o \in bad : ~ (<<o, ns>> \in smaller)
    BY <2>1, WFMin
  <2> QED
    BY <2>2 DEF smaller
<1>4. ASSUME NEW n \in ns, ns \ {n} \in bad PROVE FALSE
  <2>1. <<ns \ {n}, ns>> \in StrictSubsetOrdering(Routers)
    <3>1. ns \ {n} \in SUBSET Routers /\ ns \in SUBSET Routers
      OBVIOUS
    <3>2. ns \ {n} \subseteq ns /\ ns \ {n} # ns
      OBVIOUS
    <3> DEFINE o == ns \ {n}
    <3> HIDE DEF o
    <3> QED
      BY <3>1, <3>2 DEF StrictSubsetOrdering
  <2> QED
    BY <2>1, <1>3, <1>4
<1> QED
  BY <1>4

LEMMA SubsetFinite ==
    ASSUME NEW ns \in SUBSET Routers
    PROVE  IsFiniteSet(ns) /\ Cardinality(ns) \in Nat
BY SelectorAssumption, FS_Subset, FS_CardinalityType

-----------------------------------------------------------------------------
Some(ns) == CHOOSE n \in ns : TRUE

LEMMA SomeOf == ASSUME NEW ns, ns # {} PROVE Some(ns) \in ns
BY DEF Some

(* What the sums s of f make of the set ns. *)
Summed(f, s, ns) == IF ns = {} THEN 0 ELSE f[Some(ns)] + s[ns \ {Some(ns)}]

(* There is such a function of sets. *)
LEMMA SumExists ==
    ASSUME NEW f \in [Routers -> Int]
    PROVE  \E s : s = [ns \in SUBSET Routers |-> Summed(f, s, ns)]
<1> DEFINE Sums(s, k) == \A ns \in SUBSET Routers : Cardinality(ns) <= k => s[ns] = Summed(f, s, ns)
           Summable(k) == \E s \in [SUBSET Routers -> Int] : Sums(s, k)
           bad == {ns \in SUBSET Routers : ~Summable(Cardinality(ns))}
<1>1. ASSUME NEW s \in [SUBSET Routers -> Int]
      PROVE  [ns \in SUBSET Routers |-> Summed(f, s, ns)] \in [SUBSET Routers -> Int]
  <2>1. ASSUME NEW ns \in SUBSET Routers PROVE Summed(f, s, ns) \in Int
    BY SomeOf DEF Summed
  <2> QED
    BY <2>1
<1>2. Summable(0)
  <2> DEFINE s == [ns \in SUBSET Routers |-> 0]
  <2>1. ASSUME NEW ns \in SUBSET Routers, Cardinality(ns) <= 0 PROVE ns = {}
    BY <2>1, SubsetFinite, FS_EmptySet
  <2>2. Sums(s, 0)
    BY <2>1 DEF Summed
  <2>3. s \in [SUBSET Routers -> Int]
    OBVIOUS
  <2> HIDE DEF s
  <2> QED
    BY <2>2, <2>3
<1>3. ASSUME NEW k \in Nat, Summable(k) PROVE Summable(k + 1)
  <2>1. PICK s \in [SUBSET Routers -> Int] : Sums(s, k)
    BY <1>3
  <2> DEFINE more == [ns \in SUBSET Routers |-> Summed(f, s, ns)]
  <2>2. more \in [SUBSET Routers -> Int]
    BY <1>1
  <2>3. ASSUME NEW ns \in SUBSET Routers, Cardinality(ns) <= k + 1
        PROVE  more[ns] = Summed(f, more, ns)
    <3>1. CASE ns = {}
      BY <3>1 DEF Summed
    <3>2. CASE ns # {}
      <4> DEFINE rest == ns \ {Some(ns)}
      <4>1. rest \in SUBSET Routers /\ Cardinality(rest) <= k
        <5>1. Cardinality(rest) = Cardinality(ns) - 1
          BY <3>2, SomeOf, SubsetFinite, FS_RemoveElement
        <5> QED
          BY <5>1, <2>3, SubsetFinite
      <4>2. more[rest] = s[rest]
        <5>1. more[rest] = Summed(f, s, rest)
          BY <4>1
        <5>2. s[rest] = Summed(f, s, rest)
          BY <4>1, <2>1
        <5> QED
          BY <5>1, <5>2
      <4>3. more[ns] = Summed(f, s, ns)
        OBVIOUS
      <4> HIDE DEF more
      <4> QED
        BY <3>2, <4>2, <4>3 DEF Summed
    <3> QED
      BY <3>1, <3>2
  <2> HIDE DEF more
  <2> QED
    BY <2>2, <2>3
<1>4. ASSUME NEW ns \in SUBSET Routers PROVE Summable(Cardinality(ns))
  <2> SUFFICES ASSUME bad # {} PROVE FALSE
    OBVIOUS
  <2>1. PICK least \in bad : \A n \in least : least \ {n} \notin bad
    <3>1. bad \in SUBSET (SUBSET Routers)
      OBVIOUS
    <3> HIDE DEF bad
    <3> QED
      BY <3>1, SmallestSet
  <2>2. least \in SUBSET Routers /\ ~Summable(Cardinality(least))
    OBVIOUS
  <2> HIDE DEF Summable
  <2>3. least # {}
    BY <2>2, <1>2, FS_EmptySet
  <2>4. PICK n \in least : TRUE
    BY <2>3
  <2>5. Cardinality(least \ {n}) + 1 = Cardinality(least) /\ Cardinality(least \ {n}) \in Nat
    BY <2>2, SubsetFinite, FS_RemoveElement
  <2>6. least \ {n} \in SUBSET Routers
    BY <2>2
  <2>7. Summable(Cardinality(least \ {n}))
    BY <2>1, <2>6
  <2> QED
    BY <2>2, <2>5, <2>7, <1>3
<1>5. PICK s \in [SUBSET Routers -> Int] : Sums(s, Cardinality(Routers))
  BY <1>4
<1>6. \A ns \in SUBSET Routers : Cardinality(ns) <= Cardinality(Routers)
  BY SelectorAssumption, FS_Subset
<1>7. s = [ns \in SUBSET Routers |-> Summed(f, s, ns)]
  BY <1>5, <1>6
<1> QED
  BY <1>7

LEMMA SumIs ==
    ASSUME NEW f \in [Routers -> Int]
    PROVE  SumOf(f) = [ns \in SUBSET Routers |-> Summed(f, SumOf(f), ns)]
<1>1. SumOf(f) = CHOOSE s : s = [ns \in SUBSET Routers |-> Summed(f, s, ns)]
  BY DEF SumOf, Summed, Some
<1> QED
  BY <1>1, SumExists

(* Nothing is the sum of nothing, and sums are numbers. *)
LEMMA SumType ==
    ASSUME NEW f \in [Routers -> Int]
    PROVE  SumOf(f) \in [SUBSET Routers -> Int] /\ SumOf(f)[{}] = 0
<1> DEFINE s == SumOf(f)
           bad == {ns \in SUBSET Routers : s[ns] \notin Int}
<1>1. \A ns \in SUBSET Routers : s[ns] = Summed(f, s, ns)
  BY SumIs
<1>2. s = [ns \in SUBSET Routers |-> s[ns]]
  BY SumIs
<1> HIDE DEF s
<1>3. s[{}] = 0
  BY <1>1 DEF Summed
<1>4. bad = {}
  <2> SUFFICES ASSUME bad # {} PROVE FALSE
    OBVIOUS
  <2>1. PICK least \in bad : \A n \in least : least \ {n} \notin bad
    <3>1. bad \in SUBSET (SUBSET Routers)
      OBVIOUS
    <3> HIDE DEF bad
    <3> QED
      BY <3>1, SmallestSet
  <2>2. least # {}
    BY <1>3
  <2>3. least \ {Some(least)} \in SUBSET Routers /\ s[least \ {Some(least)}] \in Int
    BY <2>1, <2>2, SomeOf
  <2>4. f[Some(least)] \in Int
    BY <2>2, SomeOf
  <2>5. s[least] = f[Some(least)] + s[least \ {Some(least)}]
    BY <1>1, <2>2 DEF Summed
  <2> QED
    BY <2>3, <2>4, <2>5
<1> QED
  BY <1>2, <1>3, <1>4 DEF s

(* A sum does not depend on who is taken out of it first. *)
LEMMA SumTakes ==
    ASSUME NEW f \in [Routers -> Int], NEW ns \in SUBSET Routers, NEW n \in ns
    PROVE  SumOf(f)[ns] = f[n] + SumOf(f)[ns \ {n}]
<1> DEFINE s == SumOf(f)
           Takes(o, m) == s[o] = f[m] + s[o \ {m}]
           bad == {o \in SUBSET Routers : \E m \in o : ~Takes(o, m)}
<1>1. \A o \in SUBSET Routers : o # {} => Takes(o, Some(o))
  BY SumIs DEF Summed
<1>2. \A o \in SUBSET Routers : s[o] \in Int
  BY SumType
<1> HIDE DEF s
<1> SUFFICES ASSUME bad # {} PROVE FALSE
  BY DEF s
<1>3. PICK least \in bad : \A m \in least : least \ {m} \notin bad
  <2>1. bad \in SUBSET (SUBSET Routers)
    OBVIOUS
  <2> HIDE DEF bad
  <2> QED
    BY <2>1, SmallestSet
<1>4. PICK m \in least : ~Takes(least, m)
  OBVIOUS
<1> DEFINE x == Some(least)
<1>5. x \in least /\ x # m /\ Takes(least, x)
  BY <1>1, <1>4, SomeOf
<1> HIDE DEF x
<1>6. Takes(least \ {x}, m) /\ Takes(least \ {m}, x)
  BY <1>3, <1>4, <1>5
<1>7. (least \ {x}) \ {m} = (least \ {m}) \ {x}
  OBVIOUS
<1> DEFINE all == s[least]
           noX == s[least \ {x}]
           noM == s[least \ {m}]
           neither == s[(least \ {x}) \ {m}]
<1>8. f[m] \in Int /\ f[x] \in Int /\ neither \in Int
  BY <1>2, <1>5
<1>9. all # f[m] + noM /\ all = f[x] + noX /\ noX = f[m] + neither /\ noM = f[x] + neither
  BY <1>4, <1>5, <1>6, <1>7
<1> HIDE DEF all, noX, noM, neither
<1> QED
  BY <1>8, <1>9

(* Of a set of routers one is the best to pick. *)
LEMMA BestOf ==
    ASSUME current \in [Routers -> Int], NEW ns \in SUBSET Routers, ns # {}
    PROVE  Best(ns) \in ns
<1> DEFINE Beats(n, o) == \/ Gained(n) > Gained(o)
                          \/ Gained(n) = Gained(o) /\ Rank[n] <= Rank[o]
           bad == {os \in SUBSET Routers : os # {} /\ ~\E n \in os : \A o \in os : Beats(n, o)}
<1>1. \A n \in Routers : Gained(n) \in Int /\ Rank[n] \in Int
  BY SelectorAssumption DEF Gained
<1>2. \A n, o \in Routers : Beats(n, o) \/ Beats(o, n)
  BY <1>1
<1>3. \A n, o, p \in Routers : Beats(n, o) /\ Beats(o, p) => Beats(n, p)
  BY <1>1
<1>4. bad = {}
  <2> SUFFICES ASSUME bad # {} PROVE FALSE
    OBVIOUS
  <2> HIDE DEF Beats
  <2>1. PICK least \in bad : \A n \in least : least \ {n} \notin bad
    <3>1. bad \in SUBSET (SUBSET Routers)
      OBVIOUS
    <3> HIDE DEF bad
    <3> QED
      BY <3>1, SmallestSet
  <2>2. PICK x \in least : TRUE
    OBVIOUS
  <2>3. \A n \in least : n \in Routers
    OBVIOUS
  <2>4. CASE least = {x}
    BY <1>2, <2>3, <2>4
  <2>5. CASE least # {x}
    <3>1. least \ {x} # {}
      BY <2>2, <2>5
    <3>2. PICK b \in least \ {x} : \A o \in least \ {x} : Beats(b, o)
      BY <2>1, <2>2, <3>1
    <3>3. Beats(b, x) => \A o \in least : Beats(b, o)
      BY <3>2
    <3>4. Beats(x, b) => \A o \in least : Beats(x, o)
      BY <1>2, <1>3, <2>2, <2>3, <3>2
    <3> QED
      BY <1>2, <2>2, <2>3, <3>2, <3>3, <3>4
  <2> QED
    BY <2>4, <2>5
<1>5. \E n \in ns : \A o \in ns : Beats(n, o)
  BY <1>4
<1> QED
  BY <1>5 DEF Best

(* What the pick among ns does to the sum over any routers. *)
LEMMA ChargedSums ==
    ASSUME current \in [Routers -> Int], NEW ns \in SUBSET Routers, ns # {},
           NEW os \in SUBSET Routers
    PROVE  SumOf(Charged(ns))[os] =
             SumOf(current)[os] + SumOf(Weight)[os \cap ns]
             - (IF Best(ns) \in os THEN WeightOf(ns) ELSE 0)
<1> DEFINE new == Charged(ns)
           before == SumOf(current)
           after == SumOf(new)
           weights == SumOf(Weight)
           b == Best(ns)
           paid == WeightOf(ns)
           Fine(o) == after[o] = before[o] + weights[o \cap ns] - (IF b \in o THEN paid ELSE 0)
           bad == {o \in SUBSET Routers : ~Fine(o)}
<1>1. Weight \in [Routers -> Int]
  BY SelectorAssumption
<1>2. b \in ns
  BY BestOf
<1>3. before \in [SUBSET Routers -> Int] /\ weights \in [SUBSET Routers -> Int]
  BY <1>1, SumType
<1>4. paid \in Int
  BY <1>3 DEF WeightOf
<1>5. new \in [Routers -> Int]
        /\ \A n \in Routers : new[n] = current[n] + (IF n \in ns THEN Weight[n] ELSE 0)
                                       - (IF n = b THEN paid ELSE 0)
  <2>1. \A n \in Routers : current[n] \in Int /\ Weight[n] \in Int
    BY <1>1
  <2> QED
    BY <1>2, <1>4, <2>1 DEF Charged, Gained
<1>6. after \in [SUBSET Routers -> Int]
  BY <1>5, SumType
<1>7. before[{}] = 0 /\ after[{}] = 0 /\ weights[{}] = 0
  BY <1>1, <1>5, SumType
<1>8. \A o \in SUBSET Routers : \A n \in o :
        /\ before[o] = current[n] + before[o \ {n}]
        /\ after[o] = new[n] + after[o \ {n}]
  BY <1>5, SumTakes
<1>9. \A o \in SUBSET Routers : \A n \in o \cap ns :
        weights[o \cap ns] = Weight[n] + weights[(o \cap ns) \ {n}]
  BY <1>1, SumTakes
<1> HIDE DEF new, before, after, weights, b, paid
<1> SUFFICES ASSUME bad # {} PROVE FALSE
  BY DEF new, before, after, weights, b, paid
<1>10. PICK least \in bad : \A n \in least : least \ {n} \notin bad
  <2>1. bad \in SUBSET (SUBSET Routers)
    OBVIOUS
  <2> HIDE DEF bad
  <2> QED
    BY <2>1, SmallestSet
<1>11. least # {}
  <2>1. {} \cap ns = {} /\ b \notin {}
    OBVIOUS
  <2>2. Fine({})
    BY <1>4, <1>7, <2>1
  <2> QED
    BY <2>2
<1>12. PICK n \in least : TRUE
  BY <1>11
<1> DEFINE rest == least \ {n}
<1>13. n \in Routers /\ rest \in SUBSET Routers /\ least \in SUBSET Routers
  OBVIOUS
<1>14. Fine(rest) /\ ~Fine(least)
  BY <1>10, <1>12
<1>15. before[least] = current[n] + before[rest] /\ after[least] = new[n] + after[rest]
  BY <1>8, <1>12
<1>16. weights[least \cap ns] = (IF n \in ns THEN Weight[n] ELSE 0) + weights[rest \cap ns]
  <2>1. CASE n \in ns
    <3>1. (least \cap ns) \ {n} = rest \cap ns
      OBVIOUS
    <3> QED
      BY <1>9, <1>12, <2>1, <3>1
  <2>2. CASE n \notin ns
    <3>1. least \cap ns = rest \cap ns
      BY <2>2
    <3>2. rest \cap ns \in SUBSET Routers
      OBVIOUS
    <3>3. weights[rest \cap ns] \in Int
      BY <1>3, <3>2
    <3> DEFINE w == weights[rest \cap ns]
    <3>4. weights[least \cap ns] = w
      BY <3>1
    <3> HIDE DEF rest, w
    <3>5. w = 0 + w
      BY <3>3 DEF w
    <3> QED
      BY <2>2, <3>4, <3>5 DEF w
  <2> QED
    BY <2>1, <2>2
<1>17. b \in least <=> b \in rest \/ b = n
  OBVIOUS
<1>18. b = n => b \notin rest
  OBVIOUS
<1>19. new[n] = current[n] + (IF n \in ns THEN Weight[n] ELSE 0) - (IF n = b THEN paid ELSE 0)
  BY <1>5, <1>13
<1>20. /\ current[n] \in Int /\ new[n] \in Int /\ Weight[n] \in Int
       /\ before[rest] \in Int /\ after[rest] \in Int /\ weights[rest \cap ns] \in Int
  BY <1>1, <1>3, <1>5, <1>6, <1>13
<1> DEFINE gain == IF n \in ns THEN Weight[n] ELSE 0
           pays == IF n = b THEN paid ELSE 0
           paysRest == IF b \in rest THEN paid ELSE 0
           paysAll == IF b \in least THEN paid ELSE 0
<1>21. gain \in Int /\ pays \in Int /\ paysRest \in Int /\ paysAll = paysRest + pays
  BY <1>4, <1>17, <1>18, <1>20
<1>22. after[rest] = before[rest] + weights[rest \cap ns] - paysRest
  BY <1>14
<1>23. new[n] = current[n] + gain - pays /\ weights[least \cap ns] = gain + weights[rest \cap ns]
  BY <1>16, <1>19
<1>24. after[least] # before[least] + weights[least \cap ns] - paysAll
  BY <1>14
<1> HIDE DEF gain, pays, paysRest, paysAll, rest
<1> QED
  BY <1>15, <1>20, <1>21, <1>22, <1>23, <1>24

(* No pick creates or loses credit. *)
LEMMA PickBalances ==
    ASSUME current \in [Routers -> Int], WeightsBalance, NEW ns \in SUBSET Routers, Pick(ns)
    PROVE  current' \in [Routers -> Int] /\ WeightsBalance'
<1>1. CASE ns = {}
  BY <1>1 DEF Pick, WeightsBalance
<1>2. CASE ns # {}
  <2>1. current' = Charged(ns)
    BY <1>2 DEF Pick
  <2>2. Weight \in [Routers -> Int]
    BY SelectorAssumption
  <2>3. WeightOf(ns) \in Int
    BY <2>2, SumType DEF WeightOf
  <2>4. Charged(ns) \in [Routers -> Int]
    <3>1. \A n \in Routers : Gained(n) \in Int
      BY <2>2 DEF Gained
    <3> QED
      BY <2>3, <3>1 DEF Charged
  <2>5. Best(ns) \in Routers /\ Routers \cap ns = ns
    BY <1>2, BestOf
  <2>6. SumOf(Charged(ns))[Routers] = SumOf(current)[Routers] + SumOf(Weight)[ns] - WeightOf(ns)
    BY <1>2, <2>5, ChargedSums
  <2>7. SumOf(Charged(ns))[Routers] = 0
    BY <2>3, <2>6 DEF WeightsBalance, WeightOf
  <2> QED
    BY <2>1, <2>4, <2>7 DEF WeightsBalance
<1> QED
  BY <1>1, <1>2

LEMMA ZeroBalances ==
    ASSUME NEW f \in [Routers -> Int], f = [n \in Routers |-> 0]
    PROVE  SumOf(f)[Routers] = 0
<1> DEFINE s == SumOf(f)
           bad == {ns \in SUBSET Routers : s[ns] # 0}
<1>1. s[{}] = 0 /\ s \in [SUBSET Routers -> Int]
  BY SumType
<1>2. \A ns \in SUBSET Routers : \A n \in ns : s[ns] = f[n] + s[ns \ {n}]
  BY SumTakes
<1> HIDE DEF s
<1>3. bad = {}
  <2> SUFFICES ASSUME bad # {} PROVE FALSE
    OBVIOUS
  <2>1. PICK least \in bad : \A n \in least : least \ {n} \notin bad
    <3>1. bad \in SUBSET (SUBSET Routers)
      OBVIOUS
    <3> HIDE DEF bad
    <3> QED
      BY <3>1, SmallestSet
  <2>2. PICK n \in least : TRUE
    BY <1>1
  <2>3. least \in SUBSET Routers /\ least \ {n} \in SUBSET Routers /\ n \in Routers
    BY <2>2
  <2>4. s[least \ {n}] = 0
    BY <2>1, <2>2, <2>3
  <2>5. s[least] = f[n] + s[least \ {n}]
    BY <1>2, <2>2, <2>3
  <2>6. f[n] = 0
    BY <2>3
  <2> QED
    BY <2>1, <2>4, <2>5, <2>6
<1> QED
  BY <1>3 DEF s

-----------------------------------------------------------------------------
(* Only routers are eligible, and a pick never leaves them. *)
LEMMA EligibleRouters ==
    ASSUME NEW g, NEW m
    PROVE  Eligible(g, m) \in SUBSET Routers /\ Steady(Eligible(g, m)) \in SUBSET Routers
<1>1. Healthy(g) \subseteq Routers
  BY DEF Healthy
<1>2. Eligible(g, m) \subseteq Healthy(g)
  BY DEF Eligible
<1>3. Steady(Eligible(g, m)) \subseteq Eligible(g, m)
  BY DEF Steady
<1> QED
  BY <1>1, <1>2, <1>3

(* The rest of the type invariant, with the balance that needs it. *)
RestOK == /\ catalog \in [Routers -> SUBSET Models]
          /\ streak \in [Routers -> 0 .. Threshold]
          /\ current \in [Routers -> Int]
          /\ call \in [Requests -> Calls]
          /\ verdict \in [Routers -> Verdicts]
          /\ up \in [Routers -> BOOLEAN]
          /\ WeightsBalance

LEMMA InitRest == Init => RestOK
<1> SUFFICES ASSUME Init PROVE RestOK
  OBVIOUS
<1>1. catalog \in [Routers -> SUBSET Models]
  <2>1. PICK saved \in SUBSET Routers :
          catalog = [n \in Routers |-> IF n \in saved THEN Catalog[n] ELSE {}]
    BY DEF Init
  <2> QED
    BY <2>1, SelectorAssumption
<1>2. WeightsBalance /\ current \in [Routers -> Int]
  BY ZeroBalances DEF Init, WeightsBalance
<1>3. call \in [Requests -> Calls]
  BY DEF Init, Idle, Calls
<1>4. streak \in [Routers -> 0 .. Threshold] /\ verdict \in [Routers -> Verdicts]
        /\ up \in [Routers -> BOOLEAN]
  BY SelectorAssumption DEF Init, Verdicts
<1> QED
  BY <1>1, <1>2, <1>3, <1>4 DEF RestOK

(* A pick among ns and the thread that gets the best of them, or ends as d. *)
LEMMA CallPicks ==
    ASSUME RestOK, NEW ns \in SUBSET Routers, Pick(ns), NEW c, NEW d \in Calls,
           ns # {} => c \in [at : {"first", "second"}, router : {Best(ns)},
                             model : Models \cup {None}, private : BOOLEAN],
           NEW t, SetCall(t, IF ns = {} THEN d ELSE c)
    PROVE  /\ current' \in [Routers -> Int] /\ WeightsBalance'
           /\ call' \in [Requests -> Calls]
<1>1. current' \in [Routers -> Int] /\ WeightsBalance'
  BY PickBalances DEF RestOK
<1>2. ns # {} => c \in Calls
  <2> SUFFICES ASSUME ns # {} PROVE c \in Calls
    OBVIOUS
  <2>1. Best(ns) \in Routers
    BY BestOf DEF RestOK
  <2> QED
    BY <2>1 DEF Calls
<1>3. (IF ns = {} THEN d ELSE c) \in Calls
  BY <1>2
<1>4. call' \in [Requests -> Calls]
  BY <1>3 DEF SetCall, RestOK
<1> QED
  BY <1>1, <1>4

LEMMA FailedStreak ==
    ASSUME RestOK, NEW n, Failed(n)
    PROVE  streak' \in [Routers -> 0 .. Threshold]
<1> DEFINE more == IF streak[n] < Threshold THEN streak[n] + 1 ELSE streak[n]
<1>1. n \in Routers => more \in 0 .. Threshold
  BY SelectorAssumption DEF RestOK
<1>2. streak' = [streak EXCEPT ![n] = more]
  BY DEF Failed
<1> HIDE DEF more
<1> QED
  BY <1>1, <1>2 DEF RestOK

LEMMA SelectRest ==
    ASSUME RestOK, NEW t \in Requests, Select(t)
    PROVE  RestOK'
<1> DEFINE Among(m, private) == IF Forbidden(m, private) THEN {} ELSE Steady(Eligible(registry, m))
           Kept(m, private) == [at |-> "refused", router |-> None, model |-> m, private |-> private]
           Given(m, ns) == [at |-> "first", router |-> Best(ns), model |-> m, private |-> FALSE]
<1>1. PICK m \in Models \cup {None} : \E private \in BOOLEAN :
        /\ Pick(Among(m, private))
        /\ SetCall(t, IF Among(m, private) = {} THEN Kept(m, private)
                      ELSE Given(m, Among(m, private)))
  BY DEF Select
<1>2. PICK private \in BOOLEAN :
        /\ Pick(Among(m, private))
        /\ SetCall(t, IF Among(m, private) = {} THEN Kept(m, private)
                      ELSE Given(m, Among(m, private)))
  BY <1>1
<1> DEFINE ns == Among(m, private)
<1>3. ns \in SUBSET Routers
  BY EligibleRouters
<1>4. Kept(m, private) \in Calls
  BY DEF Calls
<1>5. Given(m, ns) \in [at : {"first", "second"}, router : {Best(ns)},
                        model : Models \cup {None}, private : BOOLEAN]
  OBVIOUS
<1>6. Pick(ns) /\ SetCall(t, IF ns = {} THEN Kept(m, private) ELSE Given(m, ns))
  BY <1>2
<1> HIDE DEF ns, Kept, Given
<1>7. current' \in [Routers -> Int] /\ WeightsBalance' /\ call' \in [Requests -> Calls]
  BY <1>3, <1>4, <1>5, <1>6, CallPicks
<1>8. UNCHANGED <<catalog, streak, verdict, up>>
  BY DEF Select
<1> QED
  BY <1>7, <1>8 DEF RestOK

(* Another router is given to a thread whose first one erred. *)
LEMMA Rerouted ==
    ASSUME RestOK, NEW t \in Requests, NEW ns \in SUBSET Routers, Pick(ns),
           SetCall(t, IF ns = {} THEN Idle
                      ELSE Secondly(Best(ns)))
    PROVE  /\ current' \in [Routers -> Int] /\ WeightsBalance'
           /\ call' \in [Requests -> Calls]
<1> DEFINE c == Secondly(Best(ns))
<1>1. c \in [at : {"first", "second"}, router : {Best(ns)},
             model : Models \cup {None}, private : BOOLEAN]
  BY DEF Secondly, Idle
<1>2. Idle \in Calls
  BY DEF Idle, Calls
<1> HIDE DEF c
<1>3. SetCall(t, IF ns = {} THEN Idle ELSE c)
  BY DEF c
<1> QED
  BY <1>1, <1>2, <1>3, CallPicks

LEMMA NextRest == IInv /\ RestOK /\ [Next]_vars => RestOK'
<1> SUFFICES ASSUME IInv, RestOK, [Next]_vars PROVE RestOK'
  OBVIOUS
<1>1. ASSUME NEW t \in Requests, Arrive(t) PROVE RestOK'
  <2>1. [Idle EXCEPT !.at = "choosing"] \in Calls
    BY DEF Idle, Calls
  <2>2. call' \in [Requests -> Calls]
    BY <1>1, <2>1 DEF Arrive, SetCall, RestOK
  <2>3. Steady(Healthy(registry)) \in SUBSET Routers
    BY DEF Steady, Healthy
  <2>4. current' \in [Routers -> Int] /\ WeightsBalance'
    BY <1>1, <2>3, PickBalances DEF Arrive, RestOK
  <2> QED
    BY <1>1, <2>2, <2>4 DEF Arrive, RestOK
<1>2. ASSUME NEW t \in Requests, Select(t) PROVE RestOK'
  BY <1>2, SelectRest
<1>3. ASSUME NEW t \in Requests, Finish(t) \/ FirstAnswers(t) PROVE RestOK'
  <2>1. call' \in [Requests -> Calls]
    <3>1. SetCall(t, Idle)
      BY <1>3 DEF Finish, FirstAnswers
    <3>2. Idle \in Calls
      BY DEF Idle, Calls
    <3> QED
      BY <3>1, <3>2 DEF SetCall, RestOK
  <2>2. streak' \in [Routers -> 0 .. Threshold]
    BY <1>3, SelectorAssumption DEF Finish, FirstAnswers, RestOK
  <2>3. UNCHANGED <<catalog, current, verdict, up>>
    BY <1>3 DEF Finish, FirstAnswers
  <2> QED
    BY <2>1, <2>2, <2>3 DEF RestOK, WeightsBalance
<1>4. ASSUME NEW t \in Requests, FirstErrs(t) PROVE RestOK'
  <2> DEFINE ns == Steady(Eligible(registry, call[t].model) \ {call[t].router})
  <2>1. ns \in SUBSET Routers
    BY EligibleRouters DEF Steady
  <2>2. Pick(ns) /\ SetCall(t, IF ns = {} THEN Idle
                               ELSE Secondly(Best(ns)))
    BY <1>4 DEF FirstErrs
  <2> HIDE DEF ns
  <2>3. current' \in [Routers -> Int] /\ WeightsBalance' /\ call' \in [Requests -> Calls]
    BY <2>1, <2>2, Rerouted
  <2> QED
    BY <1>4, <2>3 DEF FirstErrs, RestOK
<1>5. ASSUME NEW t \in Requests, FirstUnreachable(t) PROVE RestOK'
  <2>1. PICK named : LET ns == Eligible(Marked(registry, call[t].router), named) \ {call[t].router}
                     IN  /\ Pick(ns)
                         /\ SetCall(t, IF ns = {} THEN Idle
                                       ELSE Secondly(Best(ns)))
    BY <1>5 DEF FirstUnreachable
  <2> DEFINE ns == Eligible(Marked(registry, call[t].router), named) \ {call[t].router}
  <2>2. ns \in SUBSET Routers
    BY EligibleRouters
  <2>3. Pick(ns) /\ SetCall(t, IF ns = {} THEN Idle
                               ELSE Secondly(Best(ns)))
    BY <2>1
  <2> HIDE DEF ns
  <2>4. current' \in [Routers -> Int] /\ WeightsBalance' /\ call' \in [Requests -> Calls]
    BY <2>2, <2>3, Rerouted
  <2>5. streak' \in [Routers -> 0 .. Threshold]
    BY <1>5, FailedStreak DEF FirstUnreachable
  <2> QED
    BY <1>5, <2>4, <2>5 DEF FirstUnreachable, RestOK
<1>6. ASSUME NEW t \in Requests, SecondFails(t) PROVE RestOK'
  <2>1. streak' \in [Routers -> 0 .. Threshold]
    BY <1>6, FailedStreak DEF SecondFails
  <2>2. Healthy(Marked(registry, call[t].router)) \ {call[t].router} \in SUBSET Routers
    BY DEF Healthy
  <2>3. current' \in [Routers -> Int] /\ WeightsBalance'
    BY <1>6, <2>2, PickBalances DEF SecondFails, RestOK
  <2>4. call' \in [Requests -> Calls]
    BY <1>6 DEF SecondFails, SetCall, Idle, Calls, RestOK
  <2> QED
    BY <1>6, <2>1, <2>3, <2>4 DEF SecondFails, RestOK
<1>7. ASSUME NEW n \in Routers, Probe(n) \/ Flip(n) PROVE RestOK'
  <2>1. verdict' \in [Routers -> Verdicts] /\ up' \in [Routers -> BOOLEAN]
    BY <1>7 DEF Probe, Flip, Verdicts, RestOK
  <2>2. UNCHANGED <<catalog, streak, current, call>>
    BY <1>7 DEF Probe, Flip
  <2> QED
    BY <2>1, <2>2 DEF RestOK, WeightsBalance
<1>8. ASSUME NEW n \in Routers, Record(n) PROVE RestOK'
  <2>1. catalog' \in [Routers -> SUBSET Models]
    <3>1. CASE verdict[n] = "answered"
      <4>1. PICK ms \in {catalog[n], Catalog[n], {}} : catalog' = [catalog EXCEPT ![n] = ms]
        BY <1>8, <3>1 DEF Record
      <4>2. catalog[n] \in SUBSET Models /\ Catalog[n] \in SUBSET Models
        BY SelectorAssumption DEF RestOK
      <4> QED
        BY <4>1, <4>2 DEF RestOK
    <3>2. CASE verdict[n] # "answered"
      BY <1>8, <3>2 DEF Record, RestOK
    <3> QED
      BY <3>1, <3>2
  <2>2. verdict' \in [Routers -> Verdicts]
    BY <1>8 DEF Record, Verdicts, RestOK
  <2>3. UNCHANGED <<streak, current, call, up>>
    BY <1>8 DEF Record
  <2> QED
    BY <2>1, <2>2, <2>3 DEF RestOK, WeightsBalance
<1>9. CASE Restart
  <2>1. current' \in [Routers -> Int] /\ WeightsBalance'
    <3>1. current' = [n \in Routers |-> 0]
      BY <1>9 DEF Restart
    <3> QED
      BY <3>1, ZeroBalances DEF WeightsBalance
  <2>2. call' \in [Requests -> Calls]
    BY <1>9 DEF Restart, Idle, Calls
  <2>3. streak' \in [Routers -> 0 .. Threshold] /\ verdict' \in [Routers -> Verdicts]
    BY <1>9, SelectorAssumption DEF Restart, Verdicts
  <2>4. catalog' = catalog /\ up' = up
    BY <1>9 DEF Restart
  <2> QED
    BY <2>1, <2>2, <2>3, <2>4 DEF RestOK
<1>10. CASE UNCHANGED vars
  BY <1>10 DEF vars, RestOK, WeightsBalance
<1> QED
  BY <1>1, <1>2, <1>3, <1>4, <1>5, <1>6, <1>7, <1>8, <1>9, <1>10 DEF Next, Handle

(* The state of registry and selector is well formed, and a router that is *)
(* picked is one of theirs (router_registry.py, meta_router.py).           *)
THEOREM SelectorTyped == Spec => []TypeOK
<1>1. IInv /\ RestOK => TypeOK
  BY DEF IInv, RecordsOK, RestOK, TypeOK
<1> QED
  BY <1>1, InitEarned, NextKeeps, InitRest, NextRest, PTL DEF Spec

(* Smooth weighted round-robin neither creates nor loses credit, for any   *)
(* number of routers and any weights, over all picks, those that are       *)
(* dropped included (_pick_weighted).                                      *)
THEOREM CreditConserved == Spec => []WeightsBalance
<1>1. RestOK => WeightsBalance
  BY DEF RestOK
<1> QED
  BY <1>1, InitEarned, NextKeeps, InitRest, NextRest, PTL DEF Spec
=============================================================================
