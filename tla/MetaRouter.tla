------------------------------ MODULE MetaRouter ------------------------------
(***************************************************************************)
(* The selector of downstream routers (meta_router.py) over the router     *)
(* registry, with everybody who calls it: the probe loop (router_probe.py) *)
(* and the handler threads, each with a first and possibly a second router *)
(* for one request (proxy_handler.py).                                     *)
(*                                                                         *)
(* Model names are abstract; what matters of them is the canonical name    *)
(* they map to, the provider it begins with and the name that is left      *)
(* without it.  Routers answer, or cannot be reached, as `up' says.        *)
(***************************************************************************)
EXTENDS RouterRegistry, Integers, FiniteSets

CONSTANTS
    Routers, Lightweight,
    Rank,            \* the order of get_healthy_routers, first is smallest
    Weight,
    Threshold,       \* failure_threshold
    Models,          \* names in catalogs and in requests
    Canonical,       \* to_canonical
    ProviderOf, BareOf,
    Catalog,         \* what a full probe of a router may list
    Dedicated,       \* the gateway that kr/ models belong to
    DedicatedModels,
    TrainingModels,  \* those classify_model_policy finds unsafe
    Requests,        \* handler threads
    None

ASSUME SelectorAssumption ==
    /\ Lightweight \subseteq Routers /\ IsFiniteSet(Routers)
    /\ Rank \in [Routers -> Nat]
    /\ \A n, o \in Routers : Rank[n] = Rank[o] => n = o
    /\ Weight \in [Routers -> Nat \ {0}]
    /\ Threshold \in Nat \ {0}
    /\ Canonical \in [Models -> Models]
    /\ Catalog \in [Routers -> SUBSET Models]
    /\ DedicatedModels \subseteq Models /\ TrainingModels \subseteq Models
    /\ None \notin Routers \cup Models

VARIABLES
    registry,    \* registry[n]: the RouterState of n
    catalog,     \* catalog[n]: its `models'
    streak,      \* _streaks, up to Threshold
    current,     \* _current_weights
    call,        \* call[t]: where handler thread t stands
    verdict,     \* what the probe of n has seen and not yet recorded
    up,          \* up[n]: the router can be reached
    proofs       \* successful probes since n was last put in cooldown (not of
                 \* a lightweight one); observes

vars == <<registry, catalog, streak, current, call, verdict, up, proofs>>

Idle == [at |-> "idle", router |-> None, model |-> None, private |-> FALSE]

Calls == [at : {"idle", "choosing", "first", "second", "refused"},
          router : Routers \cup {None}, model : Models \cup {None}, private : BOOLEAN]

Verdicts == {"none", "answered", "garbled", "failed", "raised"}

TypeOK == /\ registry \in [Routers -> RouterStates]
          /\ catalog \in [Routers -> SUBSET Models]
          /\ streak \in [Routers -> 0 .. Threshold]
          /\ current \in [Routers -> Int]
          /\ call \in [Requests -> Calls]
          /\ verdict \in [Routers -> Verdicts]
          /\ up \in [Routers -> BOOLEAN]
          /\ proofs \in [Routers -> 0 .. 2]

(* The first start, or one from the file an earlier process left behind.   *)
Init == /\ \E saved \in SUBSET Routers :
              /\ registry = [n \in Routers |-> NewRouter]
              /\ catalog = [n \in Routers |-> IF n \in saved THEN Catalog[n] ELSE {}]
        /\ streak = [n \in Routers |-> 0]
        /\ current = [n \in Routers |-> 0]
        /\ call = [t \in Requests |-> Idle]
        /\ verdict = [n \in Routers |-> "none"]
        /\ up \in [Routers -> BOOLEAN]
        /\ proofs = [n \in Routers |-> 0]

-----------------------------------------------------------------------------
(* Who may serve a model, by registry g.                                   *)

Healthy(g) == {n \in Routers : g[n].status = "healthy"}

SameModel(m, x) == Canonical[m] = Canonical[x]

(* _eligible_routers: kr/ models belong to their gateway when it lists     *)
(* them; otherwise a router that lists the model, and failing that one     *)
(* that lists the provider or the bare name.                               *)
Eligible(g, m) ==
    LET healthy == Healthy(g)
        capable == {n \in healthy : \E x \in catalog[n] : SameModel(m, x)}
        serving == {n \in healthy : \E x \in catalog[n] :
                        \/ ProviderOf[x] = ProviderOf[Canonical[m]]
                        \/ x = BareOf[Canonical[m]]}
    IN  IF m = None THEN healthy
        ELSE IF m \in DedicatedModels /\ Dedicated \in healthy /\ BareOf[m] \in catalog[Dedicated]
          THEN {Dedicated}
        ELSE IF capable # {} THEN capable ELSE serving

(* A faulty filter, that may leave nobody. *)
NeverFlapping(ns) == {n \in ns : streak[n] < Threshold}

(* select_router avoids routers that failed often, if there are others. *)
Steady(ns) == LET flapping == {n \in ns : streak[n] >= Threshold}
              IN  IF flapping = ns THEN ns ELSE ns \ flapping

(* _pick_weighted: everybody gains its weight, the first of those with the *)
(* most is chosen and pays for all.                                        *)
Gained(n) == current[n] + Weight[n]

Best(ns) == CHOOSE n \in ns : \A o \in ns : \/ Gained(n) > Gained(o)
                                            \/ Gained(n) = Gained(o) /\ Rank[n] <= Rank[o]

(* The sums of f over all sets of routers. *)
SumOf(f) == LET sum[ns \in SUBSET Routers] ==
                    IF ns = {} THEN 0
                    ELSE LET n == CHOOSE n \in ns : TRUE IN f[n] + sum[ns \ {n}]
            IN  sum

WeightOf(ns) == SumOf(Weight)[ns]

(* A faulty charge, for the chosen one's weight only. *)
PaysForItself(ns) ==
    [n \in Routers |-> IF n \notin ns THEN current[n]
                       ELSE IF n = Best(ns) THEN current[n] ELSE Gained(n)]

Charged(ns) ==
    [n \in Routers |-> IF n \notin ns THEN current[n]
                       ELSE IF n = Best(ns) THEN Gained(n) - WeightOf(ns) ELSE Gained(n)]

(* A pick; nothing is charged when there is nobody to pick. *)
Pick(ns) == current' = IF ns = {} THEN current ELSE Charged(ns)

-----------------------------------------------------------------------------
(* A handler thread.                                                       *)

SetCall(t, c) == call' = [call EXCEPT ![t] = c]

(* do_POST asks whether there is any router at all, and drops the one it   *)
(* is given.                                                               *)
Arrive(t) ==
    /\ call[t].at = "idle"
    /\ SetCall(t, [Idle EXCEPT !.at = "choosing"])
    /\ Pick(Steady(Healthy(registry)))
    /\ UNCHANGED <<registry, catalog, streak, verdict, up, proofs>>

(* The data policy of the model forbids private prompts. *)
Forbidden(m, private) == private /\ m \in TrainingModels

(* _select_router for the first call.  A refused request is answered 503.  *)
Select(t) ==
    /\ call[t].at = "choosing"
    /\ \E m \in Models \cup {None}, private \in BOOLEAN :
          LET ns == IF Forbidden(m, private) THEN {} ELSE Steady(Eligible(registry, m)) IN
          /\ Pick(ns)
          /\ SetCall(t, IF ns = {}
                          THEN [at |-> "refused", router |-> None, model |-> m,
                                private |-> private]
                          ELSE [at |-> "first", router |-> Best(ns), model |-> m,
                                private |-> FALSE])
    /\ UNCHANGED <<registry, catalog, streak, verdict, up, proofs>>

(* The handler's attention ends: an answer, a timeout, a hop. *)
Finish(t) == /\ call[t].at \in {"first", "second", "refused"}
             /\ SetCall(t, Idle)
             /\ UNCHANGED <<registry, catalog, streak, current, verdict, up, proofs>>

(* on_success, which only a first router is given. *)
FirstAnswers(t) ==
    /\ call[t].at = "first" /\ up[call[t].router]
    /\ streak' = [streak EXCEPT ![call[t].router] = 0]
    /\ SetCall(t, Idle)
    /\ UNCHANGED <<registry, catalog, current, verdict, up, proofs>>

(* The call of a second router n, whose failure is dealt with alike for    *)
(* all models.                                                             *)
Secondly(n) == [Idle EXCEPT !.at = "second", !.router = n]

(* HTTPError: another router is asked, if one is eligible; the first is    *)
(* not blamed.                                                             *)
FirstErrs(t) ==
    /\ call[t].at = "first" /\ up[call[t].router]
    /\ LET c  == call[t]
           ns == Steady(Eligible(registry, c.model) \ {c.router})
       IN  /\ Pick(ns)
           /\ SetCall(t, IF ns = {} THEN Idle
                         ELSE Secondly(Best(ns)))
    /\ UNCHANGED <<registry, catalog, streak, verdict, up, proofs>>

Marked(g, n) == [g EXCEPT ![n] = MarkedUnhealthy(@)]

Failed(n) == /\ registry' = Marked(registry, n)
             /\ streak' = [streak EXCEPT ![n] = IF @ < Threshold THEN @ + 1 ELSE @]
             /\ proofs' = [proofs EXCEPT ![n] =
                              IF registry'[n].status = "cooldown" THEN 0 ELSE @]

(* URLError: on_failure blames the router and picks another one for the    *)
(* name the client used, whatever streak it has.                           *)
FirstUnreachable(t) ==
    LET c == call[t] IN
    /\ c.at = "first" /\ ~up[c.router]
    /\ Failed(c.router)
    /\ \E named \in {c.model} \cup Models :
          LET ns == Eligible(Marked(registry, c.router), named) \ {c.router} IN
          /\ Pick(ns)
          /\ SetCall(t, IF ns = {} THEN Idle
                        ELSE Secondly(Best(ns)))
    /\ UNCHANGED <<catalog, verdict, up>>

(* The second router fails.  An HTTPError is a URLError too, so it is      *)
(* blamed whether or not it could be reached; the fallback that on_failure *)
(* picks is dropped.                                                       *)
SecondFails(t) ==
    LET c == call[t] IN
    /\ c.at = "second"
    /\ Failed(c.router)
    /\ Pick(Healthy(Marked(registry, c.router)) \ {c.router})
    /\ SetCall(t, Idle)
    /\ UNCHANGED <<catalog, verdict, up>>

-----------------------------------------------------------------------------
(* The probe loop, shutdown and start, and the world.                      *)

(* An exception that probe_router does not catch (a page that is not       *)
(* UTF-8, a body cut short, JSON that is a number) is raised again when    *)
(* the pool has finished with the other routers, and ends the probe loop.  *)
LoopDied == \E n \in Routers : verdict[n] = "raised"

(* The network call of probe_router: the outcome is recorded later.  What  *)
(* a liveness page contains does not matter, as long as it can be read.    *)
Probe(n) ==
    /\ verdict[n] = "none" /\ ~LoopDied
    /\ \E v \in IF ~up[n] THEN {"failed"}
                ELSE IF n \in Lightweight THEN {"answered", "raised"}
                ELSE {"answered", "garbled", "raised"} :
          verdict' = [verdict EXCEPT ![n] = v]
    /\ UNCHANGED <<registry, catalog, streak, current, call, up, proofs>>

(* A liveness page keeps the catalog; of a full probe, JSON of another     *)
(* shape empties it, and text that is no JSON is a failure.                *)
Record(n) ==
    /\ verdict[n] \notin {"none", "raised"}
    /\ verdict' = [verdict EXCEPT ![n] = "none"]
    /\ \/ /\ verdict[n] = "answered"
          /\ registry' = [registry EXCEPT ![n] = MarkedHealthy(@, n \in Lightweight)]
          /\ \E ms \in IF n \in Lightweight THEN {catalog[n]} ELSE {Catalog[n], {}} :
                catalog' = [catalog EXCEPT ![n] = ms]
          /\ proofs' = [proofs EXCEPT ![n] =
                           IF n \notin Lightweight /\ @ < 2 THEN @ + 1 ELSE @]
       \/ /\ verdict[n] # "answered"
          /\ registry' = Marked(registry, n)
          /\ proofs' = [proofs EXCEPT ![n] =
                           IF registry'[n].status = "cooldown" THEN 0 ELSE @]
          /\ UNCHANGED catalog
    /\ UNCHANGED <<streak, current, call, up>>

(* A clean stop saves the registry, and the next process loads it; the     *)
(* selector's counters are gone.                                           *)
Restart ==
    /\ registry' = [n \in Routers |-> Loaded(registry[n], n \in Lightweight)]
    /\ streak' = [n \in Routers |-> 0]
    /\ current' = [n \in Routers |-> 0]
    /\ call' = [t \in Requests |-> Idle]
    /\ verdict' = [n \in Routers |-> "none"]
    /\ UNCHANGED <<catalog, up, proofs>>

Flip(n) == /\ up' = [up EXCEPT ![n] = ~@]
           /\ UNCHANGED <<registry, catalog, streak, current, call, verdict, proofs>>

Handle(t) == \/ Select(t) \/ Finish(t) \/ FirstAnswers(t) \/ FirstErrs(t)
             \/ FirstUnreachable(t) \/ SecondFails(t)

Next == \/ \E t \in Requests : Arrive(t) \/ Handle(t)
        \/ \E n \in Routers : Probe(n) \/ Record(n) \/ Flip(n)
        \/ Restart

Spec == Init /\ [][Next]_vars

(* The probe loop goes on until it dies.  Nothing is assumed of handler    *)
(* threads: a call may be out for ever.                                    *)
FairSpec == /\ Spec
            /\ \A n \in Routers : WF_vars(Probe(n)) /\ WF_vars(Record(n))

(* Where requests themselves are to get on: calls end, because sockets     *)
(* have timeouts.                                                          *)
BusySpec == FairSpec /\ \A t \in Requests : WF_vars(Handle(t))

-----------------------------------------------------------------------------
(* Properties.                                                             *)

(* A router that is probed at its catalog is in use only after two         *)
(* successful probes since it was last put in cooldown, whatever the       *)
(* requests in flight reported meanwhile (mark_healthy, mark_unhealthy).   *)
HealthIsEarned ==
    \A n \in Routers \ Lightweight : registry[n].status = "healthy" => proofs[n] = 2

(* A request whose policy is met is refused only if no healthy router      *)
(* could serve it: neither streaks nor a fallback picked for somebody else *)
(* take the last one away ("a healthy router must always be usable",       *)
(* select_router).                                                         *)
HealthyRoutersAreUsable ==
    [][\A t \in Requests :
          LET c == call'[t] IN
          c.at = "refused" /\ call[t].at = "choosing" /\ ~Forbidden(c.model, c.private)
            => \A n \in Healthy(registry) :
                  c.model # None /\ \A x \in catalog[n] : ~SameModel(c.model, x)]_vars

(* Smooth weighted round-robin neither creates nor loses credit, although  *)
(* every pick is among other routers and many picks are dropped            *)
(* (_pick_weighted).                                                       *)
WeightsBalance == SumOf(current)[Routers] = 0

StaysUp == <>[][~Restart]_vars

(* No router's probe raises for as long as the daemon is not restarted. *)
KeepsProbing == StaysUp /\ <>[]~LoopDied

Answers(n) == up[n] /\ verdict[n] # "garbled"

(* A router that answers its probes is in use again and again once the     *)
(* daemon stays up with its probe loop alive, whatever requests report     *)
(* about it and whatever daemon and loop went through before               *)
(* (probe_router, mark_healthy).                                           *)
RoutersRecover ==
    KeepsProbing => \A n \in Routers :
                  <>[]Answers(n) => []<>(registry[n].status = "healthy")

(* One that cannot be reached any more is not used any more, although      *)
(* probes that saw it alive may still be recorded (mark_unhealthy).        *)
DeadRoutersLeave ==
    KeepsProbing => \A n \in Routers :
                  <>[]~up[n] => <>[](registry[n].status # "healthy")

(* The same without a word about the loop: one probe that raises is enough *)
(* for no router ever to come back (router_probe.py 58, 68, 77-82).        *)
RoutersAlwaysRecover ==
    StaysUp => \A n \in Routers :
                  <>[]Answers(n) => []<>(registry[n].status = "healthy")

(* meta_router.py of the selector: "routers with higher weight receive     *)
(* proportionally more requests while keeping a balanced distribution".    *)
(* While all requests are for m and succeed, every steady router that      *)
(* serves m is asked again and again.                                      *)
Asked(m, n) == \E t \in Requests : call[t].at = "first" /\ call[t].model = m
                                                        /\ call[t].router = n

OnlyFor(m) == \A t \in Requests : /\ call[t].at \in {"first", "refused"} => call[t].model = m
                                  /\ call[t].at # "second"

TrafficIsBalanced ==
    StaysUp => \A m \in Models, n \in Routers :
        /\ <>[](OnlyFor(m) /\ n \in Steady(Eligible(registry, m)))
        /\ []<>(\E o \in Routers : Asked(m, o))
        => []<>Asked(m, n)

(* meta_router.py of the selector: "a router that keeps failing after      *)
(* recovery is excluded until it proves stable".  A router that answers    *)
(* for ever, while requests for m keep coming, gets to prove it.           *)
ExcludedUntilStable ==
    StaysUp => \A m \in Models, n \in Routers :
        /\ <>[](up[n] /\ n \in Eligible(registry, m))
        /\ []<>(\E o \in Routers : Asked(m, o))
        => []<>(streak[n] < Threshold)
=============================================================================
