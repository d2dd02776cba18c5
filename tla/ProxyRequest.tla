----------------------------- MODULE ProxyRequest -----------------------------
(***************************************************************************)
(* One client connection of the health proxy (proxy_handler.py): its       *)
(* requests, one after the other, through do_POST, _forward with its       *)
(* fallback ladder, and _race_forward, until the client has an answer.     *)
(*                                                                         *)
(* _forward calls itself from its exception handlers; nothing but the      *)
(* breaker leases (CircuitBreaker) remains to be done when the inner call  *)
(* returns, so a hop is a jump back to "forward" here.                     *)
(*                                                                         *)
(* What other components decide is left open: which models the registry,   *)
(* the data policy and the smart router offer, which router the selector   *)
(* picks, whether a breaker lets a call through.  Requests name a model    *)
(* "provider/model" or a combo; clients wait for their answer.             *)
(***************************************************************************)
EXTENDS Naturals, FiniteSets

CONSTANTS
    Models, Providers,
    ProviderOf,          \* the provider a model's name begins with
    Routers,             \* downstream gateways
    MaxRetries,          \* MAX_FALLBACK_RETRIES
    None                 \* no model, no router

ASSUME RequestAssumption ==
    /\ ProviderOf \in [Models -> Providers]
    /\ MaxRetries \in Nat
    /\ None \notin Models \cup Routers
    /\ Models \cap Providers = {}

VARIABLES
    pc,         \* where the handler thread is
    kind,       \* "chat", or a "post" or "get" that is passed on as it is
    model,      \* body["model"]
    renamed,    \* _original_model is set: the client asked for something else
    selected,   \* _router_selected: the proxy chose the model
    hops,       \* _fallback_attempts
    tried, triedProviders,
    deadline,   \* _request_deadline: "none", "running" or "passed"
    router,     \* target_router
    failure,    \* how the primary call failed
    race,       \* the candidates of a race and how far they are
    answers,    \* responses written to the client for this request
    reply,      \* the status of the last one
    seen        \* what happened in this request; only observes

perRequest == <<selected, hops, tried, triedProviders>>
vars == <<pc, kind, model, renamed, perRequest, deadline, router, failure, race,
          answers, reply, seen>>

Keys == Models \cup Providers
HTTPFailures == {"access", "rate_limit", "server", "client"}

NoRace == [candidates |-> {}, running |-> {}, lost |-> {}, winner |-> None, extras |-> {}]

Nothing == [asked    |-> {},      \* models primary calls asked for
            served   |-> {},      \* models that gave a usable answer
            credited |-> {},      \* providers mark_healthy was called for
            marked   |-> {},      \* models and providers mark_error was called for
            timedOut |-> {},      \* models that timed out
            failed   |-> {},      \* providers that failed or timed out
            calls    |-> 0,       \* upstream calls of _forward
            late     |-> 0,       \* those begun after the deadline
            escaped  |-> FALSE]   \* an exception reached the outermost guard

MaxCalls == 2 * (MaxRetries + 1)

Races == [candidates : SUBSET Models, running : SUBSET Models, lost : SUBSET Models,
          winner : Models \cup {None}, extras : SUBSET Models]

Observations == [asked : SUBSET Models, served : SUBSET Models,
                 credited : SUBSET Providers, marked : SUBSET Keys,
                 timedOut : SUBSET Models, failed : SUBSET Providers,
                 calls : Nat, late : Nat, escaped : BOOLEAN]

TypeOK ==
    /\ pc \in {"idle", "forward", "primary", "second", "failed", "race", "net", "done"}
    /\ kind \in {"chat", "post", "get"}
    /\ model \in Models \cup {None}
    /\ {renamed, selected} \subseteq BOOLEAN
    /\ hops \in 0 .. MaxRetries
    /\ tried \subseteq Models /\ triedProviders \subseteq Providers
    /\ deadline \in {"none", "running", "passed"}
    /\ router \in Routers \cup {None}
    /\ failure \in HTTPFailures \cup {"none", "connection"}
    /\ race \in Races
    /\ answers \in Nat
    /\ reply \in {"none", "200", "upstream", "503", "504"}
    /\ seen \in Observations

Fresh == /\ selected = FALSE /\ hops = 0 /\ tried = {} /\ triedProviders = {}

(* A new connection is a new handler object: class-level defaults. *)
Init == /\ pc = "idle" /\ kind = "get" /\ model = None /\ renamed = FALSE
        /\ Fresh
        /\ deadline = "none"
        /\ router = None /\ failure = "none" /\ race = NoRace
        /\ answers = 0 /\ reply = "none" /\ seen = Nothing

-----------------------------------------------------------------------------
(* What the handler does at several places.                                *)

NoLocals == router' = None /\ failure' = "none" /\ race' = NoRace

(* A response is written and the request is over: whoever writes one       *)
(* returns at once, through however many calls of _forward.                *)
Respond(status) == /\ pc' = "done"
                   /\ answers' = answers + 1
                   /\ reply' = status
                   /\ NoLocals
                   /\ UNCHANGED <<kind, renamed, deadline>>

(* An exception that no handler of _forward catches: do_POST logs it, and  *)
(* the client keeps waiting on an open connection.                         *)
Escape == /\ pc' = "done"
          /\ seen' = [seen EXCEPT !.escaped = TRUE]
          /\ NoLocals
          /\ UNCHANGED <<answers, reply, kind, renamed, deadline>>

Continue(where) == pc' = where /\ UNCHANGED <<answers, reply>>

Provider == IF model = None THEN {} ELSE {ProviderOf[model]}
Body     == IF model = None THEN {} ELSE {model}

(* _handle_error and its like: mark_error for the model or for its         *)
(* provider, or for neither (the whole gateway is to blame).               *)
Marks == {{}, Body, Provider}

(* A faulty record, that credits all who were asked. *)
CreditsAllAsked(s, answeredBy) ==
    IF model = None THEN {s}
    ELSE {[s EXCEPT !.credited = @ \cup {ProviderOf[m] : m \in s.asked},
                    !.served = @ \cup answeredBy]}
         \cup {[s EXCEPT !.marked = @ \cup ks] : ks \in Marks}

(* _record_upstream_health after a 200: a usable body credits the provider *)
(* of body["model"]; a fake or empty one marks.                            *)
RecordHealth(s, answeredBy) ==
    IF model = None THEN {s}
    ELSE {[s EXCEPT !.credited = @ \cup Provider, !.served = @ \cup answeredBy]}
         \cup {[s EXCEPT !.marked = @ \cup ks] : ks \in Marks}

(* A faulty budget: one hop too many. *)
OneMoreHop == hops <= MaxRetries /\ deadline # "passed" /\ model # None

(* _may_fallback *)
MayFallback == hops < MaxRetries /\ deadline # "passed" /\ model # None

(* A faulty choice, that forgets which providers failed. *)
AnyProvider(excluded) == {m \in Models : m \notin tried \cup Body}

(* _next_fallback_model: what the catalog may still offer once body's model *)
(* and the providers `excluded' have failed.                               *)
NextModels(excluded) == {m \in Models : /\ m \notin tried \cup Body
                                        /\ ProviderOf[m] \notin triedProviders \cup excluded}

(* A faulty hop, that is neither counted nor remembered. *)
ForgottenHop(excluded) == /\ MayFallback
                          /\ model' \in NextModels(excluded)
                          /\ selected' = TRUE
                          /\ Continue("forward")
                          /\ NoLocals
                          /\ UNCHANGED <<hops, tried, triedProviders, kind, renamed, deadline>>

(* The next model takes over ...                                           *)
Hop(excluded) == /\ MayFallback
                 /\ model' \in NextModels(excluded)
                 /\ hops' = hops + 1
                 /\ tried' = tried \cup Body
                 /\ triedProviders' = triedProviders \cup excluded
                 /\ selected' = TRUE
                 /\ Continue("forward")
                 /\ NoLocals
                 /\ UNCHANGED <<kind, renamed, deadline>>

(* ... or none does: the budgets are spent, or the catalog offers none.    *)
NoHop(excluded) ==
    /\ tried' = IF MayFallback THEN tried \cup Body ELSE tried
    /\ triedProviders' = IF MayFallback THEN triedProviders \cup excluded ELSE triedProviders
    /\ UNCHANGED <<model, selected, hops>>

Same == UNCHANGED <<model, perRequest>>

-----------------------------------------------------------------------------
(* do_POST and do_GET.                                                     *)

(* A client whose request was not answered waits. *)
Ready == pc = "idle" \/ (pc = "done" /\ answers > 0)

(* Only a chat request resets the per-request state. *)
ChatArrives(isRenamed, bySelection, m) ==
    /\ Ready
    /\ kind' = "chat" /\ model' = m
    /\ renamed' = isRenamed /\ selected' = bySelection
    /\ hops' = 0 /\ tried' = {} /\ triedProviders' = {}
    /\ deadline' = "running"
    /\ router' = None /\ failure' = "none"
    /\ seen' = Nothing

(* A trivial or cached reply; the gates: gateway limit, no combo model,    *)
(* the model in cooldown.                                                  *)
AnswerLocally ==
    /\ ChatArrives(FALSE, FALSE, None)
    /\ pc' = "done" /\ answers' = 1 /\ reply' \in {"200", "503"}
    /\ race' = NoRace

Begins(where) == pc' = where /\ answers' = 0 /\ reply' = "none"

ForwardModel == /\ \E m \in Models : ChatArrives(FALSE, FALSE, m)
                /\ Begins("forward")
                /\ race' = NoRace

(* A combo that is not raced takes its first candidate; a model in         *)
(* cooldown gives way to a healthy alternative.                            *)
ForwardSubstitute == /\ \E m \in Models : ChatArrives(TRUE, TRUE, m)
                    /\ Begins("forward")
                    /\ race' = NoRace

(* Everything that is not a chat request is forwarded without a gate. *)
PassOn ==
    /\ Ready
    /\ \/ kind' = "get" /\ model' = None
       \/ kind' = "post" /\ model' \in Models
    /\ renamed' = FALSE
    /\ Begins("forward")
    /\ NoLocals
    /\ seen' = Nothing
    /\ UNCHANGED <<perRequest, deadline>>

(* The client opens another connection. *)
Reconnect == /\ pc = "done"
             /\ pc' = "idle" /\ kind' = "get" /\ model' = None /\ renamed' = FALSE
             /\ selected' = FALSE /\ hops' = 0 /\ tried' = {} /\ triedProviders' = {}
             /\ deadline' = "none"
             /\ NoLocals
             /\ answers' = 0 /\ reply' = "none" /\ seen' = Nothing

(* Time passes, between requests too. *)
Expire == /\ deadline = "running"
          /\ deadline' = "passed"
          /\ UNCHANGED <<pc, kind, model, renamed, perRequest, router, failure, race,
                         answers, reply, seen>>

-----------------------------------------------------------------------------
(* _forward, from the choice of a router to the call.                      *)

(* No router for the model or the policy, or the breaker is open. *)
RefuseToForward == /\ pc = "forward"
                   /\ Respond("503")
                   /\ Same /\ UNCHANGED seen

DeadlinePassed == /\ pc = "forward"
                  /\ deadline = "passed"
                  /\ Respond("504")
                  /\ Same /\ UNCHANGED seen

(* Calls are counted up to one more than there should be. *)
Counted(s) == [s EXCEPT !.calls = IF @ > MaxCalls THEN @ ELSE @ + 1,
                        !.late  = IF deadline = "passed" /\ @ < 2 THEN @ + 1 ELSE @]

Call == /\ pc = "forward"
        /\ deadline # "passed"
        /\ router' \in Routers
        /\ seen' = [Counted(seen) EXCEPT !.asked = @ \cup Body]
        /\ Continue("primary")
        /\ UNCHANGED <<kind, model, renamed, perRequest, deadline, failure, race>>

-----------------------------------------------------------------------------
(* What the primary call leads to.                                         *)

PrimaryAnswers == /\ pc = "primary"
                  /\ seen' \in RecordHealth(seen, Body)
                  /\ Respond("200")
                  /\ Same

(* EmptyUpstreamResponse: a 200 without content, noticed before anything   *)
(* is sent on.  The provider's other models stay candidates.               *)
PrimaryEmpty ==
    /\ pc = "primary" /\ kind = "chat"
    /\ \E ks \in {Body, Provider} : seen' = [seen EXCEPT !.marked = @ \cup ks]
    /\ \/ Hop({})
       \/ NoHop({}) /\ Respond("503")

(* A faulty loop guard, for the first model only. *)
FirstTimeoutOnly == IF hops > 0 THEN {} ELSE Body

TimeoutMark == IF hops > 0 THEN Provider ELSE Body

(* URLError(timeout), or the raw TimeoutError of getresponse: the slow     *)
(* provider is left for another one.  If there is none, the model cools    *)
(* down, or after a hop the provider, and a 504 goes out.                  *)
PrimaryTimesOut ==
    LET s == [seen EXCEPT !.timedOut = @ \cup Body, !.failed = @ \cup Provider] IN
    /\ pc = "primary"
    /\ \/ Hop(Provider) /\ seen' = s
       \/ /\ NoHop(Provider)
          /\ seen' = [s EXCEPT !.marked = @ \cup TimeoutMark]
          /\ Respond("504")

(* Another router is asked, or there is none. *)
AskSecond ==
    /\ \/ Routers # {router} /\ seen' = Counted(seen) /\ Continue("second")
       \/ UNCHANGED seen /\ Continue("failed")
    /\ UNCHANGED <<kind, model, renamed, perRequest, deadline, router, race>>

(* HTTPError, and its body can be read. *)
PrimaryFails == /\ pc = "primary"
                /\ failure' \in HTTPFailures
                /\ AskSecond

(* The body of the error stalls.  The handler raises a URLError, which its *)
(* sibling handlers do not see.                                            *)
PrimaryStalls == /\ pc = "primary"
                 /\ Escape
                 /\ Same

(* A URLError that is not a timeout. *)
PrimaryUnreachable == /\ pc = "primary"
                      /\ failure' = "connection"
                      /\ AskSecond

(* An OSError that urllib did not wrap. *)
PrimaryBreaks == /\ pc = "primary"
                 /\ Respond("503")
                 /\ Same /\ UNCHANGED seen

-----------------------------------------------------------------------------
(* What the call of the second router leads to.                            *)

(* It is asked for the client's model: _original_model, or body["model"].  *)
(* Who serves a combo, or a model out of cooldown, is unknown here.        *)
SecondAsks == IF renamed THEN {} ELSE Body

SecondAnswers == /\ pc = "second"
                 /\ seen' \in RecordHealth(seen, SecondAsks)
                 /\ Respond("200")
                 /\ Same

(* HTTPError, URLError, or an empty 200. *)
SecondFails == /\ pc = "second"
               /\ Continue("failed")
               /\ UNCHANGED <<kind, model, renamed, perRequest, deadline, router, failure,
                              race, seen>>

(* The raw TimeoutError of getresponse, or an unwrapped OSError, inside an *)
(* exception handler.                                                      *)
SecondBreaks == /\ pc = "second"
                /\ Escape
                /\ Same

(* Nobody was reachable. *)
GiveUp == /\ pc = "failed" /\ failure = "connection"
          /\ Respond("503")
          /\ Same /\ UNCHANGED seen

(* What the client gets when no model is left: the upstream's status, or a *)
(* 503 for a 4xx the client did not ask for, unless it is an access error. *)
Shielded == selected /\ failure \in {"client", "rate_limit"}

(* The primary's HTTP error is recorded.  If its sort allows it, the next  *)
(* model, of another provider, is tried; if not, the error is passed on.   *)
HandleHTTPError ==
    LET replayable == failure # "client" \/ selected IN
    /\ pc = "failed" /\ failure \in HTTPFailures
    /\ \E ks \in Marks :
          seen' = [seen EXCEPT !.marked = @ \cup ks,
                               !.failed = IF replayable THEN @ \cup Provider ELSE @]
    /\ \/ replayable /\ Hop(Provider)
       \/ /\ IF replayable THEN NoHop(Provider) ELSE Same
          /\ Respond(IF Shielded THEN "503" ELSE "upstream")

-----------------------------------------------------------------------------
(* _race_forward: the first two candidates of a combo, asked at once.      *)

StartRace ==
    /\ ChatArrives(TRUE, FALSE, None)
    /\ Begins("race")
    /\ \E cs \in SUBSET Models : \E admitted \in SUBSET cs :
          /\ Cardinality(cs) = 2
          /\ race' = [NoRace EXCEPT !.candidates = cs, !.running = admitted]

InRace(r) == /\ race' = r
             /\ UNCHANGED <<kind, model, renamed, perRequest, deadline, router, failure>>

CandidateAnswers(m) ==
    /\ pc = "race" /\ m \in race.running
    /\ InRace([race EXCEPT !.running = @ \ {m},
                           !.winner = IF @ = None THEN m ELSE @])
    /\ UNCHANGED <<pc, answers, reply, seen>>

CandidateFails(m) ==
    /\ pc = "race" /\ m \in race.running
    /\ InRace([race EXCEPT !.running = @ \ {m}, !.lost = @ \cup {m}])
    /\ UNCHANGED <<pc, answers, reply, seen>>

(* Whoever still runs when the race's time is over is not heard; the body  *)
(* of the winner is sent whatever its health record says.                  *)
RaceWon ==
    /\ pc = "race" /\ race.winner # None
    /\ LET m == race.winner IN
       \/ seen' = [seen EXCEPT !.credited = @ \cup {ProviderOf[m]}, !.served = @ \cup {m}]
       \/ \E k \in {m, ProviderOf[m]} : seen' = [seen EXCEPT !.marked = @ \cup {k}]
    /\ Respond("200")
    /\ Same

RaceLost ==
    /\ pc = "race" /\ race.winner = None
    /\ \E blamed \in SUBSET (race.lost \cup {ProviderOf[m] : m \in race.lost}) :
          seen' = [seen EXCEPT !.marked = @ \cup blamed]
    /\ Continue("net")
    /\ UNCHANGED <<kind, model, renamed, perRequest, deadline, router, failure, race>>

(* The safety net: up to two models that were not in the race. *)
Extras == IF Cardinality(race.extras) < 2 THEN Models \ (race.candidates \cup race.extras)
          ELSE {}

ExtraAnswers(m) ==
    /\ pc = "net" /\ m \in Extras
    /\ \/ seen' = [seen EXCEPT !.asked = @ \cup {m}, !.served = @ \cup {m},
                               !.credited = @ \cup {ProviderOf[m]}]
       \/ \E k \in {m, ProviderOf[m]} :
             seen' = [seen EXCEPT !.asked = @ \cup {m}, !.marked = @ \cup {k}]
    /\ Respond("200")
    /\ Same

ExtraFails(m) ==
    /\ pc = "net" /\ m \in Extras
    /\ \E ks \in {{}, {m}, {ProviderOf[m]}} :
          seen' = [seen EXCEPT !.asked = @ \cup {m}, !.marked = @ \cup ks]
    /\ InRace([race EXCEPT !.extras = @ \cup {m}])
    /\ UNCHANGED <<pc, answers, reply>>

(* A faulty end of a race, without a response. *)
RaceForgotten == /\ pc = "net"
                 /\ pc' = "done"
                 /\ NoLocals
                 /\ UNCHANGED <<answers, reply, kind, renamed, deadline, model, perRequest, seen>>

(* Another one, that starts all over. *)
RaceRepeated ==
    /\ pc = "net"
    /\ Continue("race")
    /\ InRace([NoRace EXCEPT !.candidates = race.candidates, !.running = race.candidates])
    /\ UNCHANGED seen

RaceExhausted == /\ pc = "net"
                 /\ Respond("503")
                 /\ Same /\ UNCHANGED seen

-----------------------------------------------------------------------------
Arrive == \/ AnswerLocally \/ ForwardModel \/ ForwardSubstitute \/ StartRace \/ PassOn

Forward == RefuseToForward \/ DeadlinePassed \/ Call

Primary == \/ PrimaryAnswers \/ PrimaryEmpty \/ PrimaryTimesOut \/ PrimaryFails
           \/ PrimaryStalls \/ PrimaryUnreachable \/ PrimaryBreaks

Second == SecondAnswers \/ SecondFails \/ SecondBreaks

Race == \/ \E m \in Models : CandidateAnswers(m) \/ CandidateFails(m)
        \/ RaceWon \/ RaceLost
        \/ \E m \in Models : ExtraAnswers(m) \/ ExtraFails(m)
        \/ RaceExhausted

Handle == Forward \/ Primary \/ Second \/ GiveUp \/ HandleHTTPError \/ Race

Next == Arrive \/ Handle \/ Reconnect \/ Expire

Spec == Init /\ [][Next]_vars

(* The handler thread runs, and sockets have timeouts. *)
FairSpec == Spec /\ WF_vars(Handle)

-----------------------------------------------------------------------------
(* Properties.                                                             *)

(* A request that is over was answered exactly once, whatever chain of     *)
(* routers, models and retries it went through, unless an exception was    *)
(* raised in one of _forward's own handlers.                               *)
AnsweredOnce == /\ answers <= 1
                /\ pc = "done" => answers = (IF seen.escaped THEN 0 ELSE 1)

(* A hop leads to a model this request has not asked for, of a provider    *)
(* that has not failed it (_next_fallback_model, _tried_providers).        *)
HopsAreFresh ==
    [][pc = "forward" /\ pc' = "primary" /\ model # None
         => model \notin seen.asked /\ ProviderOf[model] \notin seen.failed]_vars

(* Nested fallbacks stay within both budgets: two calls per hop, and after *)
(* the deadline at most the second router's (_may_fallback).               *)
EffortIsBounded == seen.calls <= MaxCalls /\ seen.late <= 1

(* A 504 for a model that was asked is sent only after the model, or its   *)
(* provider, was put in cooldown (_on_upstream_timeout, _respond_timeout). *)
CooledBeforeTimeoutReply ==
    pc = "done" /\ reply = "504" /\ model \in seen.asked
        => seen.marked \cap (Body \cup Provider) # {}

(* mark_healthy lifts a cooldown.  However often a request hops, whether   *)
(* its name was the client's, and whichever router answers in the end, it  *)
(* is never called for a provider that failed this request and was left    *)
(* for another one: what was set against it stands (proxy_handler.py       *)
(* 519-523, 1029-1052, 1618).                                              *)
FailedIsNotCredited == seen.failed \cap seen.credited = {}

(* Every request comes to an end. *)
RequestsEnd == pc \notin {"idle", "done"} ~> pc = "done"

(* proxy_handler.py of the handlers at the end of _forward: "must still    *)
(* fail loudly with an HTTP status instead of a silent socket close".      *)
NoSilentEnd == pc = "done" => answers > 0

(* proxy_handler.py: "Loop guard: a timed-out model must NOT stay in       *)
(* rotation."                                                              *)
TimedOutModelsLeaveRotation ==
    pc = "done" => \A m \in seen.timedOut : {m, ProviderOf[m]} \cap seen.marked # {}

(* health_registry.py: mark_healthy, "Mark provider as healthy after a     *)
(* success": one of the provider's models served the request.              *)
CreditWhereDue == seen.credited \subseteq {ProviderOf[m] : m \in seen.served}

(* proxy_handler.py: "Per-request state (set fresh in do_POST)"; a request *)
(* that never had a deadline is not refused for one.                       *)
DeadlinesAreOwn ==
    pc = "done" /\ kind # "chat" /\ reply = "504" => seen.calls > 0
=============================================================================
