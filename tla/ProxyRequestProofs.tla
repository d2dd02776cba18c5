-------------------------- MODULE ProxyRequestProofs --------------------------
(***************************************************************************)
(* The safety properties of ProxyRequest for every set of models,          *)
(* providers and routers and every MaxRetries.                             *)
(*                                                                         *)
(* None of them is inductive.  That effort is bounded needs how many calls *)
(* each place of _forward may have made for the hops so far, and that no   *)
(* call is late before the deadline; that hops are fresh needs that every  *)
(* model asked and every provider that failed is remembered in _tried_*;   *)
(* and that a 504 follows a cooldown needs both that a model about to be   *)
(* asked is fresh and that nothing is answered twice.  That who failed is  *)
(* not credited needs that credit comes with the last answer only, and     *)
(* that whoever is being asked has not failed before.                      *)
(***************************************************************************)
EXTENDS ProxyRequest, TLAPS

InForward == pc \in {"forward", "primary", "second", "failed"}

AnsweredAtTheEnd ==
    IF pc = "done" THEN answers = (IF seen.escaped THEN 0 ELSE 1)
                   ELSE answers = 0 /\ reply = "none" /\ ~seen.escaped

CallsFollowHops ==
    /\ seen.calls <= MaxCalls
    /\ pc = "forward" => seen.calls <= 2 * hops
    /\ pc = "primary" => seen.calls <= 2 * hops + 1
    /\ pc \in {"second", "failed"} => seen.calls <= 2 * hops + 2

LateCallIsLast ==
    /\ seen.late <= 1
    /\ pc \in {"forward", "primary"} => seen.late = 0
    /\ seen.late > 0 => deadline = "passed"

EverythingTried ==
    InForward => seen.asked \subseteq tried \cup Body /\ seen.failed \subseteq triedProviders

NextIsFresh ==
    pc = "forward" /\ model # None
        => model \notin seen.asked /\ ProviderOf[model] \notin seen.failed

CreditComesLast ==
    /\ pc # "done" => seen.credited = {}
    /\ pc \in {"race", "net"} => seen.failed = {}
    /\ InForward /\ model # None => ProviderOf[model] \notin seen.failed

Credit == CreditComesLast /\ FailedIsNotCredited

IInv == /\ TypeOK
        /\ AnsweredAtTheEnd
        /\ CallsFollowHops
        /\ LateCallIsLast
        /\ EverythingTried
        /\ NextIsFresh
        /\ CooledBeforeTimeoutReply
        /\ Credit

-----------------------------------------------------------------------------
(* What a request may be in the middle of. *)
LEMMA BodyType ==
    ASSUME TypeOK
    PROVE  /\ Body \subseteq Models /\ Provider \subseteq Providers
           /\ Body \subseteq Keys /\ Provider \subseteq Keys
           /\ model # None => Body = {model} /\ Provider = {ProviderOf[model]}
           /\ model = None => Body = {} /\ Provider = {}
BY RequestAssumption DEF TypeOK, Body, Provider, Keys

LEMMA NothingType ==
    /\ Nothing \in Observations /\ NoRace \in Races
    /\ Nothing.asked = {} /\ Nothing.failed = {} /\ Nothing.credited = {}
    /\ Nothing.calls = 0 /\ Nothing.late = 0 /\ Nothing.escaped = FALSE
BY DEF Nothing, NoRace, Observations, Races

(* Two records of what happened agree on everything but on who is healthy. *)
SameButHealth(s, t) ==
    /\ s.asked = t.asked /\ s.failed = t.failed
    /\ s.calls = t.calls /\ s.late = t.late /\ s.escaped = t.escaped

(* The health of a 200: a credit for who was asked, or marks. *)
LEMMA HealthRecorded ==
    ASSUME TypeOK, NEW by \in SUBSET Models, NEW s \in RecordHealth(seen, by)
    PROVE  /\ s \in Observations
           /\ SameButHealth(s, seen)
           /\ \/ s.credited = seen.credited /\ s.served = seen.served
              \/ /\ s.credited = seen.credited \cup Provider
                 /\ s.served = seen.served \cup by
<1> USE DEF SameButHealth
<1>1. seen \in Observations
  BY DEF TypeOK
<1>2. CASE model = None
  BY <1>1, <1>2 DEF RecordHealth
<1>3. CASE model # None
  <2>1. CASE s = [seen EXCEPT !.credited = @ \cup Provider, !.served = @ \cup by]
    BY <1>1, <2>1, BodyType DEF Observations
  <2>2. ASSUME NEW ks \in Marks, s = [seen EXCEPT !.marked = @ \cup ks]
        PROVE  s \in Observations /\ SameButHealth(s, seen)
               /\ s.credited = seen.credited /\ s.served = seen.served
    <3>1. ks \subseteq Keys
      BY BodyType DEF Marks
    <3> QED
      BY <1>1, <2>2, <3>1 DEF Observations
  <2> QED
    BY <1>3, <2>1, <2>2 DEF RecordHealth
<1> QED
  BY <1>2, <1>3

-----------------------------------------------------------------------------
LEMMA InitIInv == Init => IInv
<1> SUFFICES ASSUME Init PROVE IInv
  OBVIOUS
<1>1. TypeOK
  <2>1. renamed \in BOOLEAN /\ selected \in BOOLEAN
    BY DEF Init, Fresh
  <2>2. hops \in 0 .. MaxRetries
    BY RequestAssumption DEF Init, Fresh
  <2>3. race \in Races /\ seen \in Observations
    BY NothingType DEF Init
  <2> QED
    BY <2>1, <2>2, <2>3 DEF Init, Fresh, TypeOK
<1>2. MaxCalls \in Nat
  BY RequestAssumption DEF MaxCalls
<1>3. pc = "idle" /\ answers = 0 /\ reply = "none" /\ seen = Nothing
  BY DEF Init
<1>4. AnsweredAtTheEnd /\ CallsFollowHops /\ LateCallIsLast
  BY <1>2, <1>3, NothingType DEF AnsweredAtTheEnd, CallsFollowHops, LateCallIsLast
<1>5. EverythingTried /\ NextIsFresh /\ CooledBeforeTimeoutReply
  BY <1>3 DEF EverythingTried, InForward, NextIsFresh, CooledBeforeTimeoutReply
<1>6. Credit
  BY <1>3, NothingType DEF Credit, CreditComesLast, FailedIsNotCredited, InForward
<1> QED
  BY <1>1, <1>4, <1>5, <1>6 DEF IInv

(* A request begins, whatever the connection went through before. *)
LEMMA BeginStep ==
    ASSUME IInv, seen' = Nothing,
           \/ pc' \in {"idle", "forward", "race"} /\ answers' = 0 /\ reply' = "none"
           \/ pc' = "done" /\ answers' = 1 /\ reply' \in {"200", "503"},
           kind' \in {"chat", "post", "get"}, model' \in Models \cup {None},
           {renamed', selected'} \subseteq BOOLEAN, hops' \in 0 .. MaxRetries,
           tried' \subseteq Models, triedProviders' \subseteq Providers,
           deadline' \in {"none", "running", "passed"}, router' = None,
           failure' = "none", race' \in Races
    PROVE  IInv'
<1>1. MaxCalls \in Nat /\ hops' \in Nat
  BY RequestAssumption DEF MaxCalls
<1>2. TypeOK'
  BY NothingType DEF TypeOK
<1>3. AnsweredAtTheEnd'
  BY NothingType DEF AnsweredAtTheEnd
<1>4. CallsFollowHops' /\ LateCallIsLast'
  <2>1. seen'.calls = 0 /\ seen'.late = 0
    BY NothingType
  <2>2. \A n \in Nat : 0 <= n /\ 0 <= 2 * n
    OBVIOUS
  <2>3. 0 <= MaxCalls /\ 0 <= 2 * hops'
    BY <1>1, <2>2
  <2>4. pc' \notin {"primary", "second", "failed"}
    OBVIOUS
  <2>5. CallsFollowHops'
    BY <2>1, <2>3, <2>4 DEF CallsFollowHops
  <2>6. LateCallIsLast'
    BY <2>1 DEF LateCallIsLast
  <2> QED
    BY <2>5, <2>6
<1>5. EverythingTried' /\ NextIsFresh'
  BY NothingType DEF EverythingTried, InForward, NextIsFresh
<1>6. CooledBeforeTimeoutReply' /\ Credit'
  BY NothingType DEF CooledBeforeTimeoutReply, Credit, CreditComesLast, FailedIsNotCredited
<1> QED
  BY <1>2, <1>3, <1>4, <1>5, <1>6 DEF IInv

(* A request ends with a response. *)
LEMMA RespondStep ==
    ASSUME IInv, pc # "done",
           NEW status \in {"200", "upstream", "503", "504"}, Respond(status),
           model' = model, selected' = selected, hops' = hops,
           tried' \subseteq Models, triedProviders' \subseteq Providers,
           seen' \in Observations,
           seen'.calls = seen.calls, seen'.late = seen.late, seen'.escaped = seen.escaped,
           CooledBeforeTimeoutReply', FailedIsNotCredited'
    PROVE  IInv'
<1>1. TypeOK'
  BY NothingType DEF IInv, TypeOK, Respond, NoLocals
<1>2. AnsweredAtTheEnd'
  BY DEF IInv, AnsweredAtTheEnd, Respond
<1>3. CallsFollowHops' /\ LateCallIsLast'
  BY DEF IInv, CallsFollowHops, LateCallIsLast, Respond
<1> QED
  BY <1>1, <1>2, <1>3
  DEF IInv, EverythingTried, InForward, NextIsFresh, Credit, CreditComesLast, Respond

(* An exception escapes. *)
LEMMA EscapeStep ==
    ASSUME IInv, pc # "done", Escape, Same
    PROVE  IInv'
<1>1. seen' = [seen EXCEPT !.escaped = TRUE] /\ seen \in Observations
  BY DEF Escape, IInv, TypeOK
<1>2. /\ seen' \in Observations /\ seen'.escaped = TRUE
      /\ seen'.calls = seen.calls /\ seen'.late = seen.late
      /\ seen'.credited = seen.credited /\ seen'.served = seen.served
      /\ seen'.marked = seen.marked /\ seen'.asked = seen.asked
  BY <1>1 DEF Observations
<1> HIDE <1>1
<1>3. TypeOK'
  BY <1>2, NothingType DEF IInv, TypeOK, Escape, Same, perRequest, NoLocals
<1>4. AnsweredAtTheEnd'
  BY <1>2 DEF IInv, AnsweredAtTheEnd, Escape
<1>5. CallsFollowHops' /\ LateCallIsLast'
  BY <1>2 DEF IInv, CallsFollowHops, LateCallIsLast, Escape
<1>6. CooledBeforeTimeoutReply' /\ Credit'
  BY <1>2
  DEF IInv, AnsweredAtTheEnd, CooledBeforeTimeoutReply, Credit, CreditComesLast,
      FailedIsNotCredited, InForward, Escape
<1> QED
  BY <1>3, <1>4, <1>5, <1>6
  DEF IInv, EverythingTried, InForward, NextIsFresh, Escape

(* A hop to the next model, which everything that failed excludes. *)
LEMMA HopStep ==
    ASSUME IInv, pc \in {"primary", "failed"}, NEW excluded \in SUBSET Providers,
           Hop(excluded), seen' \in Observations,
           seen'.asked = seen.asked, seen'.failed \subseteq seen.failed \cup excluded,
           seen'.calls = seen.calls, seen'.late = seen.late, seen'.escaped = seen.escaped,
           seen'.credited = seen.credited, seen'.served = seen.served,
           seen.calls <= 2 * hops + 2
    PROVE  IInv'
<1>1. /\ model' \in Models /\ hops' = hops + 1 /\ hops < MaxRetries
      /\ tried' = tried \cup Body /\ triedProviders' = triedProviders \cup excluded
      /\ model' \notin tried' /\ ProviderOf[model'] \notin triedProviders'
      /\ deadline # "passed" /\ deadline' = deadline /\ renamed' = renamed
      /\ pc' = "forward" /\ reply' = reply /\ answers' = answers
  BY DEF Hop, MayFallback, NextModels, Continue
<1>2. TypeOK'
  <2>1. hops' \in 0 .. MaxRetries
    BY <1>1, RequestAssumption DEF IInv, TypeOK
  <2>2. tried' \subseteq Models
    BY <1>1, BodyType DEF IInv, TypeOK
  <2> QED
    BY <1>1, <2>1, <2>2, NothingType DEF IInv, TypeOK, Hop, NoLocals
<1>3. AnsweredAtTheEnd'
  BY <1>1 DEF IInv, AnsweredAtTheEnd
<1>4. CallsFollowHops'
  BY <1>1, RequestAssumption DEF IInv, TypeOK, CallsFollowHops
<1>5. LateCallIsLast'
  <2>1. seen.late = 0
    BY <1>1 DEF IInv, TypeOK, Observations, LateCallIsLast
  <2> QED
    BY <1>1, <2>1 DEF LateCallIsLast
<1>6. EverythingTried'
  BY <1>1 DEF IInv, EverythingTried, InForward
<1>7. NextIsFresh'
  BY <1>1, <1>6 DEF IInv, EverythingTried, InForward, NextIsFresh
<1>8. Credit'
  BY <1>1, <1>6 DEF IInv, EverythingTried, InForward, Credit, CreditComesLast, FailedIsNotCredited
<1> QED
  BY <1>1, <1>2, <1>3, <1>4, <1>5, <1>6, <1>7, <1>8
  DEF IInv, CooledBeforeTimeoutReply

(* A step of the handler that stays in the middle of the request, leads    *)
(* not to "forward" and makes no call.                                     *)
LEMMA InnerStep ==
    ASSUME IInv, pc \in {"primary", "second", "failed", "race", "net"}, Same,
           \/ pc' \in {"second", "failed"} /\ InForward
           \/ pc' \in {"race", "net"} /\ ~InForward,
           UNCHANGED <<kind, renamed, deadline, answers, reply>>,
           router' \in Routers \cup {None},
           failure' \in HTTPFailures \cup {"none", "connection"}, race' \in Races,
           seen' \in Observations,
           seen'.failed = seen.failed, seen'.asked = seen.asked \/ ~InForward',
           seen'.calls <= MaxCalls, InForward' => seen'.calls <= 2 * hops + 2,
           seen'.late = seen.late \/ (deadline = "passed" /\ seen'.late <= 1),
           seen'.escaped = seen.escaped,
           seen'.credited = seen.credited, seen'.served = seen.served
    PROVE  IInv'
<1>1. TypeOK'
  BY DEF IInv, TypeOK, Same, perRequest
<1>2. AnsweredAtTheEnd' /\ CallsFollowHops'
  BY DEF IInv, AnsweredAtTheEnd, CallsFollowHops, InForward, Same, perRequest
<1>3. LateCallIsLast'
  BY DEF IInv, LateCallIsLast
<1>4. EverythingTried' /\ NextIsFresh'
  BY DEF IInv, EverythingTried, InForward, NextIsFresh, Same, perRequest, Body
<1>5. Credit'
  BY DEF IInv, Credit, CreditComesLast, FailedIsNotCredited, InForward, Same, perRequest
<1> QED
  BY <1>1, <1>2, <1>3, <1>4, <1>5
  DEF IInv, CooledBeforeTimeoutReply, InForward

-----------------------------------------------------------------------------
(* One more call is counted. *)
LEMMA CallCounted ==
    ASSUME TypeOK
    PROVE  /\ Counted(seen) \in Observations
           /\ Counted(seen).asked = seen.asked /\ Counted(seen).failed = seen.failed
           /\ Counted(seen).escaped = seen.escaped
           /\ Counted(seen).credited = seen.credited /\ Counted(seen).served = seen.served
           /\ seen.calls <= MaxCalls => Counted(seen).calls = seen.calls + 1
           /\ \/ Counted(seen).late = seen.late
              \/ /\ deadline = "passed" /\ seen.late < 2
                 /\ Counted(seen).late = seen.late + 1
<1> DEFINE calls == IF seen.calls > MaxCalls THEN seen.calls ELSE seen.calls + 1
           late  == IF deadline = "passed" /\ seen.late < 2 THEN seen.late + 1 ELSE seen.late
<1>1. seen \in Observations
  BY DEF TypeOK
<1>2. seen.calls \in Nat /\ seen.late \in Nat
  BY <1>1 DEF Observations
<1>3. calls \in Nat /\ late \in Nat
  BY <1>2
<1>4. MaxCalls \in Nat
  BY RequestAssumption DEF MaxCalls
<1>5. seen.calls <= MaxCalls => calls = seen.calls + 1
  BY <1>2, <1>4
<1>7. late = seen.late \/ (deadline = "passed" /\ late = seen.late + 1 /\ seen.late < 2)
  OBVIOUS
<1>6. Counted(seen) = [seen EXCEPT !.calls = calls, !.late = late]
  BY DEF Counted
<1> HIDE DEF calls, late
<1> QED
  BY <1>1, <1>3, <1>5, <1>6, <1>7 DEF Observations

(* Requests arrive; the client opens another connection; time passes.      *)
LEMMA ArriveStep ==
    ASSUME IInv, Arrive
    PROVE  IInv'
<1>1. ASSUME kind' = "chat", {renamed', selected'} \subseteq BOOLEAN,
             model' \in Models \cup {None}, hops' = 0, tried' = {}, triedProviders' = {},
             deadline' = "running", router' = None, failure' = "none", seen' = Nothing,
             race' \in Races,
             \/ pc' \in {"forward", "race"} /\ answers' = 0 /\ reply' = "none"
             \/ pc' = "done" /\ answers' = 1 /\ reply' \in {"200", "503"}
      PROVE  IInv'
  BY <1>1, RequestAssumption, BeginStep
<1>2. CASE AnswerLocally
  <2>1. {renamed', selected'} \subseteq BOOLEAN
    BY <1>2 DEF AnswerLocally, ChatArrives
  <2> QED
    BY <1>1, <1>2, <2>1, NothingType DEF AnswerLocally, ChatArrives
<1>3. CASE ForwardModel
  <2>1. {renamed', selected'} \subseteq BOOLEAN
    BY <1>3 DEF ForwardModel, ChatArrives
  <2> QED
    BY <1>1, <1>3, <2>1, NothingType DEF ForwardModel, ChatArrives, Begins
<1>4. CASE ForwardSubstitute
  <2>1. {renamed', selected'} \subseteq BOOLEAN
    BY <1>4 DEF ForwardSubstitute, ChatArrives
  <2> QED
    BY <1>1, <1>4, <2>1, NothingType DEF ForwardSubstitute, ChatArrives, Begins
<1>5. CASE StartRace
  <2>1. {renamed', selected'} \subseteq BOOLEAN
    BY <1>5 DEF StartRace, ChatArrives
  <2>2. PICK cs \in SUBSET Models : \E admitted \in SUBSET cs :
           race' = [NoRace EXCEPT !.candidates = cs, !.running = admitted]
    BY <1>5 DEF StartRace
  <2>3. race' \in Races
    BY <2>2, NothingType DEF Races
  <2> QED
    BY <1>1, <1>5, <2>1, <2>3 DEF StartRace, ChatArrives, Begins
<1>6. CASE PassOn
  <2>1. /\ hops' \in 0 .. MaxRetries /\ tried' \subseteq Models
        /\ triedProviders' \subseteq Providers /\ deadline' \in {"none", "running", "passed"}
        /\ kind' \in {"chat", "post", "get"} /\ model' \in Models \cup {None}
        /\ router' = None /\ failure' = "none" /\ race' \in Races
    BY <1>6, NothingType DEF PassOn, NoLocals, perRequest, IInv, TypeOK
  <2>2. {renamed', selected'} \subseteq BOOLEAN
    BY <1>6 DEF PassOn, perRequest, IInv, TypeOK
  <2> QED
    BY <1>6, <2>1, <2>2, BeginStep DEF PassOn, Begins
<1> QED
  BY <1>2, <1>3, <1>4, <1>5, <1>6 DEF Arrive

LEMMA ReconnectStep ==
    ASSUME IInv, Reconnect
    PROVE  IInv'
<1>1. {renamed', selected'} \subseteq BOOLEAN
  BY DEF Reconnect
<1>2. race' \in Races /\ hops' \in 0 .. MaxRetries
  BY NothingType, RequestAssumption DEF Reconnect, NoLocals
<1> QED
  BY <1>1, <1>2, BeginStep DEF Reconnect, NoLocals

LEMMA ExpireStep ==
    ASSUME IInv, Expire
    PROVE  IInv'
<1> USE DEF Expire, perRequest
<1>1. TypeOK'
  BY DEF IInv, TypeOK
<1>2. AnsweredAtTheEnd' /\ CallsFollowHops' /\ LateCallIsLast'
  BY DEF IInv, AnsweredAtTheEnd, CallsFollowHops, LateCallIsLast
<1>3. EverythingTried' /\ NextIsFresh'
  BY DEF IInv, EverythingTried, NextIsFresh, InForward, Body
<1> QED
  BY <1>1, <1>2, <1>3
  DEF IInv, CooledBeforeTimeoutReply, Credit, CreditComesLast, FailedIsNotCredited, InForward,
      Body, Provider

-----------------------------------------------------------------------------
(* A reply other than a timeout's, after a step that credits nobody. *)
LEMMA PlainReplyStep ==
    ASSUME IInv, pc # "done", NEW status \in {"200", "upstream", "503"}, Respond(status),
           model' = model, selected' = selected, hops' = hops,
           tried' \subseteq Models, triedProviders' \subseteq Providers,
           seen' \in Observations,
           seen'.calls = seen.calls, seen'.late = seen.late, seen'.escaped = seen.escaped,
           seen'.credited = seen.credited, seen'.served = seen.served
    PROVE  IInv'
<1>1. CooledBeforeTimeoutReply'
  BY DEF Respond, CooledBeforeTimeoutReply
<1>2. FailedIsNotCredited'
  BY DEF IInv, Credit, CreditComesLast, FailedIsNotCredited
<1> QED
  BY <1>1, <1>2, RespondStep

(* From the choice of a router to the call. *)
LEMMA ForwardStep ==
    ASSUME IInv, Forward
    PROVE  IInv'
<1>1. CASE RefuseToForward
  BY <1>1, PlainReplyStep DEF RefuseToForward, Same, perRequest, IInv, TypeOK
<1>2. CASE DeadlinePassed
  <2>1. /\ pc = "forward" /\ Respond("504") /\ seen' = seen /\ renamed' = renamed
        /\ model' = model /\ UNCHANGED perRequest
    BY <1>2 DEF DeadlinePassed, Same, Respond
  <2>2. model \notin seen.asked
    BY <2>1, RequestAssumption DEF IInv, TypeOK, Observations, NextIsFresh
  <2>3. CooledBeforeTimeoutReply'
    BY <2>1, <2>2 DEF CooledBeforeTimeoutReply
  <2>4. FailedIsNotCredited'
    BY <2>1 DEF IInv, Credit, FailedIsNotCredited
  <2> QED
    BY <2>1, <2>3, <2>4, RespondStep DEF perRequest, IInv, TypeOK
<1>3. CASE Call
  <2>1. /\ pc = "forward" /\ pc' = "primary" /\ deadline # "passed"
        /\ router' \in Routers
        /\ UNCHANGED <<answers, reply, kind, model, renamed, deadline, failure, race>>
        /\ UNCHANGED <<selected, hops, tried, triedProviders>>
    BY <1>3 DEF Call, Continue, perRequest
  <2>2. /\ seen \in Observations /\ Body \subseteq Models
        /\ hops \in 0 .. MaxRetries /\ seen.calls <= 2 * hops /\ seen.calls \in Nat
    BY <2>1, BodyType DEF IInv, TypeOK, CallsFollowHops, Observations
  <2>3. seen.calls < MaxCalls
    BY <2>2, RequestAssumption DEF MaxCalls
  <2>4. /\ Counted(seen) \in Observations /\ Counted(seen).asked = seen.asked
        /\ Counted(seen).calls = seen.calls + 1 /\ Counted(seen).late = seen.late
        /\ Counted(seen).failed = seen.failed /\ Counted(seen).escaped = seen.escaped
        /\ Counted(seen).credited = seen.credited /\ Counted(seen).served = seen.served
    <3>1. TypeOK /\ MaxCalls \in Nat
      BY RequestAssumption DEF IInv, MaxCalls
    <3>2. seen.calls <= MaxCalls
      BY <2>2, <2>3, <3>1
    <3> QED
      BY <2>1, <3>1, <3>2, CallCounted
  <2>5. /\ seen' \in Observations /\ seen'.asked = seen.asked \cup Body
        /\ seen'.calls = seen.calls + 1 /\ seen'.late = seen.late
        /\ seen'.failed = seen.failed /\ seen'.escaped = seen.escaped
        /\ seen'.credited = seen.credited /\ seen'.served = seen.served
    <3>1. seen' = [Counted(seen) EXCEPT !.asked = @ \cup Body]
      BY <1>3 DEF Call
    <3> QED
      BY <2>2, <2>4, <3>1 DEF Observations
  <2>6. TypeOK'
    BY <2>1, <2>5 DEF IInv, TypeOK
  <2>7. AnsweredAtTheEnd'
    BY <2>1, <2>5 DEF IInv, AnsweredAtTheEnd
  <2>8. CallsFollowHops' /\ LateCallIsLast'
    BY <2>1, <2>2, <2>3, <2>5, RequestAssumption
    DEF IInv, CallsFollowHops, LateCallIsLast, MaxCalls
  <2>9. EverythingTried' /\ NextIsFresh'
    BY <2>1, <2>5 DEF IInv, EverythingTried, NextIsFresh, InForward, Body
  <2>10. CooledBeforeTimeoutReply' /\ Credit'
    BY <2>1, <2>5
    DEF IInv, CooledBeforeTimeoutReply, Credit, CreditComesLast, FailedIsNotCredited, InForward
  <2> QED
    BY <2>6, <2>7, <2>8, <2>9, <2>10 DEF IInv
<1> QED
  BY <1>1, <1>2, <1>3 DEF Forward

(* What the handlers remember when they hop or give up. *)
LEMMA NoHopType ==
    ASSUME TypeOK, NEW excluded \in SUBSET Providers, NoHop(excluded)
    PROVE  /\ tried' \subseteq Models /\ triedProviders' \subseteq Providers
           /\ model' = model /\ selected' = selected /\ hops' = hops
BY BodyType DEF NoHop, TypeOK

LEMMA SameType ==
    ASSUME TypeOK, Same
    PROVE  /\ tried' \subseteq Models /\ triedProviders' \subseteq Providers
           /\ model' = model /\ selected' = selected /\ hops' = hops
BY DEF Same, perRequest, TypeOK

(* A usable or a worthless 200, from the primary router or the second. *)
LEMMA AnswerStep ==
    ASSUME IInv, InForward, NEW by \in SUBSET Models,
           seen' \in RecordHealth(seen, by), Respond("200"), Same
    PROVE  IInv'
<1>1. TypeOK
  BY DEF IInv
<1>2. /\ seen' \in Observations /\ SameButHealth(seen', seen)
      /\ \/ seen'.credited = seen.credited /\ seen'.served = seen.served
         \/ /\ seen'.credited = seen.credited \cup Provider
            /\ seen'.served = seen.served \cup by
  BY <1>1, HealthRecorded
<1>3. CooledBeforeTimeoutReply'
  BY DEF Respond, CooledBeforeTimeoutReply
<1>4. FailedIsNotCredited'
  <2>1. seen.credited = {} /\ (model # None => ProviderOf[model] \notin seen.failed)
    BY DEF IInv, Credit, CreditComesLast, InForward
  <2>2. Provider \cap seen.failed = {}
    BY <1>1, <2>1, BodyType
  <2> QED
    BY <1>2, <2>1, <2>2 DEF SameButHealth, FailedIsNotCredited
<1> QED
  BY <1>1, <1>2, <1>3, <1>4, SameType, RespondStep DEF SameButHealth, InForward

-----------------------------------------------------------------------------
(* What has been called when a place is reached. *)
LEMMA Effort ==
    ASSUME IInv
    PROVE  /\ MaxCalls \in Nat /\ MaxCalls = 2 * MaxRetries + 2 /\ hops \in 0 .. MaxRetries
           /\ seen \in Observations /\ seen.calls \in Nat /\ seen.late \in Nat
           /\ pc = "primary" => seen.calls <= 2 * hops + 1 /\ seen.late = 0
           /\ pc = "primary" => seen.calls < MaxCalls
           /\ pc = "failed" => seen.calls <= 2 * hops + 2
<1>1. MaxCalls \in Nat /\ MaxCalls = 2 * MaxRetries + 2 /\ hops \in 0 .. MaxRetries
  BY RequestAssumption DEF MaxCalls, IInv, TypeOK
<1>2. seen \in Observations /\ seen.calls \in Nat /\ seen.late \in Nat
  BY DEF IInv, TypeOK, Observations
<1>3. pc = "primary" => seen.calls <= 2 * hops + 1 /\ seen.late = 0
  BY DEF IInv, CallsFollowHops, LateCallIsLast
<1>4. pc = "failed" => seen.calls <= 2 * hops + 2
  BY DEF IInv, CallsFollowHops
<1> QED
  BY <1>1, <1>2, <1>3, <1>4, RequestAssumption

(* The handler gives up on the primary, or asks the second router: the     *)
(* last call this hop allows, and the only one that may be late.           *)
LEMMA AskSecondStep ==
    ASSUME IInv, pc = "primary", AskSecond,
           failure' \in HTTPFailures \cup {"none", "connection"}
    PROVE  IInv'
<1>1. UNCHANGED <<kind, model, renamed, deadline, router, race>> /\ Same
  BY DEF AskSecond, Same
<1>2. router' \in Routers \cup {None} /\ race' \in Races
  BY <1>1 DEF IInv, TypeOK
<1>3. CASE seen' = seen /\ Continue("failed")
  <2>1. seen.calls <= MaxCalls /\ seen.calls <= 2 * hops + 2
    BY Effort
  <2> QED
    BY <1>1, <1>2, <1>3, <2>1, InnerStep, Effort DEF Continue, InForward
<1>4. CASE seen' = Counted(seen) /\ Continue("second")
  <2>1. TypeOK /\ seen.calls < MaxCalls /\ seen.late = 0
    BY Effort DEF IInv
  <2>2. seen.calls <= MaxCalls /\ seen.calls + 1 <= MaxCalls
    BY <2>1, Effort
  <2>3. /\ seen' \in Observations /\ seen'.asked = seen.asked
        /\ seen'.failed = seen.failed /\ seen'.escaped = seen.escaped
        /\ seen'.credited = seen.credited /\ seen'.served = seen.served
        /\ seen'.calls = seen.calls + 1
    BY <1>4, <2>1, <2>2, CallCounted
  <2>5. seen'.calls <= MaxCalls /\ seen'.calls <= 2 * hops + 2
    BY <2>2, <2>3, Effort
  <2>4. seen'.late = seen.late \/ (deadline = "passed" /\ seen'.late <= 1)
    BY <1>4, <2>1, CallCounted
  <2> QED
    BY <1>1, <1>2, <1>4, <2>3, <2>4, <2>5, InnerStep DEF Continue, InForward
<1> QED
  BY <1>3, <1>4 DEF AskSecond

LEMMA PrimaryEmptyStep ==
    ASSUME IInv, PrimaryEmpty
    PROVE  IInv'
<1>1. PICK ks \in {Body, Provider} : seen' = [seen EXCEPT !.marked = @ \cup ks]
  BY DEF PrimaryEmpty
<1>2. TypeOK /\ ks \subseteq Keys /\ pc = "primary"
  BY BodyType DEF IInv, PrimaryEmpty
<1>3. /\ seen' \in Observations
      /\ seen'.asked = seen.asked /\ seen'.failed = seen.failed
      /\ seen'.calls = seen.calls /\ seen'.late = seen.late /\ seen'.escaped = seen.escaped
      /\ seen'.credited = seen.credited /\ seen'.served = seen.served
  BY <1>1, <1>2, Effort DEF Observations
<1>4. CASE Hop({})
  <2>1. seen.calls <= 2 * hops + 2
    BY <1>2, Effort
  <2> QED
    BY <1>2, <1>3, <1>4, <2>1, HopStep
<1>5. CASE NoHop({}) /\ Respond("503")
  BY <1>2, <1>3, <1>5, NoHopType, PlainReplyStep
<1> QED
  BY <1>4, <1>5 DEF PrimaryEmpty

LEMMA PrimaryTimeoutStep ==
    ASSUME IInv, PrimaryTimesOut
    PROVE  IInv'
<1> DEFINE s == [seen EXCEPT !.timedOut = @ \cup Body, !.failed = @ \cup Provider]
<1>1. TypeOK /\ pc = "primary"
  BY DEF IInv, PrimaryTimesOut
<1>2. /\ s \in Observations
      /\ s.asked = seen.asked /\ s.failed = seen.failed \cup Provider
      /\ s.calls = seen.calls /\ s.late = seen.late /\ s.escaped = seen.escaped
      /\ s.credited = seen.credited /\ s.served = seen.served
  BY <1>1, Effort, BodyType DEF Observations
<1>3. \/ Hop(Provider) /\ seen' = s
      \/ /\ NoHop(Provider) /\ Respond("504")
         /\ seen' = [s EXCEPT !.marked = @ \cup TimeoutMark]
  BY DEF PrimaryTimesOut
<1> HIDE DEF s
<1>4. CASE Hop(Provider) /\ seen' = s
  <2>1. seen.calls <= 2 * hops + 2
    BY <1>1, Effort
  <2> QED
    BY <1>1, <1>2, <1>4, <2>1, HopStep, BodyType
<1>5. CASE /\ NoHop(Provider) /\ Respond("504")
           /\ seen' = [s EXCEPT !.marked = @ \cup TimeoutMark]
  <2>1. TimeoutMark \subseteq Keys
    BY <1>1, BodyType DEF TimeoutMark
  <2>2. /\ seen' \in Observations /\ seen'.asked = seen.asked
        /\ seen'.marked = s.marked \cup TimeoutMark
        /\ seen'.calls = seen.calls /\ seen'.late = seen.late
        /\ seen'.escaped = seen.escaped
        /\ seen'.credited = seen.credited /\ seen'.served = seen.served
    BY <1>2, <1>5, <2>1 DEF Observations
  <2>3. /\ tried' \subseteq Models /\ triedProviders' \subseteq Providers
        /\ model' = model /\ selected' = selected /\ hops' = hops
    BY <1>1, <1>5, NoHopType, BodyType
  <2>4. CooledBeforeTimeoutReply'
    <3>1. SUFFICES ASSUME model \in seen.asked
                   PROVE  seen'.marked \cap (Body \cup Provider) # {}
      BY <2>2, <2>3 DEF CooledBeforeTimeoutReply, Body, Provider
    <3>2. model # None
      BY <3>1, Effort, RequestAssumption DEF Observations
    <3>3. Body = {model} /\ Provider = {ProviderOf[model]}
      BY <1>1, <3>2, BodyType
    <3> QED
      BY <2>2, <3>3 DEF TimeoutMark
  <2>5. FailedIsNotCredited'
    BY <1>1, <2>2 DEF IInv, Credit, CreditComesLast, FailedIsNotCredited
  <2> QED
    BY <1>1, <1>5, <2>2, <2>3, <2>4, <2>5, RespondStep
<1> QED
  BY <1>3, <1>4, <1>5

(* What the primary call leads to. *)
LEMMA PrimaryStep ==
    ASSUME IInv, Primary
    PROVE  IInv'
<1>1. TypeOK
  BY DEF IInv
<1>2. CASE PrimaryAnswers
  BY <1>1, <1>2, AnswerStep, BodyType DEF PrimaryAnswers, InForward
<1>3. CASE PrimaryFails
  BY <1>3, AskSecondStep DEF PrimaryFails
<1>4. CASE PrimaryUnreachable
  BY <1>4, AskSecondStep DEF PrimaryUnreachable
<1>5. CASE PrimaryStalls
  BY <1>5, EscapeStep DEF PrimaryStalls
<1>6. CASE PrimaryBreaks
  BY <1>1, <1>6, PlainReplyStep, SameType, Effort DEF PrimaryBreaks
<1> QED
  BY <1>2, <1>3, <1>4, <1>5, <1>6, PrimaryEmptyStep, PrimaryTimeoutStep DEF Primary

(* What the call of the second router leads to. *)
LEMMA SecondStep ==
    ASSUME IInv, Second
    PROVE  IInv'
<1>1. TypeOK
  BY DEF IInv
<1>2. CASE SecondAnswers
  <2>1. SecondAsks \subseteq Models
    BY <1>1, BodyType DEF SecondAsks
  <2> QED
    BY <1>2, <2>1, AnswerStep DEF SecondAnswers, InForward
<1>3. CASE SecondFails
  <2>1. seen.calls <= MaxCalls /\ seen.calls <= 2 * hops + 2
    BY <1>3 DEF IInv, CallsFollowHops, SecondFails
  <2>2. /\ router' \in Routers \cup {None} /\ race' \in Races
        /\ failure' \in HTTPFailures \cup {"none", "connection"}
    BY <1>1, <1>3 DEF SecondFails, TypeOK
  <2> QED
    BY <1>3, <2>1, <2>2, InnerStep, Effort DEF SecondFails, Continue, Same, InForward
<1>4. CASE SecondBreaks
  BY <1>4, EscapeStep DEF SecondBreaks
<1> QED
  BY <1>2, <1>3, <1>4 DEF Second

(* The end of the ladder. *)
LEMMA LadderEndStep ==
    ASSUME IInv, GiveUp \/ HandleHTTPError
    PROVE  IInv'
<1>1. TypeOK /\ pc = "failed"
  BY DEF IInv, GiveUp, HandleHTTPError
<1>2. CASE GiveUp
  BY <1>1, <1>2, PlainReplyStep, SameType, Effort DEF GiveUp
<1>3. CASE HandleHTTPError
  <2> DEFINE replayable == failure # "client" \/ selected
  <2>1. PICK ks \in Marks :
           seen' = [seen EXCEPT !.marked = @ \cup ks,
                                !.failed = IF replayable THEN @ \cup Provider ELSE @]
    BY <1>3 DEF HandleHTTPError
  <2>2. ks \subseteq Keys /\ Provider \subseteq Providers
    BY <1>1, BodyType DEF Marks
  <2>3. (IF replayable THEN seen.failed \cup Provider ELSE seen.failed)
           \in SUBSET (seen.failed \cup Provider)
    OBVIOUS
  <2>4. \/ replayable /\ Hop(Provider)
        \/ /\ (replayable /\ NoHop(Provider)) \/ Same
           /\ Respond(IF Shielded THEN "503" ELSE "upstream")
    BY <1>3 DEF HandleHTTPError
  <2> HIDE DEF replayable
  <2>5. /\ seen' \in Observations
        /\ seen'.asked = seen.asked /\ seen'.failed \subseteq seen.failed \cup Provider
        /\ seen'.calls = seen.calls /\ seen'.late = seen.late
        /\ seen'.escaped = seen.escaped
        /\ seen'.credited = seen.credited /\ seen'.served = seen.served
    BY <2>1, <2>2, <2>3, Effort DEF Observations
  <2>6. CASE Hop(Provider)
    BY <1>1, <2>2, <2>5, <2>6, HopStep, Effort
  <2>7. CASE /\ NoHop(Provider) \/ Same
             /\ Respond(IF Shielded THEN "503" ELSE "upstream")
    <3>1. /\ tried' \subseteq Models /\ triedProviders' \subseteq Providers
          /\ model' = model /\ selected' = selected /\ hops' = hops
      BY <1>1, <2>2, <2>7, NoHopType, SameType
    <3>2. Respond("503") \/ Respond("upstream")
      BY <2>7
    <3> QED
      BY <1>1, <2>5, <3>1, <3>2, PlainReplyStep
  <2> QED
    BY <2>4, <2>6, <2>7
<1> QED
  BY <1>2, <1>3

-----------------------------------------------------------------------------
(* Races. *)
LEMMA RaceOngoingStep ==
    ASSUME IInv, pc \in {"race", "net"}, pc' \in {"race", "net"}, Same,
           UNCHANGED <<kind, renamed, deadline, answers, reply, router, failure>>,
           race' \in Races, seen' \in Observations,
           seen'.failed = seen.failed, seen'.calls = seen.calls, seen'.late = seen.late,
           seen'.escaped = seen.escaped,
           seen'.credited = seen.credited, seen'.served = seen.served
    PROVE  IInv'
<1>1. seen'.calls <= MaxCalls
  BY DEF IInv, CallsFollowHops
<1>2. ~InForward /\ ~InForward'
  BY DEF InForward
<1>3. /\ router' \in Routers \cup {None}
      /\ failure' \in HTTPFailures \cup {"none", "connection"}
  BY DEF IInv, TypeOK
<1> QED
  BY <1>1, <1>2, <1>3, InnerStep

LEMMA CandidateStep ==
    ASSUME IInv, NEW m \in Models, CandidateAnswers(m) \/ CandidateFails(m)
    PROVE  IInv'
<1>1. race \in Races
  BY DEF IInv, TypeOK
<1>2. race' \in Races
  <2>1. CASE CandidateAnswers(m)
    <3>1. (IF race.winner = None THEN m ELSE race.winner) \in Models \cup {None}
      BY <1>1 DEF Races
    <3>2. race' = [race EXCEPT !.running = @ \ {m},
                               !.winner = IF @ = None THEN m ELSE @]
      BY <2>1 DEF CandidateAnswers, InRace
    <3> QED
      BY <1>1, <3>1, <3>2 DEF Races
  <2>2. CASE CandidateFails(m)
    <3>1. race' = [race EXCEPT !.running = @ \ {m}, !.lost = @ \cup {m}]
      BY <2>2 DEF CandidateFails, InRace
    <3> QED
      BY <1>1, <3>1 DEF Races
  <2> QED
    BY <2>1, <2>2
<1>3. /\ pc = "race" /\ pc' = pc /\ seen' = seen /\ Same
      /\ UNCHANGED <<kind, renamed, deadline, answers, reply, router, failure>>
  BY DEF CandidateAnswers, CandidateFails, InRace, Same
<1> QED
  BY <1>2, <1>3, RaceOngoingStep, Effort

(* The winner, or a model of the safety net, answers: credit or blame. *)
LEMMA RaceAnswerStep ==
    ASSUME IInv, pc \in {"race", "net"}, NEW m \in Models, NEW asked \in SUBSET Models,
           Respond("200"), Same,
           \/ seen' = [seen EXCEPT !.asked = asked, !.served = @ \cup {m},
                                   !.credited = @ \cup {ProviderOf[m]}]
           \/ \E k \in {m, ProviderOf[m]} :
                 seen' = [seen EXCEPT !.asked = asked, !.marked = @ \cup {k}]
    PROVE  IInv'
<1>1. {m, ProviderOf[m]} \subseteq Keys /\ ProviderOf[m] \in Providers
  BY RequestAssumption DEF Keys
<1>2. /\ seen' \in Observations
      /\ seen'.calls = seen.calls /\ seen'.late = seen.late /\ seen'.escaped = seen.escaped
      /\ seen'.failed = seen.failed
      /\ \/ /\ seen'.served = seen.served \cup {m}
            /\ seen'.credited = seen.credited \cup {ProviderOf[m]}
         \/ seen'.served = seen.served /\ seen'.credited = seen.credited
  <2>1. CASE seen' = [seen EXCEPT !.asked = asked, !.served = @ \cup {m},
                                  !.credited = @ \cup {ProviderOf[m]}]
    BY <1>1, <2>1, Effort DEF Observations
  <2>2. ASSUME NEW k \in {m, ProviderOf[m]},
               seen' = [seen EXCEPT !.asked = asked, !.marked = @ \cup {k}]
        PROVE  /\ seen' \in Observations
               /\ seen'.calls = seen.calls /\ seen'.late = seen.late
               /\ seen'.escaped = seen.escaped /\ seen'.failed = seen.failed
               /\ seen'.served = seen.served /\ seen'.credited = seen.credited
    BY <1>1, <2>2, Effort DEF Observations
  <2> QED
    BY <2>1, <2>2
<1>3. CooledBeforeTimeoutReply'
  BY DEF Respond, CooledBeforeTimeoutReply
<1>4. FailedIsNotCredited'
  BY <1>2 DEF IInv, Credit, CreditComesLast, FailedIsNotCredited
<1>5. TypeOK
  BY DEF IInv
<1> QED
  BY <1>2, <1>3, <1>4, <1>5, SameType, RespondStep

LEMMA RaceEndStep ==
    ASSUME IInv, RaceWon \/ RaceLost \/ RaceExhausted
    PROVE  IInv'
<1>1. TypeOK /\ race \in Races /\ seen \in Observations
  BY DEF IInv, TypeOK
<1>2. CASE RaceWon
  <2>1. race.winner \in Models /\ pc = "race"
    BY <1>1, <1>2 DEF RaceWon, Races
  <2>2. seen.asked \in SUBSET Models
    BY <1>1 DEF Observations
  <2>3. \/ seen' = [seen EXCEPT !.credited = @ \cup {ProviderOf[race.winner]},
                                !.served = @ \cup {race.winner}]
        \/ \E k \in {race.winner, ProviderOf[race.winner]} :
              seen' = [seen EXCEPT !.marked = @ \cup {k}]
    BY <1>2 DEF RaceWon
  <2>4. \/ seen' = [seen EXCEPT !.asked = seen.asked, !.served = @ \cup {race.winner},
                                !.credited = @ \cup {ProviderOf[race.winner]}]
        \/ \E k \in {race.winner, ProviderOf[race.winner]} :
              seen' = [seen EXCEPT !.asked = seen.asked, !.marked = @ \cup {k}]
    BY <1>1, <2>3 DEF Observations
  <2> QED
    BY <1>2, <2>1, <2>2, <2>4, RaceAnswerStep DEF RaceWon
<1>3. CASE RaceLost
  <2>1. PICK blamed \in SUBSET (race.lost \cup {ProviderOf[m] : m \in race.lost}) :
           seen' = [seen EXCEPT !.marked = @ \cup blamed]
    BY <1>3 DEF RaceLost
  <2>2. blamed \subseteq Keys
    BY <1>1, RequestAssumption DEF Races, Keys
  <2>3. /\ seen' \in Observations
        /\ seen'.failed = seen.failed /\ seen'.calls = seen.calls
        /\ seen'.late = seen.late /\ seen'.escaped = seen.escaped
        /\ seen'.credited = seen.credited /\ seen'.served = seen.served
    BY <1>1, <2>1, <2>2 DEF Observations
  <2> QED
    BY <1>1, <1>3, <2>3, RaceOngoingStep DEF RaceLost, Continue, Same
<1>4. CASE RaceExhausted
  BY <1>1, <1>4, PlainReplyStep, SameType DEF RaceExhausted
<1> QED
  BY <1>2, <1>3, <1>4

LEMMA ExtraStep ==
    ASSUME IInv, NEW m \in Models, ExtraAnswers(m) \/ ExtraFails(m)
    PROVE  IInv'
<1>1. race \in Races /\ seen \in Observations /\ seen.asked \cup {m} \in SUBSET Models
  BY DEF IInv, TypeOK, Observations
<1>2. CASE ExtraAnswers(m)
  BY <1>1, <1>2, RaceAnswerStep DEF ExtraAnswers
<1>3. CASE ExtraFails(m)
  <2>1. PICK ks \in {{}, {m}, {ProviderOf[m]}} :
           seen' = [seen EXCEPT !.asked = @ \cup {m}, !.marked = @ \cup ks]
    BY <1>3 DEF ExtraFails
  <2>2. ks \subseteq Keys
    BY RequestAssumption DEF Keys
  <2>3. /\ seen' \in Observations
        /\ seen'.failed = seen.failed /\ seen'.calls = seen.calls
        /\ seen'.late = seen.late /\ seen'.escaped = seen.escaped
        /\ seen'.credited = seen.credited /\ seen'.served = seen.served
    BY <1>1, <2>1, <2>2 DEF Observations
  <2>4. race' = [race EXCEPT !.extras = @ \cup {m}]
    BY <1>3 DEF ExtraFails, InRace
  <2>5. race' \in Races
    BY <1>1, <2>4 DEF Races
  <2> QED
    BY <1>3, <2>3, <2>5, RaceOngoingStep DEF ExtraFails, InRace, Same
<1> QED
  BY <1>2, <1>3

-----------------------------------------------------------------------------
LEMMA StutterStep ==
    ASSUME IInv, UNCHANGED vars
    PROVE  IInv'
<1> USE DEF vars, perRequest
<1>1. TypeOK'
  BY DEF IInv, TypeOK
<1>2. AnsweredAtTheEnd' /\ CallsFollowHops' /\ LateCallIsLast'
  BY DEF IInv, AnsweredAtTheEnd, CallsFollowHops, LateCallIsLast
<1>3. EverythingTried' /\ NextIsFresh'
  BY DEF IInv, EverythingTried, NextIsFresh, InForward, Body
<1> QED
  BY <1>1, <1>2, <1>3
  DEF IInv, CooledBeforeTimeoutReply, Credit, CreditComesLast, FailedIsNotCredited, InForward,
      Body, Provider

(* Every step preserves the invariant. *)
LEMMA NextIInv == IInv /\ [Next]_vars => IInv'
<1> SUFFICES ASSUME IInv, [Next]_vars PROVE IInv'
  OBVIOUS
<1>1. CASE Race
  BY <1>1, CandidateStep, RaceEndStep, ExtraStep DEF Race
<1>2. CASE Handle
  BY <1>1, <1>2, ForwardStep, PrimaryStep, SecondStep, LadderEndStep DEF Handle
<1> QED
  BY <1>2, ArriveStep, ReconnectStep, ExpireStep, StutterStep DEF Next

(* The state of a request is well formed. *)
THEOREM TypeCorrect == Spec => []TypeOK
<1>1. IInv => TypeOK
  BY DEF IInv
<1> QED
  BY <1>1, InitIInv, NextIInv, PTL DEF Spec

(* A request that is over was answered exactly once, or an exception       *)
(* escaped (do_POST, _forward, _race_forward).                             *)
THEOREM OneAnswer == Spec => []AnsweredOnce
<1>1. IInv => AnsweredOnce
  BY DEF IInv, TypeOK, Observations, AnsweredAtTheEnd, AnsweredOnce
<1> QED
  BY <1>1, InitIInv, NextIInv, PTL DEF Spec

(* Two calls per hop, and one call at most after the deadline              *)
(* (_may_fallback).                                                        *)
THEOREM BoundedEffort == Spec => []EffortIsBounded
<1>1. IInv => EffortIsBounded
  BY DEF IInv, CallsFollowHops, LateCallIsLast, EffortIsBounded
<1> QED
  BY <1>1, InitIInv, NextIInv, PTL DEF Spec

(* A hop leads to a model not asked yet, of a provider that has not failed *)
(* (_next_fallback_model).                                                 *)
THEOREM FreshHops == Spec => HopsAreFresh
<1>1. IInv /\ pc = "forward" /\ model # None
        => model \notin seen.asked /\ ProviderOf[model] \notin seen.failed
  BY DEF IInv, NextIsFresh
<1>2. IInv /\ [Next]_vars
        => [pc = "forward" /\ pc' = "primary" /\ model # None
              => model \notin seen.asked /\ ProviderOf[model] \notin seen.failed]_vars
  BY <1>1
<1> QED
  BY <1>2, InitIInv, NextIInv, PTL DEF Spec, HopsAreFresh

(* A 504 for a model that was asked follows its cooldown                   *)
(* (_on_upstream_timeout).                                                 *)
THEOREM CooledFirst == Spec => []CooledBeforeTimeoutReply
<1>1. IInv => CooledBeforeTimeoutReply
  BY DEF IInv
<1> QED
  BY <1>1, InitIInv, NextIInv, PTL DEF Spec

(* A provider that failed a request and was left for another one is not    *)
(* credited by it, so that its cooldown stands                             *)
(* (_record_upstream_health, _next_fallback_model).                        *)
THEOREM FailedUncredited == Spec => []FailedIsNotCredited
<1>1. IInv => FailedIsNotCredited
  BY DEF IInv, Credit
<1> QED
  BY <1>1, InitIInv, NextIInv, PTL DEF Spec
=============================================================================
