------------------------------ MODULE ErrorParser ------------------------------
(***************************************************************************)
(* error_parser.py: what the daemon makes of an error that the gateway     *)
(* logged, up to the quarantine CooldownCalculator gives it.  A tick of    *)
(* Cooldown is half a minute here.                                         *)
(*                                                                         *)
(* A text is the set of the patterns it matches; rows of ERROR_PATTERNS    *)
(* that follow each other and decide the same are one row here.  What the  *)
(* text says of when to come back is a number of seconds (0: nothing).     *)
(*                                                                         *)
(* The registry's entries are reduced to their counts of failures.  What   *)
(* the registry has too has a name of its own here: both are read together *)
(* in HealthRegistryProofs.                                                *)
(***************************************************************************)
EXTENDS Cooldown, Sequences

CONSTANTS
    Texts,          \* sets of rows, the texts that gateways are known to log
    Hints,          \* seconds
    HttpStatuses

(* The model an error tells of; "free" is one of the :free tier. *)
Tiers == {"free", "plain"}
Scopes == Tiers \cup {"provider"}

-----------------------------------------------------------------------------
(* ERROR_PATTERNS, the first that matches decides.                         *)

Row(type, minutes) == [type |-> type, minutes |-> minutes, permanent |-> FALSE,
                       specific |-> FALSE, global |-> FALSE]
OfModel(r)   == [r EXCEPT !.specific = TRUE]
Permanent(r) == [r EXCEPT !.permanent = TRUE]
Day == 24 * 60

LimitRows == <<
    OfModel(Row("rate_limit_tpd", 90)),         \*  1 try again in 1h30m
    OfModel(Row("rate_limit_rpm", 1)),          \*  2 try again in 20s
    Row("rate_limit_until", 60),                \*  3 until a time
    Row("daily_free_exhausted", Day),           \*  4
    Row("monthly_limit", 60),                   \*  5
    OfModel(Row("weekly_limit", 7 * Day)),      \*  6
    Row("daily_quota_exceeded", 60),            \*  7
    Row("generic_429", 15),                     \*  8 exceeded your rate limit
    OfModel(Row("rate_limit_rpm", 5)) >>        \*  9 Rate limit reached for model

AccessRows == <<
    Permanent(Row("payment_required", 0)),             \* 10
    Row("invalid_subscription", 60),                   \* 11
    OfModel(Permanent(Row("subscription_level", 0))),  \* 12
    Row("subscription_level", Day),                    \* 13
    Permanent(Row("paid_required", 0)),                \* 14
    Row("no_credit", Day),                             \* 15
    Row("no_credentials", Day),                        \* 16
    Permanent(Row("auth_invalid", 0)) >>               \* 17

ModelRows == <<
    Row("request_invalid", 0),                         \* 18
    OfModel(Row("function_not_found", 60)),            \* 19
    OfModel(Row("model_not_found", Day)),              \* 20
    OfModel(Row("model_deprecated", Day)),             \* 21
    OfModel(Row("model_not_supported", Day)),          \* 22
    OfModel(Row("model_unavailable", 15)) >>           \* 23

SizeRows == <<
    OfModel(Row("context_length", 15)),                \* 24
    OfModel(Row("context_length_nvidia", 15)),         \* 25
    OfModel(Row("daily_free_exhausted", Day)),         \* 26 tokens per day
    OfModel(Row("rate_limit_rpm", 5)),                 \* 27 tokens per minute
    OfModel(Row("context_length", 15)) >>              \* 28 Request too large

GenericRows == <<
    [Row("gateway_quota", 15) EXCEPT !.global = TRUE], \* 29 ... try again later
    Row("generic_429", 15),                            \* 30 Rate limit exceeded
    Row("fetch_failed", 5),                            \* 31
    Row("generic_500", 2),                             \* 32
    Row("worker_request_limit", 60) >>                 \* 33

Rows == LimitRows \o AccessRows \o ModelRows \o SizeRows \o GenericRows

First(text) == CHOOSE i \in text : \A j \in text : i <= j

Structural == {"invalid_subscription", "subscription_level", "no_credit", "no_credentials",
               "payment_required", "paid_required", "auth_invalid", "model_not_found",
               "model_deprecated", "model_not_supported"}

(* The jitter is at most fifteen percent.                                  *)
ASSUME ParserAssumption ==
    /\ Texts \subseteq SUBSET DOMAIN Rows
    /\ Hints \subseteq Nat /\ HttpStatuses \subseteq Nat
    /\ JitterPercents \subseteq 85 .. 115

-----------------------------------------------------------------------------
(* parse_error.  A result also carries the model it is about.              *)

Unknown(status) ==
    CASE status \in 400 .. 499 -> Row("unknown_4xx", 15)
      [] status = 500          -> Row("unknown_500", 5)
      [] status \in 501 .. 599 -> Row("unknown_5xx", 5)
      [] OTHER                 -> Row("unknown", 60)

Decide(item) ==
    IF item.status = 429 /\ item.tiny THEN Row("generic_429", 15)
    ELSE IF item.text # {} THEN Rows[First(item.text)]
    ELSE Unknown(item.status)

(* A faulty conversion, that drops the hours. *)
HoursLost(seconds) == (seconds % 3600) \div 60

(* _seconds_to_cooldown: whole minutes, so that what is under one is none. *)
HintMinutes(seconds) == (IF seconds < 30 THEN 30 ELSE seconds) \div 60

(* A faulty override, that forgets which types last. *)
AlwaysHint(r, hint) ==
    IF hint = 0 \/ r.permanent THEN r ELSE [r EXCEPT !.minutes = HintMinutes(hint)]

(* A hint replaces a transient cooldown and only ever lengthens one of a   *)
(* structural type.                                                        *)
Hinted(r, hint) ==
    IF hint = 0 \/ r.permanent \/ (r.type \in Structural /\ HintMinutes(hint) <= r.minutes)
      THEN r
      ELSE [r EXCEPT !.minutes = HintMinutes(hint)]

(* A generic 429, or a 4xx that no pattern matches, of a :free model is    *)
(* the model's, not the provider's; other rate limits are as their rows    *)
(* say.                                                                    *)
Scoped(r, model) ==
    [r EXCEPT !.specific = @ \/ (model = "free" /\ r.type \in {"generic_429", "unknown_4xx"})]

(* _postprocess_error_result *)
Postprocess(r, model, hint) == Scoped(Hinted(r, hint), model)

(* parse_log_line and parse_request_detail_row: parse_error knows a model  *)
(* only from the text; the line or the row may name one, and what was      *)
(* decided is gone over again.                                             *)
Once(item) == Postprocess(Decide(item), item.named, item.hint)

Model(item) == IF item.named # "none" THEN item.named ELSE item.from

Parse(item) == Postprocess(Once(item), Model(item), item.hint)

-----------------------------------------------------------------------------
(* What is logged.  named: the model the text tells; from: the model the   *)
(* line or the row tells.  A cross line tells none, a combo line has no    *)
(* text but the one _COMBO_STATUS_BODY puts in its place.                  *)

Known == Tiers \cup {"none"}

CrossLines == [status : HttpStatuses, text : Texts, tiny : {FALSE}, hint : Hints,
               named : Known, from : {"none"}]
ModelLines == [status : HttpStatuses, text : Texts, tiny : {FALSE}, hint : Hints,
               named : {"none"}, from : Tiers]
TinyLines  == [status : HttpStatuses, text : {{}}, tiny : {TRUE}, hint : {0},
               named : {"none"}, from : Known]

ComboText(status) ==
    CASE status = 402 -> {5}
      [] status = 404 -> {20}
      [] status = 410 -> {21}
      [] status \in {500, 502, 503} -> {32}
      [] OTHER -> {}

ComboLines == {[status |-> s, text |-> ComboText(s), tiny |-> s = 429, hint |-> 0,
                named |-> "none", from |-> f] : s \in HttpStatuses, f \in Known}

Items == CrossLines \cup ModelLines \cup TinyLines \cup ComboLines

-----------------------------------------------------------------------------
VARIABLES
    failures,   \* failures[s]: in a row, of the provider or of a model
    item,       \* the error being handled
    mark        \* what mark_error made of it

parserVars == <<failures, item, mark>>

Nothing == [at |-> "idle"]

(* What the error is to CooldownCalculator. *)
KindOf(r) ==
    CASE r.permanent -> "access"
      [] ~r.permanent /\ r.type \in {"fetch_failed", "unknown_500", "generic_500"} -> "transport"
      [] ~r.permanent /\ r.type \in {"generic_429", "rate_limit_rpm", "rate_limit_until",
            "rate_limit_tpd", "gateway_quota", "daily_free_exhausted", "daily_quota_exceeded",
            "worker_request_limit", "weekly_limit", "monthly_limit"} -> "rate_limit"
      [] r.type = "context_length" -> "request_scoped"
      [] r.type = "context_length_nvidia" -> "request_variant"
      [] OTHER -> "other"

AsError(r) == [kind |-> KindOf(r), base |-> 2 * r.minutes]

ScopeOf(r, i) == IF r.specific /\ Model(i) # "none" THEN Model(i) ELSE "provider"

ParserTypeOK ==
    /\ failures \in [Scopes -> 0 .. MaxFailures]
    /\ item = Nothing \/ item \in Items
    /\ mark = Nothing \/ (mark.result.minutes \in Nat /\ mark.scope \in Scopes \cup {"gate"}
                            /\ mark.quarantine.left \in Nat)

ParserInit == failures = [s \in Scopes |-> 0] /\ item = Nothing /\ mark = Nothing

Log(i) == item = Nothing /\ item' = i /\ UNCHANGED <<failures, mark>>

(* mark_error of a parsed error.  An error of the whole gateway shuts its  *)
(* gate, for longer the more failures the provider already has, and        *)
(* touches no entry.  (It is a rate limit, so that the gate always has an  *)
(* end.)                                                                   *)
Gate == LET r == Parse(item) IN
        /\ item # Nothing /\ mark = Nothing /\ r.global
        /\ \E q \in Calculate(AsError(r), failures["provider"]) :
              mark' = [result |-> r, scope |-> "gate", quarantine |-> q]
        /\ UNCHANGED <<failures, item>>

Mark == LET r == Parse(item)
            s == ScopeOf(r, item) IN
        /\ item # Nothing /\ mark = Nothing /\ ~r.global
        /\ \E q \in Calculate(AsError(r), failures[s]) :
              mark' = [result |-> r, scope |-> s, quarantine |-> q]
        /\ failures' = [failures EXCEPT ![s] = Failures(AsError(r), @)]
        /\ UNCHANGED item

Forget == mark # Nothing /\ item' = Nothing /\ mark' = Nothing /\ UNCHANGED failures

(* mark_healthy *)
Recover(s) == /\ item = Nothing /\ failures[s] > 0
              /\ failures' = [failures EXCEPT ![s] = 0]
              /\ UNCHANGED <<item, mark>>

ParserNext == \/ \E i \in Items : Log(i)
              \/ Gate \/ Mark \/ Forget
              \/ \E s \in Scopes : Recover(s)

ParserSpec == ParserInit /\ [][ParserNext]_parserVars

-----------------------------------------------------------------------------
Marked == mark # Nothing

(* What a text decides for good, or for a structural reason, the hint in   *)
(* it never takes back, however often the line is gone over                *)
(* (error_parser.py 167-197, 698).                                         *)
HintsNeverShorten ==
    Marked /\ Decide(item).type \in Structural
       => /\ mark.result.minutes >= Decide(item).minutes
          /\ Decide(item).permanent => mark.quarantine = Forever

(* The first transient error keeps the provider or the model away for as   *)
(* long as the text asks, to the minute, less the jitter and the tick it   *)
(* is rounded by: a hint applied twice is one (error_parser.py 174-186).   *)
HintsAreHonoured ==
    Marked /\ item.hint > 0 /\ KindOf(mark.result) \notin {"transport", "access"}
           /\ mark.scope # "gate" /\ failures[mark.scope] = 1
       => 30 * 100 * (mark.quarantine.left + 1) >= 85 * (item.hint - 59)

(* A generic rate limit, or a 4xx that no pattern matches, of a :free      *)
(* model never counts against its provider, whether the text, the line or  *)
(* the row names the model (error_parser.py 191-195).                      *)
FreeTierIsScoped ==
    [][mark' # mark /\ mark' # Nothing /\ Model(item) = "free"
         /\ mark'.result.type \in {"generic_429", "unknown_4xx"}
         => failures'["provider"] = failures["provider"]]_parserVars

(* A request the client got wrong keeps nobody away                        *)
(* (error_parser.py 321-325).                                              *)
ClientErrorsCostNothing ==
    Marked /\ mark.result.type = "request_invalid" /\ item.hint = 0
       => ~mark.quarantine.permanent /\ mark.quarantine.left = 0
=============================================================================
