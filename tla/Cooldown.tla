------------------------------- MODULE Cooldown -------------------------------
(***************************************************************************)
(* CooldownCalculator (cooldown.py): what one more error makes of a        *)
(* provider's or a model's quarantine.  Durations are in ticks.  The       *)
(* program has dozens of error types; the calculator tells five kinds      *)
(* apart, and a sixth is permanent:                                        *)
(*   rate_limit      a member of RATE_LIMIT_TYPES;                         *)
(*   request_scoped  a member of REQUEST_SCOPED_TYPES (context_length ...); *)
(*   request_variant a type that only begins like one                      *)
(*                   (context_length_nvidia): calculate takes it for       *)
(*                   request-scoped, the registry's set lookups do not;    *)
(*   transport       a failed fetch, a timeout, a bare 500;                *)
(*   access          a type the parser marks permanent (paid_required,     *)
(*                   auth_invalid, subscription_level ...);                *)
(*   other           every other type.                                     *)
(***************************************************************************)
EXTENDS Integers

CONSTANTS
    MaxFailures,            \* failures in a row that disable
    MaxCooldown,            \* the cap of the backoff
    MinCooldown,            \* the shortest backoff that is not zero
    RequestScopedCooldown,  \* at MaxFailures, for a request-scoped type
    TransportShort,         \* the first transport error
    TransportLong,          \* the following ones
    JitterPercents          \* what a duration is multiplied by, in percent

ASSUME CooldownAssumption ==
    /\ MaxFailures \in Nat /\ MaxFailures > 2   \* transport errors stop counting at 2
    /\ {MaxCooldown, MinCooldown, RequestScopedCooldown, TransportShort,
        TransportLong} \subseteq Nat \ {0}
    /\ JitterPercents # {} /\ JitterPercents \subseteq Nat

Kinds == {"rate_limit", "request_scoped", "request_variant", "transport",
          "access", "other"}

(* An error as error_parser hands it over, as far as calculate reads it. *)
IsError(e) == /\ e.kind \in Kinds
              /\ e.base \in Nat           \* hours and minutes of the type

Lower(a, b) == IF a <= b THEN a ELSE b

(* The failure count one more error leaves, counted up to MaxFailures:     *)
(* beyond it, nothing in the program depends on the number.                *)
Failures(e, failures) ==
    LET n == Lower(failures + 1, MaxFailures) IN
    IF e.kind = "transport" THEN Lower(n, 2) ELSE n

Quarantine(duration) == [permanent |-> FALSE, left |-> duration]
Forever              == [permanent |-> TRUE,  left |-> 0]

(* What the n-th failure multiplies the base duration by. *)
Doublings[n \in 0 .. MaxFailures] == IF n <= 1 THEN 1 ELSE 2 * Doublings[n - 1]

(* The doubled duration is capped; the first one is kept, capped or not.   *)
Backoff(base, n) ==
    LET d == IF n > 1 THEN Lower(base * Doublings[n], MaxCooldown) ELSE base IN
    IF 0 < d /\ d < MinCooldown THEN MinCooldown ELSE d

Jittered(duration) == {(duration * j) \div 100 : j \in JitterPercents}

(* calculate: the quarantines an error may lead to after `failures'        *)
(* failures in a row.  The code also receives the end of the present       *)
(* cooldown and means to keep it when it is later, but mark_error passes a *)
(* datetime where a string is parsed, the TypeError is swallowed, and the  *)
(* present cooldown never matters.                                         *)
Calculate(e, failures) ==
    LET n == Failures(e, failures) IN
    CASE e.kind = "transport" ->
            {Quarantine(IF n <= 1 THEN TransportShort ELSE TransportLong)}
      [] e.kind # "transport" /\ n >= MaxFailures ->
            CASE e.kind = "rate_limit" -> {Quarantine(MaxCooldown)}
              [] e.kind \in {"request_scoped", "request_variant"} ->
                    {Quarantine(RequestScopedCooldown)}
              [] OTHER -> {Forever}
      [] e.kind # "transport" /\ n < MaxFailures ->
            IF e.kind = "access"
              THEN {Forever}
              ELSE {Quarantine(d) : d \in Jittered(Backoff(e.base, n))}

(* is_expired, for an end that is a time and not None. *)
IsExpired(left) == left = 0
=============================================================================
