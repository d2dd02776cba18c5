------------------------------- MODULE Breaker -------------------------------
(***************************************************************************)
(* The circuit breaker the health registry keeps for one provider          *)
(* (health_registry.py: _get_cb, _clean_old_failures, record_cb_failure,   *)
(* record_cb_success, can_execute_cb, release_cb and the part of           *)
(* _migrate_circuit_breakers that a file this program wrote can reach).    *)
(* Each method runs under the registry's lock from its first line to its   *)
(* last, so each is one function from a breaker to the breaker it leaves.  *)
(*                                                                         *)
(* Times are ages, counted in ticks and saturating where the code stops    *)
(* telling them apart.  The code keeps a list of failure timestamps and    *)
(* compares the number of those younger than CBWindow with                 *)
(* CBFailureThreshold; only the newest CBFailureThreshold of them can      *)
(* decide that, so `failures' holds their ages, newest first, and an age   *)
(* of CBWindow stands for a failure that is too old or never happened.     *)
(* The code removes old timestamps lazily, but always before it counts.    *)
(* last_failure is only displayed and is left out.                         *)
(***************************************************************************)
EXTENDS Integers

CONSTANTS
    CBFailureThreshold,   \* failures in the window that trip a closed breaker
    CBSuccessThreshold,   \* successes in half_open that close it
    CBWindow,             \* ticks a failure counts
    CBOpenTimeout,        \* ticks in open before a half_open attempt
    CBHalfOpenMax         \* slots of a half_open breaker

ASSUME BreakerAssumption ==
    /\ CBFailureThreshold \in Nat \ {0}
    /\ CBSuccessThreshold \in Nat \ {0}
    /\ CBWindow \in Nat \ {0}
    /\ CBOpenTimeout \in Nat \ {0}
    /\ CBHalfOpenMax \in Nat \ {0}

Recent == 1 .. CBFailureThreshold

Breakers == [state       : {"closed", "open", "half_open"},
             failures    : [Recent -> 0 .. CBWindow],
             successes   : 0 .. CBSuccessThreshold - 1,
             sinceChange : 0 .. CBOpenTimeout,
             halfOpen    : 0 .. CBHalfOpenMax]

NoFailures == [i \in Recent |-> CBWindow]

(* The breaker of a provider nobody has asked about yet. *)
NewBreaker == [state       |-> "closed",
               failures    |-> NoFailures,
               successes   |-> 0,
               sinceChange |-> 0,
               halfOpen    |-> 0]

-----------------------------------------------------------------------------
OneMore(n, bound) == IF n < bound THEN n + 1 ELSE bound

(* One more tick: every timestamp the breaker holds is one tick older. *)
Aged(cb) ==
    [cb EXCEPT !.failures = [i \in Recent |-> OneMore(@[i], CBWindow)],
               !.sinceChange = OneMore(@, CBOpenTimeout)]

-----------------------------------------------------------------------------
(* The failures of cb with one that happens now in front of them. *)
WithFailure(cb) ==
    [i \in Recent |-> IF i = 1 THEN 0 ELSE cb.failures[i - 1]]

(* CBFailureThreshold failures, all of them inside the window. *)
TooMany(failures) == failures[CBFailureThreshold] < CBWindow

(* A faulty one, in which a failure does not re-open a half_open breaker. *)
FailureOverlooked(cb) ==
    LET counted == [cb EXCEPT !.failures = WithFailure(cb)] IN
    IF cb.state = "closed" /\ TooMany(WithFailure(cb))
      THEN [counted EXCEPT !.state = "open", !.sinceChange = 0]
      ELSE counted

(* record_cb_failure: the threshold trips a closed breaker, any failure    *)
(* re-opens a half_open one, an open one only remembers the failure.       *)
AfterFailure(cb) ==
    LET counted == [cb EXCEPT !.failures = WithFailure(cb)] IN
    CASE cb.state = "closed" /\ TooMany(WithFailure(cb)) ->
            [counted EXCEPT !.state = "open", !.sinceChange = 0]
      [] cb.state = "half_open" ->
            [counted EXCEPT !.state = "open", !.sinceChange = 0,
                            !.successes = 0, !.halfOpen = 0]
      [] OTHER -> counted

Decremented(n) == IF n > 0 THEN n - 1 ELSE 0

(* Two faulty ones: closing forgets no failure; one success too many is    *)
(* waited for.                                                             *)
FailuresKept(cb) ==
    IF cb.state # "half_open" THEN cb
    ELSE IF cb.successes + 1 >= CBSuccessThreshold
      THEN [cb EXCEPT !.state = "closed", !.successes = 0, !.sinceChange = 0,
                      !.halfOpen = Decremented(@)]
      ELSE [cb EXCEPT !.successes = @ + 1, !.halfOpen = Decremented(@)]

NeverEnough(cb) ==
    IF cb.state = "half_open" /\ cb.successes + 1 < CBSuccessThreshold
      THEN [cb EXCEPT !.successes = @ + 1, !.halfOpen = Decremented(@)]
      ELSE cb

(* record_cb_success: in half_open a success also gives a slot back, and   *)
(* the last one needed closes the breaker and forgets the failures.        *)
AfterSuccess(cb) ==
    CASE cb.state = "half_open" /\ cb.successes + 1 >= CBSuccessThreshold ->
            [cb EXCEPT !.state = "closed", !.failures = NoFailures,
                       !.successes = 0, !.sinceChange = 0,
                       !.halfOpen = Decremented(@)]
      [] cb.state = "half_open" /\ cb.successes + 1 < CBSuccessThreshold ->
            [cb EXCEPT !.successes = @ + 1, !.halfOpen = Decremented(@)]
      [] OTHER -> cb

(* A faulty one, off by one slot. *)
OneSlotMore(cb) ==
    \/ cb.state = "closed"
    \/ cb.state = "open" /\ cb.sinceChange >= CBOpenTimeout
    \/ cb.state = "half_open" /\ cb.halfOpen <= CBHalfOpenMax

(* What can_execute_cb answers. *)
CanExecute(cb) ==
    \/ cb.state = "closed"
    \/ cb.state = "open" /\ cb.sinceChange >= CBOpenTimeout
    \/ cb.state = "half_open" /\ cb.halfOpen < CBHalfOpenMax

Slot(acquire) == IF acquire THEN 1 ELSE 0

(* What can_execute_cb leaves behind: an open breaker whose timeout has    *)
(* passed becomes half_open even for a caller that only looks, and         *)
(* `acquire' takes a slot of a half_open one.                              *)
AfterCheck(cb, acquire) ==
    CASE cb.state = "open" /\ CanExecute(cb) ->
            [cb EXCEPT !.state = "half_open", !.successes = 0,
                       !.sinceChange = 0, !.halfOpen = Slot(acquire)]
      [] cb.state = "half_open" /\ CanExecute(cb) ->
            [cb EXCEPT !.halfOpen = @ + Slot(acquire)]
      [] OTHER -> cb

(* A faulty one, that returns no slot. *)
ReleaseForgotten(cb) == cb

(* release_cb: return a slot of a half_open breaker. *)
AfterRelease(cb) ==
    IF cb.state = "half_open" THEN [cb EXCEPT !.halfOpen = Decremented(@)]
                              ELSE cb

(* _migrate_circuit_breakers: the counters of a half_open breaker belong   *)
(* to the process that is gone.                                            *)
AfterLoad(cb) ==
    IF cb.state = "half_open" THEN [cb EXCEPT !.successes = 0, !.halfOpen = 0]
                              ELSE cb
=============================================================================
