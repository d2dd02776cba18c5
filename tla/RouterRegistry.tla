---------------------------- MODULE RouterRegistry ----------------------------
(***************************************************************************)
(* What the router registry (router_registry.py) keeps of one downstream   *)
(* router, and what its locked methods make of it.  A router is lightweight *)
(* when it is probed at a liveness page and not at its model catalog.      *)
(*                                                                         *)
(* cooldown_until is written and persisted but never read, so it is left   *)
(* out; failures are counted up to Strikes, beyond which only the length   *)
(* of that cooldown depends on them.                                       *)
(***************************************************************************)
EXTENDS Naturals

CONSTANTS Strikes       \* ROUTER_UNHEALTHY_STRIKES

ASSUME StrikesAssumption == Strikes \in Nat \ {0}

RouterStatuses == {"unknown", "probing", "healthy", "cooldown"}

(* probesOk is consecutive_probes_ok. *)
RouterStates == [status : RouterStatuses, probesOk : 0 .. 1, failures : 0 .. Strikes]

NewRouter == [status |-> "unknown", probesOk |-> 0, failures |-> 0]

(* A faulty mark_healthy, that takes one probe for enough. *)
AtOnce(r, lightweight) == [status |-> "healthy", probesOk |-> 0, failures |-> 0]

(* A faulty one, that forgets a success it has not acted on yet. *)
NeverEnough(r, lightweight) ==
    [status   |-> IF lightweight \/ r.status = "healthy" THEN "healthy" ELSE "probing",
     probesOk |-> 0,
     failures |-> 0]

(* And one that counts on after it has acted. *)
CountsOn(r, lightweight) ==
    [status   |-> IF lightweight \/ r.probesOk > 0 THEN "healthy" ELSE "probing",
     probesOk |-> r.probesOk + 1,
     failures |-> 0]

(* mark_healthy: a router that is not in use yet needs a second success,   *)
(* unless it is lightweight.                                               *)
MarkedHealthy(r, lightweight) ==
    LET proved == \/ r.status = "healthy"
                  \/ r.status = "probing" /\ r.probesOk = 1
                  \/ r.status # "probing" /\ lightweight
    IN  [status   |-> IF proved THEN "healthy" ELSE "probing",
         probesOk |-> IF proved THEN 0 ELSE 1,
         failures |-> 0]

(* A faulty mark_unhealthy, that only counts. *)
OnlyCounted(r) == [r EXCEPT !.failures = IF @ < Strikes THEN @ + 1 ELSE @]

(* mark_unhealthy: below Strikes failures in a row only the count changes. *)
MarkedUnhealthy(r) ==
    LET n == IF r.failures < Strikes THEN r.failures + 1 ELSE r.failures
    IN  [r EXCEPT !.failures = n, !.status = IF n = Strikes THEN "cooldown" ELSE @]

(* load_state after save_state: the health of a lightweight router is not  *)
(* restored, but its failures are.                                         *)
Loaded(r, lightweight) ==
    IF lightweight THEN [NewRouter EXCEPT !.failures = r.failures] ELSE r
=============================================================================
