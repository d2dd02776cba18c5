------------------------------- MODULE ErrorFeed -------------------------------
(***************************************************************************)
(* What the log monitors (daemon.py) promise the health registry: of the   *)
(* calls that fail in the gateway it hears what it would hear from one     *)
(* observer that may repeat itself once, and that begins afresh with the   *)
(* calls it was interrupted at.                                            *)
(***************************************************************************)
EXTENDS Naturals

CONSTANTS
    Calls,      \* calls of the gateway
    Repeats     \* the most a failure is reported without an interruption

VARIABLES
    failed,     \* calls that failed while a monitor was running
    reports     \* reports[c]: how often mark_error was called for it since
                \* the observer last began with it

vars == <<failed, reports>>

Init == failed = {} /\ reports = [c \in Calls |-> 0]

Fail(c) == /\ failed' = failed \cup {c}
           /\ UNCHANGED reports

Report(c) == /\ c \in failed /\ reports[c] < Repeats
             /\ reports' = [reports EXCEPT ![c] = @ + 1]
             /\ UNCHANGED failed

Afresh(S) == /\ reports' = [c \in Calls |-> IF c \in S THEN 0 ELSE reports[c]]
             /\ UNCHANGED failed

Next == \/ \E c \in Calls : Fail(c) \/ Report(c)
        \/ \E S \in SUBSET Calls : Afresh(S)

Spec == Init /\ [][Next]_vars

(* No failure goes unheard. *)
NoneLost == \A c \in Calls : c \in failed ~> reports[c] > 0
=============================================================================
