----------------------------- MODULE Availability -----------------------------
(***************************************************************************)
(* What the health registry (health_registry.py) promises of the names it  *)
(* keeps out of use: one failure puts away one name; what passes is never  *)
(* locked; what is locked for a final cause stays so until somebody        *)
(* succeeds with it or reports something else; and neither time, cleanup   *)
(* nor a restart holds anything against a name that was free.              *)
(***************************************************************************)
EXTENDS Naturals

CONSTANTS
    Names,      \* providers and models
    Limit       \* failures that lock

VARIABLE
    record      \* record[k]: the standing of k, why, and the failures counted

(* A passing cause never locks, a lasting one by the number of failures, a *)
(* final one at once.                                                      *)
Causes == {"passing", "lasting", "final"}

Free == [standing |-> "free", cause |-> "none", strikes |-> 0]

Init == record = [k \in Names |-> Free]

(* What a reported failure makes of a record; it counts once at most. *)
Struck(x) ==
    {y \in [standing : {"resting", "locked"}, cause : Causes, strikes : 1 .. Limit] :
        /\ y.strikes <= x.strikes + 1
        /\ y.cause = "passing" => y.standing = "resting"
        /\ y.cause = "lasting" /\ y.standing = "locked" => y.strikes = Limit
        /\ y.cause = "final" => y.standing = "locked"}

(* A failure is reported of k, and touches nothing else. *)
Strike(k) == /\ record' = [record EXCEPT ![k] = record'[k]]
             /\ record'[k] \in Struck(record[k])

(* A call succeeds, for a provider and at most one model of it. *)
Pardon(p, m) ==
    record' = [k \in Names |-> IF k \in {p, m} THEN Free ELSE record[k]]

(* What is over when its time has passed: a rest, which ends in freedom or *)
(* in a lock when the failures are enough and their cause may lock.        *)
Reviewed(x) ==
    {x} \cup {y \in {Free, [x EXCEPT !.standing = "locked"]} :
                 /\ x.standing = "resting"
                 /\ y # Free => x.cause # "passing" /\ x.strikes = Limit}

(* What a new process makes of what it reads: some locks are rests again. *)
Reloaded(x) ==
    {x} \cup {y \in {[x EXCEPT !.standing = "resting"]} :
                 x.standing = "locked" /\ x.cause # "final"}

Review == /\ record' = [k \in Names |-> record'[k]]
          /\ \A k \in Names : record'[k] \in Reviewed(record[k])

Reload == /\ record' = [k \in Names |-> record'[k]]
          /\ \A k \in Names : record'[k] \in Reloaded(record[k])

Next == \/ Review
        \/ Reload
        \/ \E k \in Names : Strike(k)
        \/ \E p \in Names, m \in Names : Pardon(p, m)

Spec == Init /\ [][Next]_record
=============================================================================
