---------------------------- MODULE RecoveryProber ----------------------------
(***************************************************************************)
(* Three threads that decide over the provider entries of one health       *)
(* registry: the periodic cleanup and the recovery prober (daemon.py), and *)
(* provider discovery (provider_discovery.py).  The last two ask the       *)
(* gateway without the registry's lock and write what they learnt          *)
(* afterwards, while requests, log monitors and the model prober go on     *)
(* reporting errors and successes.                                         *)
(*                                                                         *)
(* Of an entry only what the probers read is kept.  Timestamps are told    *)
(* apart and nothing else, durations have passed or have not, and failures *)
(* have reached MAX_FAILURES or have not.                                  *)
(***************************************************************************)
EXTENDS Naturals, Sequences

CONSTANTS
    Providers,
    TestModels,      \* TestModels[p]: the models that probes of p take turns with
    Errors,          \* Errors[p]: what mark_error may make of p
    None

ASSUME RecoveryAssumption ==
    /\ None \notin Providers
    /\ \A p \in Providers :
          /\ Len(TestModels[p]) \in Nat \ {0}
          /\ Errors[p] \subseteq [status  : {"cooldown", "disabled"},
                                strikes : {"few", "passing", "final"}]

VARIABLES
    entry,      \* entry[p]: what the registry holds of a provider
    recovery,   \* where the recovery prober stands
    turn,       \* provider_probe_cursors, modulo the number of models
    asked,      \* the provider discovery is asking, if any
    known       \* providers discovery is done with

vars == <<entry, recovery, turn, asked, known>>

(* A stamp stands for the latest of updated_at and last_probe_at; 0 is     *)
(* none.  It is only ever compared with the one in a token.                *)
Stamps == 0 .. 2

(* running: the time of the status has not passed (until of a cooldown or  *)
(* of probing, the reprobe interval of a disabled entry).  strikes: few    *)
(* failures, or MAX_FAILURES, of which the last was a rate limit or not.   *)
Entries == [status : {"absent", "healthy", "cooldown", "probing", "disabled"},
            running : BOOLEAN, strikes : {"few", "passing", "final"}, stamp : Stamps]

Absent  == [status |-> "absent", running |-> FALSE, strikes |-> "few", stamp |-> 0]
Healthy == [Absent EXCEPT !.status = "healthy"]

NoToken == [status |-> "none", strikes |-> "few", stamp |-> 0]

(* due: what is left of the cycle, by the snapshot it began with; off:     *)
(* those that were disabled then.  news observes whether an error of p was *)
(* recorded since the token was read, and whether before it was compared.  *)
Resting == [at |-> "resting", due |-> {}, off |-> {}, p |-> None, token |-> NoToken,
            news |-> "none"]

TypeOK ==
    /\ entry \in [Providers -> Entries]
    /\ recovery.at \in {"resting", "cycle", "chosen", "asking", "current"}
    /\ recovery.off \subseteq recovery.due /\ recovery.due \subseteq Providers
    /\ recovery.p \in Providers \cup {None}
    /\ recovery.at \in {"resting", "cycle"} <=> recovery.p = None
    /\ recovery.token.stamp \in Stamps
    /\ recovery.news \in {"none", "before", "after"}
    /\ turn \in [Providers -> Nat]
    /\ \A p \in Providers : turn[p] < Len(TestModels[p])
    /\ asked \in Providers \cup {None}
    /\ known \subseteq Providers

(* A start with nothing in the registry, or with what a file held: then    *)
(* discovery takes those providers for known.                              *)
Init == /\ known \in SUBSET Providers
        /\ entry = [p \in Providers |-> IF p \in known THEN Healthy ELSE Absent]
        /\ recovery = Resting
        /\ turn = [p \in Providers |-> 0]
        /\ asked = None

-----------------------------------------------------------------------------
(* The registry, as the probers see it.                                    *)

Usable(x) == \/ x.status \in {"absent", "healthy"}
             \/ x.status = "cooldown" /\ ~x.running

(* A faulty token, without the timestamps. *)
WithoutStamp(x) == [status |-> x.status, strikes |-> x.strikes, stamp |-> 0]

(* probe_token *)
Token(x) == [status |-> x.status, strikes |-> x.strikes, stamp |-> x.stamp]

(* A time that has not been in any token yet. *)
NewStamp == IF recovery.token.stamp = 1 THEN 2 ELSE 1

(* mark_error: a cooldown or, for some errors, the end. *)
MarkError(p) ==
    /\ \E e \in Errors[p] :
          entry' = [entry EXCEPT ![p] = [status |-> e.status, running |-> TRUE,
                                         strikes |-> e.strikes, stamp |-> NewStamp]]
    /\ recovery' = [recovery EXCEPT !.news =
                       IF p # recovery.p \/ recovery.at = "chosen" THEN @
                       ELSE IF recovery.at = "current" THEN "after" ELSE "before"]

MarkHealthy(p) == entry' = [entry EXCEPT ![p] = Healthy]

(* cleanup_expired of one entry.  With MAX_FAILURES, only the short        *)
(* cooldown of a request-scoped error ends in disabling, long before the   *)
(* reprobe interval has passed.                                            *)
CleanedUp(x) ==
    CASE x.status = "cooldown" /\ ~x.running /\ x.strikes # "final" ->
            [x EXCEPT !.status = "probing", !.running = TRUE, !.stamp = NewStamp]
      [] x.status = "cooldown" /\ ~x.running /\ x.strikes = "final" ->
            [x EXCEPT !.status = "disabled", !.running = TRUE]
      [] x.status = "probing" /\ ~x.running -> Absent
      [] OTHER -> x

CleanupExpired == /\ entry' = [p \in Providers |-> CleanedUp(entry[p])]
                  /\ UNCHANGED <<recovery, turn, asked, known>>

(* Requests, log monitors, the model prober. *)
Report(p) == MarkError(p) /\ UNCHANGED <<turn, asked, known>>

Succeed(p) == MarkHealthy(p) /\ UNCHANGED <<recovery, turn, asked, known>>

TimePasses(p) == /\ entry[p].running
                 /\ entry' = [entry EXCEPT ![p].running = FALSE]
                 /\ UNCHANGED <<recovery, turn, asked, known>>

-----------------------------------------------------------------------------
(* The recovery prober.                                                    *)

(* reprobe_disabled_due *)
ReprobeDue(x) == x.status = "disabled" /\ ~x.running

(* A cycle begins: providers with MAX_FAILURES are left to the cleanup.    *)
Snapshot ==
    LET off == {p \in Providers : ReprobeDue(entry[p])}
        due == off \cup {p \in Providers : /\ entry[p].status \in {"cooldown", "probing"}
                                           /\ entry[p].strikes = "few"}
    IN  /\ recovery.at = "resting"
        /\ due # {}
        /\ recovery' = [recovery EXCEPT !.at = "cycle", !.due = due, !.off = off]
        /\ UNCHANGED <<entry, turn, asked, known>>

(* A provider of the snapshot has its turn; one that was disabled then and *)
(* is so still is stamped (record_disabled_probe).                         *)
Choose(p) ==
    /\ recovery.at = "cycle" /\ p \in recovery.due
    /\ recovery' = [recovery EXCEPT !.at = "chosen", !.p = p]
    /\ entry' = IF p \in recovery.off /\ entry[p].status = "disabled"
                  THEN [entry EXCEPT ![p].running = TRUE, ![p].stamp = NewStamp]
                  ELSE entry
    /\ UNCHANGED <<turn, asked, known>>

ReadToken ==
    /\ recovery.at = "chosen"
    /\ recovery' = [recovery EXCEPT !.at = "asking", !.token = Token(entry[recovery.p])]
    /\ UNCHANGED <<entry, turn, asked, known>>

(* A faulty end of a turn, that leaves p among those that were disabled. *)
StillOff(p) == recovery' = [Resting EXCEPT
                               !.at = IF recovery.due = {p} THEN "resting" ELSE "cycle",
                               !.due = recovery.due \ {p}, !.off = recovery.off]

(* The cycle goes on without p. *)
Leave(p) == recovery' = [Resting EXCEPT
                            !.at = IF recovery.due = {p} THEN "resting" ELSE "cycle",
                            !.due = recovery.due \ {p}, !.off = recovery.off \ {p}]

(* A faulty rotation, that always tests the first model. *)
Stay(p) == turn' = turn

Rotate(p) == turn' = [turn EXCEPT ![p] = (@ + 1) % Len(TestModels[p])]

Testing(p) == TestModels[p][turn[p] + 1]

(* No answer, an empty one, or one that says the budget is used up. *)
TestFails == LET p == recovery.p IN
             /\ recovery.at = "asking"
             /\ Rotate(p)
             /\ Leave(p)
             /\ UNCHANGED <<entry, asked, known>>

(* An answer, and the comparison of the tokens. *)
TestAnswers == LET p == recovery.p IN
               /\ recovery.at = "asking"
               /\ Rotate(p)
               /\ IF Token(entry[p]) = recovery.token
                    THEN recovery' = [recovery EXCEPT !.at = "current"] ELSE Leave(p)
               /\ UNCHANGED <<entry, asked, known>>

Promote == /\ recovery.at = "current"
           /\ MarkHealthy(recovery.p)
           /\ Leave(recovery.p)
           /\ UNCHANGED <<turn, asked, known>>

(* An exception that is none of those a failing test is expected to raise  *)
(* ends the whole cycle, for the providers that were still due too.        *)
CycleAborts == /\ recovery.at = "asking"
               /\ Rotate(recovery.p)
               /\ recovery' = Resting
               /\ UNCHANGED <<entry, asked, known>>

Recovery == \/ Snapshot \/ ReadToken \/ TestFails \/ CycleAborts \/ TestAnswers \/ Promote
            \/ \E p \in Providers : Choose(p)

-----------------------------------------------------------------------------
(* Discovery.                                                              *)

(* A provider it has not seen yet is connected; one whose models cannot be *)
(* listed just now is not asked, but is known from then on.                *)
Discover(p) ==
    /\ asked = None /\ p \notin known
    /\ \/ asked' = p /\ UNCHANGED known
       \/ known' = known \cup {p} /\ UNCHANGED asked
    /\ UNCHANGED <<entry, recovery, turn>>

Known == asked' = None /\ known' = known \cup {asked}

Found == asked # None /\ MarkHealthy(asked) /\ Known /\ UNCHANGED <<recovery, turn>>

FoundBroken == asked # None /\ MarkError(asked) /\ Known /\ UNCHANGED turn

Discovery == Found \/ FoundBroken \/ \E p \in Providers : Discover(p)

-----------------------------------------------------------------------------
Next == \/ \E p \in Providers : Report(p) \/ Succeed(p) \/ TimePasses(p)
        \/ CleanupExpired \/ Recovery \/ Discovery

Spec == Init /\ [][Next]_vars

(* The threads loop for ever, every question they ask has a timeout, and   *)
(* time passes.                                                            *)
FairSpec == /\ Spec
            /\ WF_vars(CleanupExpired) /\ WF_vars(Recovery) /\ WF_vars(Discovery)
            /\ \A p \in Providers : WF_vars(TimePasses(p))

-----------------------------------------------------------------------------
(* Properties.                                                             *)

(* A recovery probe does not put a provider back whose latest error was    *)
(* recorded while the probe was out and before the tokens were compared,   *)
(* whatever the other threads wrote meanwhile (probe_token).               *)
NewsIsHeeded ==
    [][Promote /\ ~Usable(entry[recovery.p]) => recovery.news # "before"]_vars

(* When no more errors of a provider are reported, one of its test models  *)
(* answers, and no exception takes the other providers of a cycle their    *)
(* turn, it comes back into use and stays, even if it is disabled, and     *)
(* whichever models the probes have just tried (reprobe_disabled_due,      *)
(* provider_probe_cursors, cleanup_expired).                               *)
Blames(p) == Report(p) \/ (FoundBroken /\ asked = p)

Fails(p, i) == (TestFails \/ CycleAborts) /\ recovery.p = p /\ turn[p] + 1 = i

TurnsLost == CycleAborts /\ recovery.due # {recovery.p}

ProvidersReturn ==
    \A p \in Providers :
        /\ <>[][~Blames(p)]_vars
        /\ <>[][~TurnsLost]_vars
        /\ \E i \in 1 .. Len(TestModels[p]) : <>[][~Fails(p, i)]_vars
        => <>[](entry[p].status \in {"absent", "healthy"})

(* health_registry.py of probe_token: "Comparing this token before         *)
(* promotion prevents a stale successful probe from overwriting a newer    *)
(* error/state transition".                                                *)
NoNewsIsOverwritten ==
    [][Promote /\ ~Usable(entry[recovery.p]) => recovery.news = "none"]_vars
=============================================================================
