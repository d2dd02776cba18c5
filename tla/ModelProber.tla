------------------------------ MODULE ModelProber ------------------------------
(***************************************************************************)
(* The model prober (model_prober.py), which tests a few of the models     *)
(* whose quarantine has run out and takes turns among them, over the model *)
(* entries of the health registry, and drops those that have failed too    *)
(* often from the gateway's catalog (disable_models of catalog_sync.py).   *)
(* It is read together with Selection in SelectionProofs, and shares no    *)
(* name with it.                                                           *)
(*                                                                         *)
(* A model keeps its place in the registry's dictionary.  The floor of     *)
(* 60 s between two probes of a model never bites, since the pause between *)
(* two scans is as long by default.                                        *)
(***************************************************************************)
EXTENDS Integers, Sequences

CONSTANTS
    Tracked,
    ScanOrder,       \* the order of the registry's dictionary
    Batch            \* MODELS_PROBE_BATCH

ASSUME ProberAssumption == /\ ScanOrder \in Seq(Tracked)
                           /\ Batch \in Nat \ {0}

VARIABLES
    entry,      \* entry[m]: what the registry holds of a model
    queue,      \* the rest of the batch; its head is being asked
    cursor,     \* _cursor
    catalog     \* models the gateway advertises

proberVars == <<entry, queue, cursor, catalog>>

(* running: until has not passed.  strikes: few failures, or MAX_FAILURES, *)
(* of which the last was a rate limit or was not.                          *)
Entries == [status : {"fine", "cooldown", "probing", "disabled"}, running : BOOLEAN,
            strikes : {"few", "passing", "final"}]

Fine     == [status |-> "fine", running |-> FALSE, strikes |-> "few"]
Disabled == [status |-> "disabled", running |-> FALSE, strikes |-> "final"]

ProberTypeOK ==
    /\ entry \in [Tracked -> Entries]
    /\ queue \in Seq(Tracked) /\ Len(queue) <= Batch
    /\ cursor \in 0 .. Len(ScanOrder) + Batch
    /\ catalog \subseteq Tracked

ProberInit == /\ entry = [m \in Tracked |-> Fine]
              /\ queue = <<>>
              /\ cursor = 0
              /\ catalog = Tracked

-----------------------------------------------------------------------------
(* The registry.                                                           *)

(* mark_error for a model: the last failure disables, or only prolongs the *)
(* cooldown if it is a rate limit or the request's own fault.              *)
MarkError(m) ==
    \E n \in {"few", "passing", "final"}, x \in {"cooldown", "disabled"} :
        entry' = [entry EXCEPT ![m] =
                     IF x = "disabled" THEN Disabled
                     ELSE [status |-> x, running |-> TRUE, strikes |-> n]]

(* A request or a log monitor reports m. *)
Report(m) == MarkError(m) /\ UNCHANGED <<queue, cursor, catalog>>

(* The admin API restores m. *)
Restore(m) == /\ entry' = [entry EXCEPT ![m] = Fine]
              /\ UNCHANGED <<queue, cursor, catalog>>

(* cleanup_expired *)
CleanedUp(x) ==
    CASE x.status = "cooldown" /\ ~x.running ->
            IF x.strikes = "final" THEN Disabled
            ELSE [x EXCEPT !.status = "probing", !.running = TRUE]
      [] x.status = "probing" /\ ~x.running -> Fine
      [] OTHER -> x

CleanupExpired == /\ entry' = [m \in Tracked |-> CleanedUp(entry[m])]
                  /\ UNCHANGED <<queue, cursor, catalog>>

TimePasses(m) == /\ entry[m].running
                 /\ entry' = [entry EXCEPT ![m].running = FALSE]
                 /\ UNCHANGED <<queue, cursor, catalog>>

-----------------------------------------------------------------------------
(* The prober.                                                             *)

(* _due_models *)
Due(m) == entry[m].status \in {"cooldown", "probing"} /\ ~entry[m].running

(* Those of the first n models that are due, in their order. *)
DueUpTo[n \in 0 .. Len(ScanOrder)] ==
    IF n = 0 THEN <<>>
    ELSE IF Due(ScanOrder[n]) THEN Append(DueUpTo[n - 1], ScanOrder[n])
    ELSE DueUpTo[n - 1]

DueList == DueUpTo[Len(ScanOrder)]

(* Two faulty slices: one is a model short, one does not reset the cursor  *)
(* where the list has become shorter.                                      *)
OneShort(due) == [batch |-> SubSeq(due, 1, IF Len(due) < Batch THEN Len(due) ELSE Batch - 1),
                  cursor |-> cursor]

Beyond(due) ==
    IF Len(due) <= Batch THEN [batch |-> due, cursor |-> cursor]
    ELSE [batch  |-> SubSeq(due, cursor + 1, IF cursor + Batch < Len(due) THEN cursor + Batch
                                             ELSE Len(due)),
          cursor |-> IF cursor >= Len(due) THEN cursor ELSE cursor + Batch]

(* _pick_batch *)
PickBatch(due) ==
    LET from == IF cursor >= Len(due) THEN 0 ELSE cursor IN
    IF Len(due) <= Batch THEN [batch |-> due, cursor |-> cursor]
    ELSE [batch  |-> SubSeq(due, from + 1, IF from + Batch < Len(due) THEN from + Batch
                                           ELSE Len(due)),
          cursor |-> from + Batch]

Scan == LET due    == DueList
            picked == PickBatch(due)
        IN  /\ queue = <<>> /\ due # <<>>
            /\ queue' = picked.batch
            /\ cursor' = picked.cursor
            /\ UNCHANGED <<entry, catalog>>

(* mark_healthy, whatever became of the model while it was asked. *)
Answers == /\ queue # <<>>
           /\ entry' = [entry EXCEPT ![Head(queue)] = Fine]
           /\ queue' = Tail(queue)
           /\ UNCHANGED <<cursor, catalog>>

(* No answer, or an empty one: the error is the model's, or its provider's *)
(* and then leaves the model's entry as it is.  In either case a model     *)
(* with MAX_FAILURES is dropped, if the gateway agrees.                    *)
Fails == LET m == Head(queue) IN
         /\ queue # <<>>
         /\ MarkError(m) \/ UNCHANGED entry
         /\ \E dropped \in IF entry'[m].strikes = "few" THEN {{}} ELSE {{}, {m}} :
               catalog' = catalog \ dropped
         /\ queue' = Tail(queue)
         /\ UNCHANGED cursor

(* An exception while a model is asked, or before or after the registry    *)
(* has taken the outcome, drops the rest of the batch.                     *)
Abandons == /\ queue # <<>>
            /\ \/ UNCHANGED entry
               \/ MarkError(Head(queue))
               \/ entry' = [entry EXCEPT ![Head(queue)] = Fine]
            /\ queue' = <<>>
            /\ UNCHANGED <<cursor, catalog>>

Prober == Scan \/ Answers \/ Fails \/ Abandons

ProberNext == \/ \E m \in Tracked : Report(m) \/ Restore(m) \/ TimePasses(m)
              \/ CleanupExpired
              \/ Prober

ProberSpec == ProberInit /\ [][ProberNext]_proberVars

(* The threads loop for ever, calls time out, and time passes. *)
FairProberSpec == /\ ProberSpec
            /\ WF_proberVars(Prober) /\ WF_proberVars(CleanupExpired)
            /\ \A m \in Tracked : WF_proberVars(TimePasses(m))

-----------------------------------------------------------------------------
(* Properties.                                                             *)

(* Whenever models are due, a scan would test one at least, wherever       *)
(* earlier and perhaps longer lists have left the cursor (_pick_batch).    *)
ScansTest == DueList # <<>> => PickBatch(DueList).batch # <<>>

Tested(m) == queue # <<>> /\ Head(queue) = m

Dropped == Len(queue) > 1 /\ queue' = <<>>

(* While no more models are due than fit a batch and no exception drops    *)
(* any, each that is due again and again when the prober looks is tested   *)
(* again and again (_pick_batch, run_forever).                             *)
MetAgain(m) == []<><<Scan /\ Due(m)>>_proberVars

FewAreAllTested ==
    <>[](Len(DueList) <= Batch) /\ <>[][~Dropped]_proberVars =>
        \A m \in Tracked : MetAgain(m) => []<>Tested(m)

(* model_prober.py: "cycling fairly so every due model is eventually       *)
(* re-tested".                                                             *)
EveryDueModelIsTested == \A m \in Tracked : MetAgain(m) => []<>Tested(m)
=============================================================================
