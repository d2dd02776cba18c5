------------------------------ MODULE ComboCache -------------------------------
(***************************************************************************)
(* Where the candidates for a combo request come from: get_default_combos  *)
(* of smart_router.py with its list in memory, the list on disk, the       *)
(* gateway's catalog and its registry of disabled models, and the          *)
(* combo-refresh thread of daemon.py.  Threads share all of it without a   *)
(* lock.                                                                   *)
(*                                                                         *)
(* A list is the set of its models.  Blocked are those the static filters  *)
(* drop (dead, tiny, not for chat, not on an allowlist).  A cached list    *)
(* may grow too old at any time, and is then as good as none; a file that  *)
(* cannot be parsed is a torn one.                                         *)
(***************************************************************************)
EXTENDS Naturals, FiniteSets

CONSTANTS
    Models,
    Blocked,    \* models the static filters drop
    Static,     \* _STATIC_COMBOS
    Retired,    \* models that catalog sync may disable
    MinWrite,   \* MIN_COMBO_WRITE
    Requests,   \* threads that serve requests
    Refresher   \* the combo-refresh thread

ASSUME ComboAssumption ==
    /\ Blocked \subseteq Models /\ Static \subseteq Models \ Blocked
    /\ Retired \subseteq Models
    /\ MinWrite \in Nat /\ Cardinality(Static) < MinWrite
    /\ Refresher \notin Requests

Lists   == SUBSET Models
Threads == Requests \cup {Refresher}

None == [is |-> "none", list |-> {}]
Torn == [is |-> "torn", list |-> {}]
Whole(l) == [is |-> "whole", list |-> l]
Files == {None, Torn} \cup {Whole(l) : l \in Lists}

VARIABLES
    up,         \* whether the gateway answers
    off,        \* the models disabled there
    mem,        \* _combo_cache
    dis,        \* _disabled_cache
    disk,       \* COMBO_CACHE_FILE
    tmp,        \* the file it is written through
    task        \* task[t]: how far thread t has come

gateway == <<up, off>>
vars    == <<gateway, mem, dis, disk, tmp, task>>

Steps == {"idle", "disk", "sieve", "asked", "fetch", "fallback", "write", "fill", "rename",
          "store", "answer"}

(* from: what the list was made of.  at: the file the thread has open.     *)
Tasks == [step : Steps, broad : BOOLEAN, list : Lists, off : Lists,
          from : {"disk", "catalog", "fallback"}, at : {"tmp", "disk", "gone"}]

Idle == [step |-> "idle", broad |-> FALSE, list |-> {}, off |-> {}, from |-> "disk", at |-> "gone"]

TypeOK == /\ up \in BOOLEAN
          /\ off \in SUBSET Retired
          /\ mem \in Lists
          /\ dis \in [list : Lists, fresh : BOOLEAN]
          /\ {disk, tmp} \subseteq Files
          /\ task \in [Threads -> Tasks]
          \* the refresher neither sieves nor keeps what it has
          /\ task[Refresher].step \notin {"disk", "sieve", "asked", "store", "answer"}

Unknown == [list |-> {}, fresh |-> FALSE]

(* The file may be of an older version of the program, with other filters. *)
Init == /\ up \in BOOLEAN /\ off = {}
        /\ mem = {} /\ dis = Unknown
        /\ disk \in {None, Whole(Models)}
        /\ tmp = None
        /\ task = [t \in Threads |-> Idle]

-----------------------------------------------------------------------------
Changed(k, changes) == [f \in DOMAIN k |-> IF f \in DOMAIN changes THEN changes[f] ELSE k[f]]

Move(t, changes) == task' = [task EXCEPT ![t] = Changed(@, changes)]

Allowed(l) == l \ Blocked

(* _read_combo_cache *)
Readable == disk.list

(* A faulty filter of the list on disk, that trusts it. *)
Trusted(l) == l

(* _filter_static_models of the list on disk *)
Stored(l) == Allowed(l)

(* A request asks for the candidates; a broad one when those had nothing   *)
(* healthy among them.                                                     *)
Ask(r) ==
    /\ task[r].step = "idle"
    /\ \/ mem # {} /\ Move(r, [step |-> "answer", broad |-> FALSE, list |-> mem])
       \/ mem = {} /\ Move(r, [step |-> "disk", broad |-> FALSE])
       \/ Move(r, [step |-> "fetch", broad |-> TRUE])
    /\ UNCHANGED <<gateway, mem, dis, disk, tmp>>

ReadDisk(r) ==
    /\ task[r].step = "disk"
    /\ LET l == Stored(Readable) IN
       Move(r, IF l = {} THEN [step |-> "fetch"]
                         ELSE [step |-> "sieve", list |-> l, from |-> "disk"])
    /\ UNCHANGED <<gateway, mem, dis, disk, tmp>>

(* A faulty filter of the disabled, that the list on disk passes unhindered. *)
Waved(r, disabled) ==
    Move(r, [step |-> IF task[r].from = "catalog" THEN "write" ELSE "store",
             list |-> IF task[r].from = "disk" THEN task[r].list ELSE task[r].list \ disabled,
             off |-> {}])

(* _filter_disabled_models: with the registry remembered, or asked anew. *)
Sieved(r, disabled) ==
    LET l == task[r].list \ disabled
        next == CASE task[r].from = "disk" -> IF l = {} THEN "fetch" ELSE "store"
                  [] task[r].from = "catalog" -> "write"
                  [] task[r].from = "fallback" -> "store"
    IN Move(r, [step |-> next, list |-> l, off |-> {}])

Sieve(r) == /\ task[r].step = "sieve" /\ dis.fresh
            /\ Sieved(r, dis.list)
            /\ UNCHANGED <<gateway, mem, dis, disk, tmp>>

AskDisabled(r) == /\ task[r].step = "sieve" /\ ~dis.fresh /\ up
                  /\ Move(r, [step |-> "asked", off |-> off])
                  /\ UNCHANGED <<gateway, mem, dis, disk, tmp>>

KeepDisabled(r) == /\ task[r].step = "asked"
                   /\ Sieved(r, task[r].off)
                   /\ dis' = [list |-> task[r].off, fresh |-> TRUE]
                   /\ UNCHANGED <<gateway, mem, disk, tmp>>

(* The registry does not answer, and it may fail alone.  _admin_request    *)
(* makes most failures an empty answer, so that for a while nothing counts *)
(* as disabled; after those it does not catch, what was known stands.      *)
NoRegistry(r) == /\ task[r].step = "sieve" /\ ~dis.fresh
                 /\ \E known \in {{}, dis.list} :
                       /\ Sieved(r, known)
                       /\ dis' = [list |-> known, fresh |-> TRUE]
                 /\ UNCHANGED <<gateway, mem, disk, tmp>>

(* A list that is not to be sieved: a broad request's, the refresher's,    *)
(* which writes it if it is long enough.                                   *)
Unfiltered(t, l, from) ==
    Move(t, [step |-> IF t \in Requests THEN "answer"
                      ELSE IF Cardinality(l) >= MinWrite THEN "write" ELSE "idle",
             list |-> l, from |-> from])

Obtained(t, l, from) ==
    IF t \in Requests /\ ~task[t].broad
      THEN Move(t, [step |-> "sieve", list |-> l, from |-> from])
      ELSE Unfiltered(t, l, from)

(* _fetch_catalog_models *)
Fetch(t) == /\ task[t].step = "fetch"
            /\ IF up
                 THEN Obtained(t, Allowed(Models), "catalog")
                 ELSE Move(t, [step |-> "fallback"])
            /\ UNCHANGED <<gateway, mem, dis, disk, tmp>>

Fallback(t) == /\ task[t].step = "fallback"
               /\ Obtained(t, Allowed(IF Readable # {} THEN Readable ELSE Static), "fallback")
               /\ UNCHANGED <<gateway, mem, dis, disk, tmp>>

-----------------------------------------------------------------------------
(* _write_combo_cache: the file is opened and so emptied, written, and     *)
(* renamed.  All threads use the same name.                                *)

(* A faulty continuation, that has the refresher keep its list too. *)
KeptByAll(t) == [task[t] EXCEPT !.step = "store", !.at = "gone"]

After(t) == IF t = Refresher THEN Idle ELSE [task[t] EXCEPT !.step = "store", !.at = "gone"]

Open(t) == /\ task[t].step = "write"
           /\ tmp' = Torn
           /\ Move(t, [step |-> "fill", at |-> "tmp"])
           /\ UNCHANGED <<gateway, mem, dis, disk>>

(* Writing goes to the file that was opened, wherever it is by now. *)
Fill(t) == /\ task[t].step = "fill"
           /\ tmp'  = IF task[t].at = "tmp" THEN Whole(task[t].list) ELSE tmp
           /\ disk' = IF task[t].at = "disk" THEN Whole(task[t].list) ELSE disk
           /\ Move(t, [step |-> "rename"])
           /\ UNCHANGED <<gateway, mem, dis>>

Moved(at) == CASE at = "tmp" -> "disk" [] at = "disk" -> "gone" [] at = "gone" -> "gone"

Rename(t) ==
    /\ task[t].step = "rename"
    /\ IF tmp = None
         THEN /\ task' = [task EXCEPT ![t] = After(t)]
              /\ UNCHANGED <<disk, tmp>>
         ELSE /\ disk' = tmp
              /\ tmp' = None
              /\ task' = [u \in Threads |-> IF u = t THEN After(t)
                                            ELSE [task[u] EXCEPT !.at = Moved(@)]]
    /\ UNCHANGED <<gateway, mem, dis>>

Store(r) == /\ task[r].step = "store"
            /\ mem' = task[r].list
            /\ Move(r, [step |-> "answer"])
            /\ UNCHANGED <<gateway, dis, disk, tmp>>

Answer(r) == /\ task[r].step = "answer"
             /\ task' = [task EXCEPT ![r] = Idle]
             /\ UNCHANGED <<gateway, mem, dis, disk, tmp>>

(* combo_refresh_loop *)
Refresh == /\ task[Refresher].step = "idle"
           /\ Move(Refresher, [step |-> "fetch", broad |-> TRUE])
           /\ UNCHANGED <<gateway, mem, dis, disk, tmp>>

GoOn(t) == \/ ReadDisk(t) \/ Sieve(t) \/ AskDisabled(t) \/ KeepDisabled(t) \/ NoRegistry(t)
           \/ Fetch(t) \/ Fallback(t) \/ Open(t) \/ Fill(t) \/ Rename(t)
           \/ Store(t) \/ Answer(t)

-----------------------------------------------------------------------------
(* Catalog sync disables a model in the gateway. *)
Disable(m) == /\ m \in Retired /\ up /\ m \notin off
              /\ off' = off \cup {m}
              /\ UNCHANGED <<up, mem, dis, disk, tmp, task>>

(* invalidate_combo_cache: catalog sync calls it when it is done, requests *)
(* when they have run out of candidates.                                   *)
Invalidate == /\ mem' = {} /\ dis' = Unknown
              /\ UNCHANGED <<gateway, disk, tmp, task>>

(* The gateway comes and goes; its owner enables a model again. *)
Gateway == /\ \/ up' = ~up /\ UNCHANGED off
              \/ \E m \in off : off' = off \ {m} /\ UNCHANGED up
           /\ UNCHANGED <<mem, dis, disk, tmp, task>>

(* The lifetimes of the lists. *)
ForgetMem  == mem # {} /\ mem' = {} /\ UNCHANGED <<gateway, dis, disk, tmp, task>>
ForgetDis  == dis.fresh /\ dis' = [dis EXCEPT !.fresh = FALSE]
                 /\ UNCHANGED <<gateway, mem, disk, tmp, task>>
ForgetDisk == disk # None /\ disk' = None /\ UNCHANGED <<gateway, mem, dis, tmp, task>>

Restart == /\ mem' = {} /\ dis' = Unknown
           /\ task' = [t \in Threads |-> Idle]
           /\ UNCHANGED <<up, off, disk, tmp>>

Next == \/ \E r \in Requests : Ask(r)
        \/ \E t \in Threads : GoOn(t)
        \/ Refresh \/ (\E m \in Models : Disable(m)) \/ Invalidate \/ Gateway
        \/ ForgetMem \/ ForgetDis \/ ForgetDisk \/ Restart

Spec == Init /\ [][Next]_vars

(* Threads go on, and the lifetimes of the lists in memory run out. *)
FairSpec == /\ Spec
            /\ \A t \in Threads : WF_vars(GoOn(t))
            /\ WF_vars(ForgetMem) /\ WF_vars(ForgetDis)

-----------------------------------------------------------------------------
Answering(r) == task[r].step = "answer"

(* Whatever list an answer is made of, the file of an older version too,   *)
(* it holds no model that the filters of this version drop                 *)
(* (smart_router.py 766-790, 879-915).                                     *)
NothingBlockedIsServed ==
    \A r \in Requests : Answering(r) => task[r].list \cap Blocked = {}

(* A model that stays disabled leaves the candidates for good, whatever    *)
(* lists and threads it was in and however often the registry had failed   *)
(* before: once the gateway, and its registry whenever it is asked, answer *)
(* (smart_router.py 696-747, 796-810).                                     *)
DisabledModelsLeave ==
    <>[][\A r \in Requests : ~NoRegistry(r)]_vars
        => \A m \in Models :
             <>[](up /\ m \in off)
                => <>[](\A r \in Requests : Answering(r) /\ ~task[r].broad => m \notin task[r].list)

(* The refresher writes only what it has from the catalog                  *)
(* (daemon.py 1030-1040).                                                  *)
OnlyCatalogsArePersisted ==
    task[Refresher].step = "write" => task[Refresher].from = "catalog"

(* The file is replaced in one step (smart_router.py 829-838). *)
FileIsNeverTorn == disk.is # "torn"
=============================================================================
