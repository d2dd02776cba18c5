-------------------------------- MODULE Monitors -------------------------------
(***************************************************************************)
(* monitor_logs and monitor_sqlite (daemon.py), which report the calls     *)
(* that fail in the gateway to the health registry: the one follows        *)
(* error.log by its size, the other the table requestDetails by its rowid. *)
(* Older gateways write the one, newer ones the other.                     *)
(*                                                                         *)
(* Places in the file are numbers; a line fills two of them, so that it    *)
(* can be half written.  A line is known by the call it tells of.  What    *)
(* the parser makes of a line is ErrorParser's subject.                    *)
(*                                                                         *)
(* Whatever raises while a line or a row is handled sends the monitor back *)
(* to where its round began: a provider that is no string, a date past     *)
(* what datetime holds, a database that is locked.  That can happen at any *)
(* line or row and any number of times.                                    *)
(*                                                                         *)
(* The gateway is external: it appends lines and rows, and whoever rotates *)
(* the file or clears the table is external too.                           *)
(***************************************************************************)
EXTENDS Naturals, FiniteSets

CONSTANTS
    Calls,
    MaxRow      \* bounds the rows; a table has as many as the gateway keeps

ASSUME MonitorsAssumption == MaxRow \in Nat \ {0} /\ {"none", "fine"} \cap Calls = {}

VARIABLES
    line,       \* line[c]: where in the file c is told of
    size,       \* the length of the file
    tail,       \* monitor_logs
    row,        \* row[n]: what the table has under rowid n
    poll,       \* monitor_sqlite
    failed,     \* calls that failed while the monitors were running
    reports,    \* reports[c]: calls of mark_error for c, since an exception
                \* last sent a monitor back to where c is told of
    trouble     \* whether anything has happened that loses failures

logvars   == <<line, size, tail>>
tablevars == <<row, poll>>
vars      == <<logvars, tablevars, failed, reports, trouble>>

Nowhere == [state |-> "none", from |-> 0, bad |-> FALSE]
Lines   == [state : {"none", "half", "whole", "gone"}, from : Nat, bad : BOOLEAN]

(* from: last_size.  upto: current_size, for as long as it is used.        *)
Tails == [at : {"waiting", "sized", "reading"}, from : Nat, upto : Nat,
          todo : SUBSET Calls]

Rowids == 1 .. MaxRow
NoRow  == "none"
Fine   == "fine"       \* a row of a call that did not fail

(* last: last_rowid.  todo: the rows fetched, with what they hold; a row   *)
(* of a call is one that can be parsed.                                    *)
Polls == [at : {"waiting", "checked", "reading"}, last : 0 .. MaxRow,
          todo : SUBSET (Rowids \X Calls)]

TypeOK ==
    /\ line \in [Calls -> Lines]
    /\ size \in Nat
    /\ tail \in Tails
    /\ row \in [Rowids -> Calls \cup {NoRow, Fine}]
    /\ poll \in Polls
    /\ failed \subseteq Calls
    /\ reports \in [Calls -> 0 .. 2]
    /\ trouble \in BOOLEAN

MaxOf(S) == IF S = {} THEN 0 ELSE CHOOSE n \in S : \A m \in S : m <= n
MinOf(S) == IF S = {} THEN 0 ELSE CHOOSE n \in S : \A m \in S : n <= m

Present == {n \in Rowids : row[n] # NoRow}

Waiting(last) == [at |-> "waiting", from |-> last, upto |-> 0, todo |-> {}]
Idle(last)    == [at |-> "waiting", last |-> last, todo |-> {}]

(* Both monitors begin at the end of what there is. *)
Init == /\ line = [c \in Calls |-> Nowhere]
        /\ size \in {0, 2}
        /\ tail = Waiting(size)
        /\ row \in {[n \in Rowids |-> NoRow], [n \in Rowids |-> IF n = 1 THEN Fine ELSE NoRow]}
        /\ poll = Idle(MaxOf(Present))
        /\ failed = {}
        /\ reports = [c \in Calls |-> 0]
        /\ trouble = (Present = {})

-----------------------------------------------------------------------------
(* The gateway, and what befalls its files.                                *)

New(c) == /\ line[c].state = "none" /\ \A n \in Rowids : row[n] # c
          /\ c \notin failed

Torn == \E c \in Calls : line[c].state = "half"

(* A line is appended at once, or first its one half. *)
Log(c, state, bad) ==
    /\ New(c) /\ ~Torn
    /\ line' = [line EXCEPT ![c] = [state |-> state, from |-> size, bad |-> bad]]
    /\ size' = IF state = "half" THEN size + 1 ELSE size + 2
    /\ failed' = failed \cup {c}
    /\ trouble' = (trouble \/ bad \/ state = "half")
    /\ UNCHANGED <<tail, tablevars, reports>>

Complete(c) == /\ line[c].state = "half"
               /\ line' = [line EXCEPT ![c].state = "whole"]
               /\ size' = size + 1
               /\ UNCHANGED <<tail, tablevars, failed, reports, trouble>>

(* The file is rotated, or emptied. *)
Truncate == /\ size > 0
            /\ line' = [c \in Calls |-> IF line[c].state = "none" THEN line[c]
                                        ELSE [line[c] EXCEPT !.state = "gone"]]
            /\ size' = 0
            /\ trouble' = TRUE
            /\ UNCHANGED <<tail, tablevars, failed, reports>>

(* SQLite gives a new row the number after the largest one. *)
Insert(what) ==
    LET n == MaxOf(Present) + 1 IN
    /\ n \in Rowids
    /\ row' = [row EXCEPT ![n] = what]
    /\ UNCHANGED <<logvars, poll, reports, trouble>>

Tabulate(c) == New(c) /\ Insert(c) /\ failed' = failed \cup {c}

Succeed == Insert(Fine) /\ UNCHANGED failed

(* The gateway drops old rows, or all. *)
Prune == \E n \in Present :
            /\ row' = [i \in Rowids |-> IF i <= n THEN NoRow ELSE row[i]]
            /\ trouble' = TRUE
            /\ UNCHANGED <<logvars, poll, failed, reports>>

(* The daemon stops and starts: both monitors begin at the end again. *)
Restart == /\ tail' = Waiting(size)
           /\ poll' = Idle(MaxOf(Present))
           /\ trouble' = TRUE
           /\ UNCHANGED <<line, size, row, failed, reports>>

Surroundings ==
    \/ \E c \in Calls : \/ \E s \in {"half", "whole"}, bad \in BOOLEAN : Log(c, s, bad)
                        \/ Complete(c) \/ Tabulate(c)
    \/ Truncate \/ Succeed \/ Prune \/ Restart

Reported(c) == reports' = [reports EXCEPT ![c] = @ + 1]

(* The calls S are told of where a monitor has been sent back to. *)
SentBack(S) == reports' = [c \in Calls |-> IF c \in S THEN 0 ELSE reports[c]]

-----------------------------------------------------------------------------
(* monitor_logs.                                                           *)

Stat == /\ tail.at = "waiting" /\ size > tail.from
        /\ tail' = [tail EXCEPT !.at = "sized", !.upto = size]
        /\ UNCHANGED <<line, size, tablevars, failed, reports, trouble>>

(* What lies in the file from last_size to its end.  Half a line may be    *)
(* enough for the parser.                                                  *)
Within(state) == {c \in Calls : line[c].state = state /\ tail.from <= line[c].from}

(* The end of line, where it is half read from, is never a line. *)
Cut == {c \in Calls : line[c].state = "whole" /\ line[c].from + 1 = tail.from}

Unreadable == \E c \in Within("whole") \cup Within("half") \cup Cut : line[c].bad

Read == /\ tail.at = "sized" /\ ~Unreadable
        /\ \E guessed \in SUBSET Within("half") :
              tail' = [tail EXCEPT !.at = "reading", !.todo = Within("whole") \cup guessed]
        /\ UNCHANGED <<line, size, tablevars, failed, reports, trouble>>

(* A byte that is not UTF-8 raises: the monitor waits and begins again at  *)
(* the same place.                                                         *)
CannotRead == /\ tail.at = "sized" /\ Unreadable
              /\ tail' = Waiting(tail.from)
              /\ UNCHANGED <<line, size, tablevars, failed, reports, trouble>>

Handle(c) == /\ tail.at = "reading" /\ c \in tail.todo
             /\ \A d \in tail.todo : line[c].from <= line[d].from
             /\ Reported(c)
             /\ tail' = [tail EXCEPT !.todo = @ \ {c}]
             /\ UNCHANGED <<line, size, tablevars, failed, trouble>>

(* An exception while a line is handled, whichever it is: what has been    *)
(* read is dropped, and the monitor begins again at the same place.        *)
HandlingFails == /\ tail.at = "reading"
                 /\ tail' = Waiting(tail.from)
                 /\ SentBack(Within("whole") \cup Within("half"))
                 /\ UNCHANGED <<line, size, tablevars, failed, trouble>>

(* Two faulty ends of a batch: one goes on from where the file ends now,   *)
(* the other from where it began.                                          *)
ToTheEnd == tail' = Waiting(size)
NotAtAll == tail' = Waiting(tail.from)

(* last_size = current_size *)
Advance == tail' = Waiting(tail.upto)

Finish == /\ tail.at = "reading" /\ tail.todo = {}
          /\ Advance
          /\ UNCHANGED <<line, size, tablevars, failed, reports, trouble>>

MonitorLogs == \/ Stat \/ Read \/ CannotRead \/ HandlingFails \/ Finish
               \/ \E c \in Calls : Handle(c)

-----------------------------------------------------------------------------
(* monitor_sqlite.                                                         *)

(* Rows are gone that the monitor had not come to: go on from the end. *)
Check == /\ poll.at = "waiting"
         /\ poll' = IF poll.last < MinOf(Present) THEN Idle(MaxOf(Present))
                    ELSE [poll EXCEPT !.at = "checked"]
         /\ UNCHANGED <<logvars, row, failed, reports, trouble>>

Select == /\ poll.at = "checked"
          /\ poll' = [poll EXCEPT !.at = "reading",
                                  !.todo = {<<n, row[n]>> : n \in
                                              {m \in Present : m > poll.last /\ row[m] \in Calls}}]
          /\ UNCHANGED <<logvars, row, failed, reports, trouble>>

(* A faulty step that forgets how far it has come. *)
StandStill(n, c) == poll' = [poll EXCEPT !.todo = @ \ {<<n, c>>}]

Pass(n, c) == poll' = [poll EXCEPT !.todo = @ \ {<<n, c>>}, !.last = n]

(* The rows have been fetched: a row is handled even if it is gone. *)
HandleRow(n, c) ==
    /\ poll.at = "reading" /\ <<n, c>> \in poll.todo
    /\ \A r \in poll.todo : n <= r[1]
    /\ Reported(c)
    /\ Pass(n, c)
    /\ UNCHANGED <<logvars, row, failed, trouble>>

(* The database is locked, or gone. *)
CannotSelect == /\ poll.at = "checked"
                /\ poll' = Idle(poll.last)
                /\ UNCHANGED <<logvars, row, failed, reports, trouble>>

(* An exception while a row is handled, before or after the registry has   *)
(* taken the report: the rest is dropped, and this row is fetched again.   *)
RowFails(n, c) ==
    /\ poll.at = "reading" /\ <<n, c>> \in poll.todo
    /\ \A r \in poll.todo : n <= r[1]
    /\ SentBack({c})
    /\ poll' = Idle(poll.last)
    /\ UNCHANGED <<logvars, row, failed, trouble>>

Done == /\ poll.at = "reading" /\ poll.todo = {}
        /\ poll' = Idle(poll.last)
        /\ UNCHANGED <<logvars, row, failed, reports, trouble>>

MonitorTable == \/ Check \/ Select \/ CannotSelect \/ Done
                \/ \E n \in Rowids, c \in Calls : HandleRow(n, c) \/ RowFails(n, c)

Raises == HandlingFails \/ CannotSelect \/ \E n \in Rowids, c \in Calls : RowFails(n, c)

-----------------------------------------------------------------------------
Next == Surroundings \/ MonitorLogs \/ MonitorTable

Spec == Init /\ [][Next]_vars

(* Both monitors run for ever, and a line that is begun is finished. *)
Fairness == /\ WF_vars(MonitorLogs) /\ WF_vars(MonitorTable)
            /\ \A c \in Calls : WF_vars(Complete(c))

FairSpec == Spec /\ Fairness

-----------------------------------------------------------------------------
Feed == INSTANCE ErrorFeed WITH Repeats <- 2

(* Whatever becomes of the file and the table, a failure is reported only  *)
(* after it occurred, and at most twice for each time the monitor comes to *)
(* it: twice because the lines written between the stat of error.log and   *)
(* its read lie in two batches (daemon.py 489-530).  It comes to it once,  *)
(* and once more for every exception that sends it back (531-533).         *)
FeedIsServed == Feed!Spec

(* A row is reported once, through trimming, restarts and rowids that are  *)
(* used again, unless an exception follows its report (577-622).           *)
RowsAreReportedOnce == \A c \in Calls : line[c].state = "none" => reports[c] <= 1

(* While no line is torn or unreadable and nothing is rotated, dropped or  *)
(* restarted, and once exceptions have ceased, every failure is reported,  *)
(* however the gateway's writes fall between the steps of a round: an      *)
(* exception holds up what lies behind it, and loses nothing (daemon.py    *)
(* 483-533, 577-632).                                                      *)
QuietLosesNothing == ([]~trouble /\ <>[][~Raises]_vars) => Feed!NoneLost

(* A poll never goes past the row of a failure it has not reported         *)
(* (daemon.py 577-585).                                                    *)
NoRowIsSkipped ==
    [][MonitorTable => \A n \in Present :
          row[n] \in Calls /\ poll.last < n /\ n <= poll'.last => reports'[row[n]] > 0]_vars
=============================================================================
