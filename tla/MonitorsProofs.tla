---------------------------- MODULE MonitorsProofs -----------------------------
(* That the two monitors together serve the feed, for any calls and any    *)
(* number of rows: the types of their state, and the refinement.           *)
EXTENDS Monitors, WellFoundedInduction, TLAPS

InFile(c) == line[c].state \in {"half", "whole"}

(* Where c stands in the table, or in what the monitor has fetched of it. *)
At(n, c) == row[n] = c \/ <<n, c>> \in poll.todo

(* Whatever is told of anywhere has failed. *)
FailuresKnown ==
    \A c \in Calls :
        (line[c].state # "none" \/ reports[c] > 0 \/ \E n \in Rowids : At(n, c))
            => c \in failed

(* A gateway writes the file or the table. *)
OneOrTheOther == \A c \in Calls, n \in Rowids : line[c].state # "none" => ~At(n, c)

(* Lines lie in the file, batches have an extent, and what is read was     *)
(* written.                                                                *)
BatchesInOrder ==
    /\ \A c \in Calls : InFile(c) => line[c].from < size
    /\ tail.at # "reading" => tail.todo = {}
    /\ tail.at # "waiting" => tail.from < tail.upto
    /\ \A c \in tail.todo : line[c].state # "none"

(* A line that has been reported lies before the end of the batch that is  *)
(* read next: only one more batch can contain it.                          *)
OnceMore ==
    \A c \in Calls :
        /\ reports[c] <= 2
        /\ c \in tail.todo => reports[c] <= 1
        /\ InFile(c) /\ tail.at # "reading" /\ reports[c] = 2 => line[c].from < tail.from
        /\ InFile(c) /\ tail.at = "sized" /\ reports[c] > 0 => line[c].from < tail.upto
        /\ InFile(c) /\ tail.at = "reading"
             /\ (reports[c] = 2 \/ (reports[c] = 1 /\ c \in tail.todo))
             => line[c].from < tail.upto

(* A failure has one row, and the monitor is past it when it is reported. *)
RowsOnce ==
    /\ \A c \in Calls, n, m \in Rowids : At(n, c) /\ At(m, c) => n = m
    /\ \A c \in Calls, n \in Rowids :
          <<n, c>> \in poll.todo => n > poll.last /\ reports[c] = 0
    /\ \A c \in Calls, n \in Rowids :
          row[n] = c /\ reports[c] > 0 => n <= poll.last
    /\ \A c, d \in Calls, n \in Rowids :
          <<n, c>> \in poll.todo /\ <<n, d>> \in poll.todo => c = d

IInv == /\ TypeOK /\ FailuresKnown /\ OneOrTheOther /\ BatchesInOrder
        /\ OnceMore /\ RowsOnce /\ RowsAreReportedOnce

-----------------------------------------------------------------------------
(* Every nonempty set of rowids has a largest one. *)
Below(S) == {ss \in S \X S : ss[1] < ss[2]}

LEMMA NatWellFounded == IsWellFoundedOn(Below(Nat), Nat)
<1>1. OpToRel(<, Nat) = Below(Nat)
  BY DEF OpToRel, Below
<1> QED
  BY <1>1, NatLessThanWellFounded

LEMMA LargestExists ==
    ASSUME NEW N \in Nat, NEW S \in SUBSET (0 .. N), S # {}
    PROVE  \E n \in S : \A m \in S : m <= n
<1> DEFINE T == {k \in Nat : k <= N /\ N - k \in S}
<1>1. T \subseteq Nat /\ T # {}
  <2>1. PICK n \in S : TRUE
    OBVIOUS
  <2>2. N - n \in Nat /\ N - n <= N /\ N - (N - n) = n
    BY <2>1
  <2> QED
    BY <2>1, <2>2
<1> HIDE DEF T
<1>2. PICK x \in T : \A y \in T : <<y, x>> \notin Below(Nat)
  BY <1>1, NatWellFounded, WFMin
<1>3. ASSUME NEW y \in T
      PROVE  x <= y
  <2>1. x \in Nat /\ y \in Nat
    BY <1>1
  <2>2. ~(y < x)
    BY <1>2, <2>1 DEF Below
  <2> QED
    BY <2>1, <2>2
<1>4. N - x \in S /\ x \in Nat /\ x <= N
  BY DEF T
<1>5. ASSUME NEW m \in S
      PROVE  m <= N - x
  <2>1. m \in Nat /\ m <= N /\ N - m \in Nat /\ N - m <= N /\ N - (N - m) = m
    OBVIOUS
  <2>2. N - m \in T
    BY <2>1 DEF T
  <2> QED
    BY <1>3, <1>4, <2>1, <2>2
<1> QED
  BY <1>4, <1>5

LEMMA MaxOfPresent ==
    /\ MaxOf(Present) \in 0 .. MaxRow
    /\ \A n \in Present : n <= MaxOf(Present)
<1>1. Present \in SUBSET (0 .. MaxRow) /\ MaxRow \in Nat
  BY MonitorsAssumption DEF Present, Rowids
<1>2. CASE Present = {}
  BY <1>1, <1>2 DEF MaxOf
<1>3. CASE Present # {}
  <2>1. \E n \in Present : \A m \in Present : m <= n
    BY <1>1, <1>3, LargestExists
  <2>2. MaxOf(Present) \in Present /\ \A m \in Present : m <= MaxOf(Present)
    BY <1>3, <2>1 DEF MaxOf
  <2> QED
    BY <1>1, <2>2
<1> QED
  BY <1>2, <1>3

(* Neither mark of a row without a failure is a call. *)
LEMMA Marks == NoRow \notin Calls /\ Fine \notin Calls
BY MonitorsAssumption DEF NoRow, Fine

-----------------------------------------------------------------------------
LEMMA InitInv == Init => IInv
<1> SUFFICES ASSUME Init
             PROVE  IInv
  OBVIOUS
<1>1. Nowhere \in Lines /\ Nowhere.state = "none"
  BY DEF Nowhere, Lines
<1>2. /\ line \in [Calls -> Lines] /\ \A c \in Calls : line[c].state = "none"
      /\ failed = {} /\ reports \in [Calls -> 0 .. 2] /\ \A c \in Calls : reports[c] = 0
  BY <1>1 DEF Init
<1>3. size \in Nat /\ tail = [at |-> "waiting", from |-> size, upto |-> 0, todo |-> {}]
  BY DEF Init, Waiting
<1>4. tail \in Tails /\ tail.at = "waiting" /\ tail.todo = {}
  BY <1>3 DEF Tails
<1>5. row \in [Rowids -> {NoRow, Fine}]
  BY DEF Init
<1>6. poll = [at |-> "waiting", last |-> MaxOf(Present), todo |-> {}]
  BY DEF Init, Idle
<1>7. poll \in Polls /\ poll.todo = {}
  BY <1>6, MaxOfPresent DEF Polls
<1>8. trouble \in BOOLEAN
  BY DEF Init
<1>9. TypeOK
  BY <1>2, <1>3, <1>4, <1>5, <1>7, <1>8 DEF TypeOK
<1>10. \A c \in Calls, n \in Rowids : ~At(n, c)
  BY <1>5, <1>7, Marks DEF At
<1>11. FailuresKnown /\ OneOrTheOther /\ RowsOnce
  <2>1. FailuresKnown
    BY <1>2, <1>10 DEF FailuresKnown
  <2>2. OneOrTheOther
    BY <1>10 DEF OneOrTheOther
  <2>3. RowsOnce
    BY <1>2, <1>7, <1>10 DEF RowsOnce, At
  <2> QED
    BY <2>1, <2>2, <2>3
<1>12. BatchesInOrder /\ OnceMore /\ RowsAreReportedOnce
  BY <1>2, <1>4 DEF BatchesInOrder, OnceMore, RowsAreReportedOnce, InFile
<1> QED
  BY <1>9, <1>11, <1>12 DEF IInv

(* What the type of the state says of its parts. *)
LEMMA Parts ==
    ASSUME IInv
    PROVE  /\ \A c \in Calls : /\ line[c] \in Lines /\ line[c].from \in Nat
                               /\ reports[c] \in 0 .. 2
           /\ size \in Nat /\ tail.from \in Nat /\ tail.upto \in Nat
           /\ tail.todo \subseteq Calls /\ tail.at \in {"waiting", "sized", "reading"}
           /\ poll.last \in 0 .. MaxRow /\ poll.todo \subseteq Rowids \X Calls
BY DEF IInv, TypeOK, Lines, Tails, Polls

LEMMA LogSteps ==
    ASSUME IInv, NEW c \in Calls, NEW s \in {"half", "whole"}, NEW bad \in BOOLEAN,
           Log(c, s, bad)
    PROVE  IInv'
<1> DEFINE l == [state |-> s, from |-> size, bad |-> bad]
<1>1. /\ New(c) /\ line' = [line EXCEPT ![c] = l] /\ failed' = failed \cup {c}
      /\ tail' = tail /\ row' = row /\ poll' = poll /\ reports' = reports
  BY DEF Log, tablevars
<1>2. size' \in Nat /\ size' > size
  BY Parts DEF Log
<1>3. l \in Lines /\ l.state = s /\ l.from = size
  BY Parts DEF Lines
<1> HIDE DEF l
<1>4. line'[c] = l /\ \A d \in Calls : d # c => line'[d] = line[d]
  BY <1>1 DEF IInv, TypeOK
<1>5. trouble' \in BOOLEAN
  BY DEF Log, IInv, TypeOK
<1>6. TypeOK'
  BY <1>1, <1>2, <1>3, <1>5 DEF IInv, TypeOK
<1>7. reports[c] = 0 /\ \A n \in Rowids : ~At(n, c)
  <2>1. c \notin failed /\ reports[c] \in 0 .. 2
    BY <1>1, Parts DEF New
  <2>2. ~(reports[c] > 0) /\ ~ \E n \in Rowids : At(n, c)
    BY <2>1 DEF IInv, FailuresKnown
  <2> QED
    BY <2>1, <2>2
<1>8. c \notin tail.todo
  BY <1>1, Parts DEF IInv, BatchesInOrder, New
<1>9. FailuresKnown' /\ OneOrTheOther' /\ RowsOnce'
  BY <1>1, <1>4, <1>7 DEF IInv, FailuresKnown, OneOrTheOther, RowsOnce, At
<1>10. BatchesInOrder'
  <2>1. \A d \in Calls : InFile(d)' => line'[d].from < size'
    BY <1>2, <1>3, <1>4, Parts DEF IInv, BatchesInOrder, InFile
  <2>2. \A d \in tail'.todo : line'[d].state # "none"
    BY <1>1, <1>4, <1>8, Parts DEF IInv, BatchesInOrder
  <2> QED
    BY <1>1, <2>1, <2>2 DEF IInv, BatchesInOrder
<1>11. OnceMore'
  BY <1>1, <1>4, <1>7, <1>8 DEF IInv, OnceMore, InFile
<1>12. RowsAreReportedOnce'
  BY <1>1, <1>4, <1>7 DEF IInv, RowsAreReportedOnce
<1> QED
  BY <1>6, <1>9, <1>10, <1>11, <1>12 DEF IInv

LEMMA CompleteSteps ==
    ASSUME IInv, NEW c \in Calls, Complete(c)
    PROVE  IInv'
<1>1. /\ line[c].state = "half" /\ size' = size + 1
      /\ line' = [line EXCEPT ![c] = [line[c] EXCEPT !.state = "whole"]]
      /\ tail' = tail /\ row' = row /\ poll' = poll /\ reports' = reports
      /\ failed' = failed /\ trouble' = trouble
  BY DEF Complete, tablevars
<1>2. [line[c] EXCEPT !.state = "whole"] \in Lines
  BY Parts DEF Lines
<1>3. \A d \in Calls : /\ line'[d].from = line[d].from
                       /\ InFile(d)' <=> InFile(d)
                       /\ line'[d].state = "none" <=> line[d].state = "none"
  BY <1>1, <1>2, Parts DEF IInv, TypeOK, Lines, InFile
<1>4. TypeOK'
  BY <1>1, <1>2, Parts DEF IInv, TypeOK
<1>5. FailuresKnown' /\ OneOrTheOther' /\ RowsOnce'
  BY <1>1, <1>3 DEF IInv, FailuresKnown, OneOrTheOther, RowsOnce, At
<1>6. BatchesInOrder'
  BY <1>1, <1>3, Parts DEF IInv, BatchesInOrder
<1>7. OnceMore' /\ RowsAreReportedOnce'
  BY <1>1, <1>3 DEF IInv, OnceMore, RowsAreReportedOnce
<1> QED
  BY <1>4, <1>5, <1>6, <1>7 DEF IInv

LEMMA TruncateSteps ==
    ASSUME IInv, Truncate
    PROVE  IInv'
<1> DEFINE g(c) == IF line[c].state = "none" THEN line[c] ELSE [line[c] EXCEPT !.state = "gone"]
<1>1. /\ line' = [c \in Calls |-> g(c)] /\ size' = 0 /\ trouble' = TRUE
      /\ tail' = tail /\ row' = row /\ poll' = poll /\ reports' = reports /\ failed' = failed
  BY DEF Truncate, tablevars
<1>2. \A c \in Calls : /\ g(c) \in Lines /\ g(c).state \in {"none", "gone"}
                       /\ g(c).state = "none" <=> line[c].state = "none"
  BY Parts DEF Lines
<1> HIDE DEF g
<1>3. \A c \in Calls : ~InFile(c)' /\ (line'[c].state = "none" <=> line[c].state = "none")
  BY <1>1, <1>2 DEF InFile
<1>4. TypeOK'
  BY <1>1, <1>2 DEF IInv, TypeOK
<1>5. FailuresKnown' /\ OneOrTheOther' /\ RowsOnce'
  BY <1>1, <1>3 DEF IInv, FailuresKnown, OneOrTheOther, RowsOnce, At
<1>6. BatchesInOrder'
  BY <1>1, <1>3, Parts DEF IInv, BatchesInOrder
<1>7. OnceMore' /\ RowsAreReportedOnce'
  BY <1>1, <1>3 DEF IInv, OnceMore, RowsAreReportedOnce
<1> QED
  BY <1>4, <1>5, <1>6, <1>7 DEF IInv

(* A row of a call that fails, or of one that does not. *)
LEMMA InsertSteps ==
    ASSUME IInv, NEW what, Insert(what),
           \/ what \in Calls /\ New(what) /\ failed' = failed \cup {what}
           \/ what = Fine /\ failed' = failed
    PROVE  IInv'
<1> DEFINE n == MaxOf(Present) + 1
<1>1. /\ n \in Rowids /\ row' = [row EXCEPT ![n] = what]
      /\ line' = line /\ size' = size /\ tail' = tail /\ poll' = poll
      /\ reports' = reports /\ trouble' = trouble
  BY DEF Insert, logvars
<1> HIDE DEF n
<1>2. row'[n] = what /\ \A m \in Rowids : m # n => row'[m] = row[m]
  BY <1>1 DEF IInv, TypeOK
<1>3. TypeOK'
  BY <1>1 DEF IInv, TypeOK
<1>4. failed \subseteq failed' /\ (what \in Calls => what \in failed')
  BY Marks
<1>5. what \in Calls => /\ line[what].state = "none" /\ reports[what] = 0
                        /\ \A m \in Rowids : ~At(m, what)
  BY Marks, Parts DEF IInv, FailuresKnown, New, At
<1>6. FailuresKnown'
  BY <1>1, <1>2, <1>4 DEF IInv, FailuresKnown, At
<1>7. OneOrTheOther'
  BY <1>1, <1>2, <1>5 DEF IInv, OneOrTheOther, At
<1>8. RowsOnce'
  BY <1>1, <1>2, <1>5 DEF IInv, RowsOnce, At
<1>9. BatchesInOrder' /\ OnceMore' /\ RowsAreReportedOnce'
  BY <1>1 DEF IInv, BatchesInOrder, OnceMore, RowsAreReportedOnce, InFile
<1> QED
  BY <1>3, <1>6, <1>7, <1>8, <1>9 DEF IInv

LEMMA PruneSteps ==
    ASSUME IInv, Prune
    PROVE  IInv'
<1>1. PICK n \in Present : row' = [i \in Rowids |-> IF i <= n THEN NoRow ELSE row[i]]
  BY DEF Prune
<1>2. /\ line' = line /\ size' = size /\ tail' = tail /\ poll' = poll /\ failed' = failed
      /\ reports' = reports /\ trouble' = TRUE
  BY DEF Prune, logvars
<1>3. \A i \in Rowids : row'[i] = NoRow \/ row'[i] = row[i]
  BY <1>1
<1>4. row' \in [Rowids -> Calls \cup {NoRow, Fine}]
  BY <1>1 DEF IInv, TypeOK
<1>5. TypeOK'
  BY <1>2, <1>4 DEF IInv, TypeOK
<1>6. FailuresKnown' /\ OneOrTheOther' /\ RowsOnce'
  BY <1>2, <1>3, Marks DEF IInv, FailuresKnown, OneOrTheOther, RowsOnce, At
<1>7. BatchesInOrder' /\ OnceMore' /\ RowsAreReportedOnce'
  BY <1>2 DEF IInv, BatchesInOrder, OnceMore, RowsAreReportedOnce, InFile
<1> QED
  BY <1>5, <1>6, <1>7 DEF IInv

LEMMA RestartSteps ==
    ASSUME IInv, Restart
    PROVE  IInv'
<1>1. /\ tail' = [at |-> "waiting", from |-> size, upto |-> 0, todo |-> {}]
      /\ poll' = [at |-> "waiting", last |-> MaxOf(Present), todo |-> {}]
      /\ line' = line /\ size' = size /\ row' = row /\ failed' = failed
      /\ reports' = reports /\ trouble' = TRUE
  BY DEF Restart, Waiting, Idle
<1>2. tail' \in Tails /\ tail'.at = "waiting" /\ tail'.todo = {} /\ tail'.from = size
  BY <1>1, Parts DEF Tails
<1>3. poll' \in Polls /\ poll'.todo = {} /\ poll'.last = MaxOf(Present)
  BY <1>1, MaxOfPresent DEF Polls
<1>4. TypeOK'
  BY <1>1, <1>2, <1>3 DEF IInv, TypeOK
<1>5. FailuresKnown' /\ OneOrTheOther'
  BY <1>1, <1>3 DEF IInv, FailuresKnown, OneOrTheOther, At
<1>6. \A c \in Calls, n \in Rowids : row[n] = c => n <= MaxOf(Present)
  BY MaxOfPresent, Marks DEF Present
<1>7. RowsOnce'
  BY <1>1, <1>3, <1>6 DEF IInv, RowsOnce, At
<1>8. BatchesInOrder' /\ OnceMore' /\ RowsAreReportedOnce'
  BY <1>1, <1>2 DEF IInv, BatchesInOrder, OnceMore, RowsAreReportedOnce, InFile
<1> QED
  BY <1>4, <1>5, <1>7, <1>8 DEF IInv

-----------------------------------------------------------------------------
(* Steps of monitor_logs that report nothing. *)
LEMMA TailSteps ==
    ASSUME IInv, tail' \in Tails, BatchesInOrder', OnceMore',
           UNCHANGED <<line, size, tablevars, failed, reports, trouble>>
    PROVE  IInv'
<1>1. /\ line' = line /\ size' = size /\ row' = row /\ poll' = poll /\ failed' = failed
      /\ reports' = reports /\ trouble' = trouble
  BY DEF tablevars
<1>2. TypeOK'
  BY <1>1 DEF IInv, TypeOK
<1>3. FailuresKnown' /\ OneOrTheOther' /\ RowsOnce' /\ RowsAreReportedOnce'
  BY <1>1 DEF IInv, FailuresKnown, OneOrTheOther, RowsOnce, RowsAreReportedOnce, At
<1> QED
  BY <1>2, <1>3 DEF IInv

LEMMA StatSteps ==
    ASSUME IInv, Stat
    PROVE  IInv'
<1>1. /\ tail.at = "waiting" /\ size > tail.from
      /\ tail' = [tail EXCEPT !.at = "sized", !.upto = size]
      /\ line' = line /\ size' = size /\ reports' = reports
  BY DEF Stat
<1>2. /\ tail' \in Tails /\ tail'.at = "sized" /\ tail'.upto = size
      /\ tail'.from = tail.from /\ tail'.todo = tail.todo
  BY <1>1, Parts DEF IInv, TypeOK, Tails
<1>3. BatchesInOrder'
  BY <1>1, <1>2 DEF IInv, BatchesInOrder, InFile
<1>4. OnceMore'
  BY <1>1, <1>2 DEF IInv, BatchesInOrder, OnceMore, InFile
<1> QED
  BY <1>2, <1>3, <1>4, TailSteps DEF Stat

LEMMA ReadSteps ==
    ASSUME IInv, Read
    PROVE  IInv'
<1>1. PICK guessed \in SUBSET Within("half") :
         tail' = [tail EXCEPT !.at = "reading", !.todo = Within("whole") \cup guessed]
  BY DEF Read
<1> DEFINE todo == Within("whole") \cup guessed
<1>2. tail.at = "sized" /\ line' = line /\ size' = size /\ reports' = reports
  BY DEF Read
<1>3. todo \subseteq Calls /\ \A c \in todo : InFile(c) /\ tail.from <= line[c].from
  BY DEF Within, InFile
<1> HIDE DEF todo
<1>4. /\ tail' \in Tails /\ tail'.at = "reading" /\ tail'.upto = tail.upto
      /\ tail'.from = tail.from /\ tail'.todo = todo
  BY <1>1, <1>3 DEF IInv, TypeOK, Tails, todo
<1>5. BatchesInOrder'
  BY <1>2, <1>3, <1>4 DEF IInv, BatchesInOrder, InFile
<1>6. ASSUME NEW c \in todo
      PROVE  reports[c] <= 1
  <2>1. reports[c] \in 0 .. 2 /\ line[c].from \in Nat /\ tail.from \in Nat
    BY <1>3, Parts
  <2>2. reports[c] # 2
    BY <1>2, <1>3, <2>1 DEF IInv, OnceMore
  <2> QED
    BY <2>1, <2>2
<1>7. ASSUME NEW c \in Calls, InFile(c), reports[c] > 0
      PROVE  line[c].from < tail.upto
  BY <1>2, <1>7 DEF IInv, OnceMore
<1>8. OnceMore'
  BY <1>2, <1>4, <1>6, <1>7 DEF IInv, OnceMore, InFile
<1> QED
  BY <1>4, <1>5, <1>8, TailSteps DEF Read

LEMMA CannotReadSteps ==
    ASSUME IInv, CannotRead
    PROVE  IInv'
<1>1. /\ tail.at = "sized" /\ line' = line /\ size' = size /\ reports' = reports
      /\ tail' = [at |-> "waiting", from |-> tail.from, upto |-> 0, todo |-> {}]
  BY DEF CannotRead, Waiting
<1>2. tail' \in Tails /\ tail'.at = "waiting" /\ tail'.todo = {} /\ tail'.from = tail.from
  BY <1>1, Parts DEF Tails
<1>3. BatchesInOrder' /\ OnceMore'
  BY <1>1, <1>2 DEF IInv, BatchesInOrder, OnceMore, InFile
<1> QED
  BY <1>2, <1>3, TailSteps DEF CannotRead

LEMMA FinishSteps ==
    ASSUME IInv, Finish
    PROVE  IInv'
<1>1. /\ tail.at = "reading" /\ tail.todo = {}
      /\ line' = line /\ size' = size /\ reports' = reports
      /\ tail' = [at |-> "waiting", from |-> tail.upto, upto |-> 0, todo |-> {}]
  BY DEF Finish, Advance, Waiting
<1>2. tail' \in Tails /\ tail'.at = "waiting" /\ tail'.todo = {} /\ tail'.from = tail.upto
  BY <1>1, Parts DEF Tails
<1>3. BatchesInOrder' /\ OnceMore'
  BY <1>1, <1>2 DEF IInv, BatchesInOrder, OnceMore, InFile
<1> QED
  BY <1>2, <1>3, TailSteps DEF Finish

(* How the reports grow. *)
LEMMA OneReport ==
    ASSUME IInv, NEW c \in Calls, Reported(c)
    PROVE  reports'[c] = reports[c] + 1 /\ \A d \in Calls : d # c => reports'[d] = reports[d]
BY DEF Reported, IInv, TypeOK

LEMMA HandleSteps ==
    ASSUME IInv, NEW c \in Calls, Handle(c)
    PROVE  IInv' /\ reports[c] <= 1 /\ c \in failed
<1>1. /\ tail.at = "reading" /\ c \in tail.todo /\ Reported(c)
      /\ tail' = [tail EXCEPT !.todo = tail.todo \ {c}]
      /\ line' = line /\ size' = size /\ row' = row /\ poll' = poll
      /\ failed' = failed /\ trouble' = trouble
  BY DEF Handle, tablevars
<1>2. /\ tail' \in Tails /\ tail'.at = "reading" /\ tail'.upto = tail.upto
      /\ tail'.from = tail.from /\ tail'.todo = tail.todo \ {c}
  BY <1>1 DEF IInv, TypeOK, Tails
<1>3. reports[c] \in 0 .. 1 /\ line[c].state # "none"
  BY <1>1, Parts DEF IInv, OnceMore, BatchesInOrder
<1>4. c \in failed /\ \A n \in Rowids : ~At(n, c)
  BY <1>3 DEF IInv, FailuresKnown, OneOrTheOther
<1>5. reports'[c] = reports[c] + 1 /\ \A d \in Calls : d # c => reports'[d] = reports[d]
  BY <1>1, OneReport
<1>6. reports' \in [Calls -> 0 .. 2]
  <2>1. reports[c] + 1 \in 0 .. 2
    BY <1>3
  <2> QED
    BY <1>1, <2>1 DEF Reported, IInv, TypeOK
<1>7. TypeOK'
  BY <1>1, <1>2, <1>6 DEF IInv, TypeOK
<1>8. FailuresKnown' /\ OneOrTheOther' /\ RowsOnce' /\ RowsAreReportedOnce'
  BY <1>1, <1>3, <1>4, <1>5
  DEF IInv, FailuresKnown, OneOrTheOther, RowsOnce, RowsAreReportedOnce, At
<1>9. BatchesInOrder'
  BY <1>1, <1>2 DEF IInv, BatchesInOrder, InFile
<1>10. InFile(c) /\ reports[c] = 1 => line[c].from < tail.upto
  BY <1>1 DEF IInv, OnceMore
<1>11. OnceMore'
  BY <1>1, <1>2, <1>3, <1>5, <1>10 DEF IInv, OnceMore, InFile
<1> QED
  BY <1>3, <1>4, <1>7, <1>8, <1>9, <1>11 DEF IInv

-----------------------------------------------------------------------------
(* Steps of monitor_sqlite that report nothing. *)
LEMMA PollSteps ==
    ASSUME IInv, poll' \in Polls, RowsOnce',
           \A c \in Calls, n \in Rowids : <<n, c>> \in poll'.todo => At(n, c),
           UNCHANGED <<logvars, row, failed, reports, trouble>>
    PROVE  IInv'
<1>1. /\ line' = line /\ size' = size /\ tail' = tail /\ row' = row /\ failed' = failed
      /\ reports' = reports /\ trouble' = trouble
  BY DEF logvars
<1>2. TypeOK'
  BY <1>1 DEF IInv, TypeOK
<1>3. FailuresKnown' /\ OneOrTheOther'
  BY <1>1 DEF IInv, FailuresKnown, OneOrTheOther, At
<1>4. BatchesInOrder' /\ OnceMore' /\ RowsAreReportedOnce'
  BY <1>1 DEF IInv, BatchesInOrder, OnceMore, RowsAreReportedOnce, InFile
<1> QED
  BY <1>2, <1>3, <1>4 DEF IInv

LEMMA CheckSteps ==
    ASSUME IInv, Check
    PROVE  IInv'
<1>1. row' = row /\ reports' = reports
  BY DEF Check
<1>2. CASE poll.last < MinOf(Present)
  <2>1. poll' = [at |-> "waiting", last |-> MaxOf(Present), todo |-> {}]
    BY <1>2 DEF Check, Idle
  <2>2. poll' \in Polls /\ poll'.todo = {} /\ poll'.last = MaxOf(Present)
    BY <2>1, MaxOfPresent DEF Polls
  <2>3. \A c \in Calls, n \in Rowids : row[n] = c => n <= MaxOf(Present)
    BY MaxOfPresent, Marks DEF Present
  <2>4. RowsOnce'
    BY <1>1, <2>2, <2>3 DEF IInv, RowsOnce, At
  <2> QED
    BY <2>2, <2>4, PollSteps DEF Check
<1>3. CASE ~(poll.last < MinOf(Present))
  <2>1. poll' = [poll EXCEPT !.at = "checked"]
    BY <1>3 DEF Check
  <2>2. poll' \in Polls /\ poll'.todo = poll.todo /\ poll'.last = poll.last
    BY <2>1 DEF IInv, TypeOK, Polls
  <2>3. RowsOnce'
    BY <1>1, <2>2 DEF IInv, RowsOnce, At
  <2> QED
    BY <2>2, <2>3, PollSteps DEF Check, At
<1> QED
  BY <1>2, <1>3

LEMMA SelectSteps ==
    ASSUME IInv, Select
    PROVE  IInv'
<1> DEFINE todo == {<<n, row[n]>> : n \in {m \in Present : m > poll.last /\ row[m] \in Calls}}
<1>1. poll' = [poll EXCEPT !.at = "reading", !.todo = todo] /\ row' = row /\ reports' = reports
  BY DEF Select
<1>2. todo \subseteq Rowids \X Calls
  BY DEF Present
<1>3. \A c \in Calls, n \in Rowids : <<n, c>> \in todo => row[n] = c /\ n > poll.last
  OBVIOUS
<1> HIDE DEF todo
<1>4. poll' \in Polls /\ poll'.todo = todo /\ poll'.last = poll.last
  BY <1>1, <1>2 DEF IInv, TypeOK, Polls
<1>5. ASSUME NEW c \in Calls, NEW n \in Rowids, <<n, c>> \in todo
      PROVE  reports[c] = 0
  <2>1. row[n] = c /\ n > poll.last /\ poll.last \in Nat /\ n \in Nat /\ reports[c] \in 0 .. 2
    BY <1>3, <1>5, Parts DEF Rowids
  <2>2. ~(reports[c] > 0)
    BY <2>1 DEF IInv, RowsOnce
  <2> QED
    BY <2>1, <2>2
<1>6. RowsOnce'
  BY <1>1, <1>3, <1>4, <1>5 DEF IInv, RowsOnce, At
<1> QED
  BY <1>3, <1>4, <1>6, PollSteps DEF Select, At

LEMMA DoneSteps ==
    ASSUME IInv, Done
    PROVE  IInv'
<1>1. /\ poll.todo = {} /\ row' = row /\ reports' = reports
      /\ poll' = [at |-> "waiting", last |-> poll.last, todo |-> {}]
  BY DEF Done, Idle
<1>2. poll' \in Polls /\ poll'.todo = {} /\ poll'.last = poll.last
  BY <1>1, Parts DEF Polls
<1>3. RowsOnce'
  BY <1>1, <1>2 DEF IInv, RowsOnce, At
<1> QED
  BY <1>2, <1>3, PollSteps DEF Done

LEMMA HandleRowSteps ==
    ASSUME IInv, NEW n \in Rowids, NEW c \in Calls, HandleRow(n, c)
    PROVE  IInv' /\ reports[c] = 0 /\ c \in failed
<1>1. /\ <<n, c>> \in poll.todo /\ Reported(c)
      /\ \A r \in poll.todo : n <= r[1]
      /\ poll' = [poll EXCEPT !.todo = poll.todo \ {<<n, c>>}, !.last = n]
      /\ line' = line /\ size' = size /\ tail' = tail /\ row' = row
      /\ failed' = failed /\ trouble' = trouble
  BY DEF HandleRow, Pass, logvars
<1>2. n \in 0 .. MaxRow /\ n \in Nat
  BY MonitorsAssumption DEF Rowids
<1>3. poll' \in Polls /\ poll'.todo = poll.todo \ {<<n, c>>} /\ poll'.last = n
  BY <1>1, <1>2 DEF IInv, TypeOK, Polls
<1>4. reports[c] = 0 /\ n > poll.last /\ At(n, c)
  BY <1>1 DEF IInv, RowsOnce, At
<1>5. c \in failed /\ line[c].state = "none"
  BY <1>4 DEF IInv, FailuresKnown, OneOrTheOther
<1>6. reports'[c] = 1 /\ \A d \in Calls : d # c => reports'[d] = reports[d]
  BY <1>1, <1>4, OneReport
<1>7. reports' \in [Calls -> 0 .. 2]
  <2>1. reports[c] + 1 \in 0 .. 2
    BY <1>4
  <2> QED
    BY <1>1, <2>1 DEF Reported, IInv, TypeOK
<1>8. TypeOK'
  BY <1>1, <1>3, <1>7 DEF IInv, TypeOK
<1>9. FailuresKnown' /\ OneOrTheOther'
  BY <1>1, <1>3, <1>5, <1>6 DEF IInv, FailuresKnown, OneOrTheOther, At
<1>10. ASSUME NEW d \in Calls, NEW m \in Rowids, <<m, d>> \in poll'.todo
       PROVE  m > n /\ d # c
  <2>1. <<m, d>> \in poll.todo /\ <<m, d>> # <<n, c>>
    BY <1>3, <1>10
  <2>2. n <= m /\ m \in Nat
    BY <1>1, <2>1 DEF Rowids
  <2>3. m # n
    BY <2>1, <1>1 DEF IInv, RowsOnce
  <2>4. d # c
    BY <1>4, <2>1, <2>3 DEF IInv, RowsOnce, At
  <2> QED
    BY <1>2, <2>2, <2>3, <2>4
<1>11. RowsOnce'
  <2>1. \A d \in Calls, k, m \in Rowids : At(k, d)' /\ At(m, d)' => k = m
    BY <1>1, <1>3 DEF IInv, RowsOnce, At
  <2>2. \A d \in Calls, m \in Rowids :
           <<m, d>> \in poll'.todo => m > poll'.last /\ reports'[d] = 0
    BY <1>3, <1>6, <1>10 DEF IInv, RowsOnce
  <2>3. \A d \in Calls, m \in Rowids : row'[m] = d /\ reports'[d] > 0 => m <= poll'.last
    <3> SUFFICES ASSUME NEW d \in Calls, NEW m \in Rowids, row[m] = d, reports'[d] > 0
                 PROVE  m <= n
      BY <1>1, <1>3
    <3>1. CASE d = c
      <4>1. At(m, c)
        BY <3>1 DEF At
      <4>2. m = n
        BY <1>4, <4>1 DEF IInv, RowsOnce
      <4> QED
        BY <1>2, <4>2
    <3>2. CASE d # c
      <4>1. m <= poll.last /\ poll.last \in Nat /\ m \in Nat
        BY <1>6, <3>2, Parts DEF IInv, RowsOnce, Rowids
      <4> QED
        BY <1>2, <1>4, <4>1
    <3> QED
      BY <3>1, <3>2
  <2>4. \A d, e \in Calls, m \in Rowids :
           <<m, d>> \in poll'.todo /\ <<m, e>> \in poll'.todo => d = e
    BY <1>3 DEF IInv, RowsOnce
  <2> QED
    BY <2>1, <2>2, <2>3, <2>4 DEF RowsOnce
<1>12. BatchesInOrder'
  BY <1>1 DEF IInv, BatchesInOrder, InFile
<1>13. c \notin tail.todo /\ ~InFile(c)
  BY <1>5 DEF IInv, BatchesInOrder, InFile
<1>14. OnceMore' /\ RowsAreReportedOnce'
  BY <1>1, <1>6, <1>13 DEF IInv, OnceMore, RowsAreReportedOnce, InFile
<1> QED
  BY <1>4, <1>5, <1>8, <1>9, <1>11, <1>12, <1>14 DEF IInv

LEMMA CannotSelectSteps ==
    ASSUME IInv, CannotSelect
    PROVE  IInv'
<1>1. /\ row' = row /\ reports' = reports
      /\ poll' = [at |-> "waiting", last |-> poll.last, todo |-> {}]
  BY DEF CannotSelect, Idle
<1>2. poll' \in Polls /\ poll'.todo = {} /\ poll'.last = poll.last
  BY <1>1, Parts DEF Polls
<1>3. RowsOnce'
  BY <1>1, <1>2 DEF IInv, RowsOnce, At
<1> QED
  BY <1>2, <1>3, PollSteps DEF CannotSelect

-----------------------------------------------------------------------------
(* What an exception sends back is counted afresh. *)
LEMMA CountedAfresh ==
    ASSUME IInv, NEW S \in SUBSET Calls, SentBack(S)
    PROVE  /\ reports' \in [Calls -> 0 .. 2]
           /\ \A c \in S : reports'[c] = 0
           /\ \A c \in Calls : c \notin S => reports'[c] = reports[c]
BY Parts DEF SentBack

LEMMA HandlingFailsSteps ==
    ASSUME IInv, HandlingFails
    PROVE  IInv'
<1> DEFINE S == Within("whole") \cup Within("half")
<1>1. /\ tail' = [at |-> "waiting", from |-> tail.from, upto |-> 0, todo |-> {}]
      /\ SentBack(S)
      /\ line' = line /\ size' = size /\ row' = row /\ poll' = poll
      /\ failed' = failed /\ trouble' = trouble
  BY DEF HandlingFails, Waiting, tablevars
<1>2. S \subseteq Calls /\ \A c \in Calls : c \in S <=> InFile(c) /\ tail.from <= line[c].from
  BY DEF Within, InFile
<1> HIDE DEF S
<1>3. /\ reports' \in [Calls -> 0 .. 2] /\ \A c \in S : reports'[c] = 0
      /\ \A c \in Calls : c \notin S => reports'[c] = reports[c]
  BY <1>1, <1>2, CountedAfresh
<1>4. tail' \in Tails /\ tail'.at = "waiting" /\ tail'.todo = {} /\ tail'.from = tail.from
  BY <1>1, Parts DEF Tails
<1>5. TypeOK'
  BY <1>1, <1>3, <1>4 DEF IInv, TypeOK
<1>6. \A c \in Calls : reports'[c] = 0 \/ reports'[c] = reports[c]
  BY <1>3
<1>7. FailuresKnown' /\ OneOrTheOther' /\ RowsOnce' /\ RowsAreReportedOnce'
  BY <1>1, <1>6, Parts
  DEF IInv, FailuresKnown, OneOrTheOther, RowsOnce, RowsAreReportedOnce, At
<1>8. BatchesInOrder'
  BY <1>1, <1>4 DEF IInv, BatchesInOrder, InFile
<1>9. OnceMore'
  <2>1. ASSUME NEW c \in Calls, InFile(c), reports'[c] = 2
        PROVE  line[c].from < tail.from
    <3>1. ~(tail.from <= line[c].from)
      BY <1>2, <1>3, <2>1
    <3> QED
      BY <3>1, Parts
  <2> QED
    BY <1>1, <1>3, <1>4, <2>1 DEF OnceMore, InFile
<1> QED
  BY <1>5, <1>7, <1>8, <1>9 DEF IInv

LEMMA RowFailsSteps ==
    ASSUME IInv, NEW n \in Rowids, NEW c \in Calls, RowFails(n, c)
    PROVE  IInv'
<1>1. /\ <<n, c>> \in poll.todo /\ SentBack({c}) /\ row' = row
      /\ poll' = [at |-> "waiting", last |-> poll.last, todo |-> {}]
  BY DEF RowFails, Idle
<1>2. poll' \in Polls /\ poll'.todo = {} /\ poll'.last = poll.last
  BY <1>1, Parts DEF Polls
<1>3. reports[c] = 0
  BY <1>1 DEF IInv, RowsOnce
<1>4. reports' = reports
  BY <1>1, <1>3 DEF SentBack, IInv, TypeOK
<1>5. RowsOnce'
  BY <1>1, <1>2, <1>4 DEF IInv, RowsOnce, At
<1> QED
  BY <1>2, <1>4, <1>5, PollSteps DEF RowFails

-----------------------------------------------------------------------------
LEMMA StepInv == IInv /\ [Next]_vars => IInv'
<1> SUFFICES ASSUME IInv, [Next]_vars
             PROVE  IInv'
  OBVIOUS
<1>1. CASE Surroundings
  <2>1. ASSUME NEW c \in Calls, Tabulate(c)
        PROVE  IInv'
    BY <2>1, InsertSteps DEF Tabulate
  <2>2. CASE Succeed
    <3>1. Insert(Fine) /\ failed' = failed
      BY <2>2 DEF Succeed
    <3> QED
      BY <3>1, InsertSteps
  <2> QED
    BY <1>1, <2>1, <2>2, LogSteps, CompleteSteps, TruncateSteps, PruneSteps, RestartSteps
    DEF Surroundings
<1>2. CASE MonitorLogs
  BY <1>2, StatSteps, ReadSteps, CannotReadSteps, HandlingFailsSteps, FinishSteps, HandleSteps
  DEF MonitorLogs
<1>3. CASE MonitorTable
  BY <1>3, CheckSteps, SelectSteps, CannotSelectSteps, DoneSteps, HandleRowSteps, RowFailsSteps
  DEF MonitorTable
<1>4. CASE UNCHANGED vars
  <2>1. /\ line' = line /\ size' = size /\ tail' = tail /\ row' = row /\ poll' = poll
        /\ failed' = failed /\ reports' = reports /\ trouble' = trouble
    BY <1>4 DEF vars, logvars, tablevars
  <2>2. TypeOK' /\ FailuresKnown' /\ OneOrTheOther'
    BY <2>1 DEF IInv, TypeOK, FailuresKnown, OneOrTheOther, At
  <2>3. BatchesInOrder' /\ OnceMore' /\ RowsOnce' /\ RowsAreReportedOnce'
    BY <2>1 DEF IInv, BatchesInOrder, OnceMore, RowsOnce, RowsAreReportedOnce, InFile, At
  <2> QED
    BY <2>2, <2>3 DEF IInv
<1> QED
  BY <1>1, <1>2, <1>3, <1>4 DEF Next

(* The state of both monitors has its type: a file offset, a batch within  *)
(* the calls, a rowid within the table, and at most two reports of a call  *)
(* since an exception last sent a monitor back to it (daemon.py 473-632).  *)
THEOREM TypeCorrect == Spec => []TypeOK
<1>1. IInv => TypeOK
  BY DEF IInv
<1> QED
  BY <1>1, InitInv, StepInv, PTL DEF Spec

(* A failure that stands in the table is reported once, through trimming,  *)
(* restarts and exceptions, unless an exception follows its report         *)
(* (daemon.py 577-632).                                                    *)
THEOREM RowReportedOnce == Spec => []RowsAreReportedOnce
<1>1. IInv => RowsAreReportedOnce
  BY DEF IInv
<1> QED
  BY <1>1, InitInv, StepInv, PTL DEF Spec

(* What a step is to the registry. *)
LEMMA FeedSteps == IInv /\ [Next]_vars => [Feed!Next]_(Feed!vars)
<1> SUFFICES ASSUME IInv, [Next]_vars
             PROVE  Feed!Next \/ (failed' = failed /\ reports' = reports)
  BY DEF Feed!vars
<1>1. ASSUME NEW c \in Calls, failed' = failed \cup {c}, reports' = reports
      PROVE  Feed!Next
  BY <1>1 DEF Feed!Next, Feed!Fail
<1>2. ASSUME NEW c \in Calls, c \in failed, reports[c] <= 1, Reported(c), failed' = failed
      PROVE  Feed!Next
  <2>1. reports[c] < 2
    BY <1>2, Parts
  <2> QED
    BY <1>2, <2>1 DEF Feed!Next, Feed!Report, Reported
<1>7. ASSUME NEW S \in SUBSET Calls, SentBack(S), failed' = failed
      PROVE  Feed!Next
  BY <1>7 DEF Feed!Next, Feed!Afresh, SentBack
<1>3. CASE Surroundings
  BY <1>1, <1>3 DEF Surroundings, Log, Complete, Tabulate, Insert, Truncate, Succeed, Prune, Restart
<1>4. CASE MonitorLogs
  <2>1. ASSUME NEW c \in Calls, Handle(c)
        PROVE  Feed!Next
    BY <1>2, <2>1, HandleSteps DEF Handle
  <2>2. CASE HandlingFails
    <3>1. Within("whole") \cup Within("half") \in SUBSET Calls
      BY DEF Within
    <3> QED
      BY <1>7, <2>2, <3>1 DEF HandlingFails
  <2> QED
    BY <1>4, <2>1, <2>2 DEF MonitorLogs, Stat, Read, CannotRead, Finish
<1>5. CASE MonitorTable
  <2>1. ASSUME NEW n \in Rowids, NEW c \in Calls, HandleRow(n, c)
        PROVE  Feed!Next
    <3>1. reports[c] <= 1 /\ c \in failed
      BY <2>1, HandleRowSteps
    <3> QED
      BY <1>2, <2>1, <3>1 DEF HandleRow
  <2>2. ASSUME NEW n \in Rowids, NEW c \in Calls, RowFails(n, c)
        PROVE  Feed!Next
    BY <1>7, <2>2 DEF RowFails
  <2> QED
    BY <1>5, <2>1, <2>2 DEF MonitorTable, Check, Select, CannotSelect, Done
<1>6. CASE UNCHANGED vars
  BY <1>6 DEF vars
<1> QED
  BY <1>3, <1>4, <1>5, <1>6 DEF Next

(* The monitors implement the feed: whatever is rotated, dropped, torn,    *)
(* restarted or raised, the registry hears of a failure only after it      *)
(* occurred, and at most twice before an exception sends a monitor back to *)
(* it (daemon.py 473-632).                                                 *)
THEOREM FeedServed == Spec => FeedIsServed
<1>1. Init => Feed!Init
  BY DEF Init, Feed!Init
<1> QED
  BY <1>1, InitInv, StepInv, FeedSteps, PTL DEF Spec, FeedIsServed, Feed!Spec
=============================================================================
