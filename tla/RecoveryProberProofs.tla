-------------------------- MODULE RecoveryProberProofs -------------------------
(* That a probe's token does what it is for, for any providers and any     *)
(* number of models: news that comes before the tokens are compared is not *)
(* overwritten.                                                            *)
EXTENDS RecoveryProber, TLAPS

Places == {"resting", "cycle", "chosen", "asking", "current"}

Tokens == [status : {"none", "absent", "healthy", "cooldown", "probing", "disabled"},
           strikes : {"few", "passing", "final"}, stamp : Stamps]

Recoveries == [at : Places, due : SUBSET Providers, off : SUBSET Providers,
               p : Providers \cup {None},
               token : Tokens,
               news : {"none", "before", "after"}]

Shape == entry \in [Providers -> Entries] /\ recovery \in Recoveries

Asked == asked \in Providers \cup {None}

(* Only entries of errors are stamped, and all of them are. *)
StampsTell == \A p \in Providers :
    entry[p].stamp = 0 <=> entry[p].status \in {"absent", "healthy"}

(* No news is counted before there is a token, and no provider is being    *)
(* asked between the turns.                                                *)
NoNewsYet ==
    /\ recovery.at \in {"resting", "cycle"} => recovery.p = None
    /\ recovery.at \notin {"resting", "cycle"} => recovery.p \in Providers
    /\ recovery.at \in {"resting", "cycle", "chosen"} => recovery.news = "none"

(* After an error the entry does not have the token's stamp, unless a      *)
(* success has taken the stamp away.                                       *)
NewsShows ==
    recovery.at = "asking" /\ recovery.news = "before" =>
        \/ entry[recovery.p].stamp # recovery.token.stamp
        \/ entry[recovery.p].stamp = 0

(* Where the tokens were equal in spite of news, a success had come too.   *)
NewsIsOver ==
    recovery.at = "current" /\ recovery.news = "before" => entry[recovery.p].stamp = 0

IInv == Shape /\ StampsTell /\ NoNewsYet /\ NewsShows /\ NewsIsOver

(* How an entry may change while nothing is heard: it stays, gets a stamp  *)
(* that is in no token, or is absent or healthy without one.               *)
Quietly(x, y) == \/ y.stamp = x.stamp
                 \/ x.stamp # 0 /\ y.stamp # 0 /\ y.stamp # recovery.token.stamp
                 \/ y.stamp = 0

-----------------------------------------------------------------------------
LEMMA Plain ==
    /\ Healthy \in Entries /\ Absent \in Entries
    /\ Healthy.stamp = 0 /\ Healthy.status = "healthy"
    /\ Absent.stamp = 0 /\ Absent.status = "absent"
<1>1. 0 \in Stamps
  BY DEF Stamps
<1>2. Absent \in Entries
  BY <1>1 DEF Absent, Entries
<1>3. Healthy \in Entries
  BY <1>2 DEF Healthy, Entries
<1>4. Absent.stamp = 0 /\ Absent.status = "absent"
  BY DEF Absent
<1>5. Healthy.status = "healthy" /\ Healthy.stamp = 0
  BY <1>4 DEF Healthy, Absent
<1> QED
  BY <1>2, <1>3, <1>4, <1>5

LEMMA NewStamps ==
    ASSUME Shape
    PROVE  NewStamp \in {1, 2} /\ NewStamp # recovery.token.stamp
BY DEF Shape, Recoveries, Stamps, NewStamp

(* While the prober's own state stands still. *)
LEMMA QuietSteps ==
    ASSUME IInv, recovery' = recovery, entry' \in [Providers -> Entries], StampsTell',
           \A p \in Providers : Quietly(entry[p], entry'[p])
    PROVE  IInv'
<1>1. Shape' /\ NoNewsYet'
  BY DEF IInv, Shape, NoNewsYet
<1>2. ASSUME recovery.at \in {"asking", "current"}
      PROVE  recovery.p \in Providers /\ Quietly(entry[recovery.p], entry'[recovery.p])
  BY <1>2 DEF IInv, NoNewsYet
<1>3. NewsShows'
  BY <1>2 DEF IInv, NewsShows, Quietly
<1>4. NewsIsOver'
  BY <1>2 DEF IInv, NewsIsOver, Quietly
<1> QED
  BY <1>1, <1>3, <1>4 DEF IInv

LEMMA ErrorSteps ==
    ASSUME IInv, NEW p \in Providers, MarkError(p)
    PROVE  IInv'
<1>1. PICK s \in {"cooldown", "disabled"}, n \in {"few", "passing", "final"} :
        entry' = [entry EXCEPT ![p] = [status |-> s, running |-> TRUE, strikes |-> n,
                                       stamp |-> NewStamp]]
  <2>1. \A e \in Errors[p] : /\ e.status \in {"cooldown", "disabled"}
                             /\ e.strikes \in {"few", "passing", "final"}
    BY RecoveryAssumption
  <2> QED
    BY <2>1 DEF MarkError
<1> DEFINE heard == IF p # recovery.p \/ recovery.at = "chosen" THEN recovery.news
                    ELSE IF recovery.at = "current" THEN "after" ELSE "before"
<1>2. recovery' = [recovery EXCEPT !.news = heard]
  BY DEF MarkError
<1>3. Shape /\ NewStamp \in {1, 2} /\ NewStamp # recovery.token.stamp
  BY NewStamps DEF IInv
<1>4. heard \in {"none", "before", "after"}
  BY <1>3 DEF Shape, Recoveries
<1>5. [status |-> s, running |-> TRUE, strikes |-> n, stamp |-> NewStamp] \in Entries
  BY <1>3 DEF Entries, Stamps
<1>6. entry' \in [Providers -> Entries]
  BY <1>1, <1>3, <1>5 DEF Shape
<1>7. recovery' \in Recoveries
  BY <1>2, <1>3, <1>4 DEF Shape, Recoveries
<1>8. /\ entry'[p].stamp = NewStamp /\ entry'[p].status = s
      /\ \A q \in Providers : q # p => entry'[q] = entry[q]
  BY <1>1, <1>3 DEF Shape
<1>9. StampsTell'
  BY <1>3, <1>8 DEF IInv, StampsTell
<1>10. /\ recovery'.at = recovery.at /\ recovery'.p = recovery.p
       /\ recovery'.token = recovery.token /\ recovery'.news = heard
  BY <1>2, <1>3 DEF Shape, Recoveries
<1>11. p = recovery.p => recovery.at \notin {"resting", "cycle"}
  BY RecoveryAssumption DEF IInv, NoNewsYet
<1>12. NoNewsYet'
  BY <1>10, <1>11 DEF IInv, NoNewsYet
<1>13. NewsShows'
  BY <1>3, <1>8, <1>10 DEF IInv, NoNewsYet, NewsShows
<1>14. NewsIsOver'
  BY <1>3, <1>8, <1>10 DEF IInv, NoNewsYet, NewsIsOver
<1> QED
  BY <1>6, <1>7, <1>9, <1>12, <1>13, <1>14 DEF IInv, Shape

LEMMA HealthySteps ==
    ASSUME IInv, NEW p \in Providers, MarkHealthy(p)
    PROVE  /\ entry' \in [Providers -> Entries]
           /\ StampsTell'
           /\ \A q \in Providers : Quietly(entry[q], entry'[q])
<1>1. Healthy \in Entries /\ Healthy.stamp = 0 /\ Healthy.status = "healthy"
  BY Plain
<1>2. entry' \in [Providers -> Entries]
  BY <1>1 DEF MarkHealthy, IInv, Shape
<1>3. entry'[p] = Healthy /\ \A q \in Providers : q # p => entry'[q] = entry[q]
  BY DEF MarkHealthy, IInv, Shape
<1>4. StampsTell'
  BY <1>1, <1>3 DEF IInv, StampsTell
<1>5. \A q \in Providers : Quietly(entry[q], entry'[q])
  BY <1>1, <1>3 DEF Quietly
<1> QED
  BY <1>2, <1>4, <1>5

(* An end of a turn. *)
LEMMA LeavingSteps ==
    ASSUME IInv, NEW p \in Providers, Leave(p),
           entry' \in [Providers -> Entries], StampsTell'
    PROVE  IInv'
<1> DEFINE where == IF recovery.due = {p} THEN "resting" ELSE "cycle"
<1>1. recovery' = [at |-> where, due |-> recovery.due \ {p}, off |-> recovery.off \ {p},
                   p |-> None, token |-> NoToken, news |-> "none"]
  BY DEF Leave, Resting
<1>2. recovery' \in Recoveries
  <2>1. NoToken \in Tokens
    BY DEF NoToken, Tokens, Stamps
  <2>2. recovery.due \in SUBSET Providers /\ recovery.off \in SUBSET Providers
    BY DEF IInv, Shape, Recoveries
  <2>3. where \in Places
    BY DEF Places
  <2> HIDE DEF where
  <2> QED
    BY <1>1, <2>1, <2>2, <2>3 DEF Recoveries
<1>3. NoNewsYet' /\ NewsShows' /\ NewsIsOver'
  BY <1>1 DEF NoNewsYet, NewsShows, NewsIsOver
<1> QED
  BY <1>2, <1>3 DEF IInv, Shape

LEMMA CleanupSteps ==
    ASSUME IInv, NEW p \in Providers
    PROVE  /\ CleanedUp(entry[p]) \in Entries
           /\ CleanedUp(entry[p]).stamp = 0 <=>
                 CleanedUp(entry[p]).status \in {"absent", "healthy"}
           /\ Quietly(entry[p], CleanedUp(entry[p]))
<1> DEFINE x == entry[p]
<1>1. /\ x \in Entries
      /\ x.stamp = 0 <=> x.status \in {"absent", "healthy"}
      /\ NewStamp \in {1, 2} /\ NewStamp # recovery.token.stamp
  BY NewStamps DEF IInv, Shape, StampsTell
<1>a. NewStamp \in Stamps
  BY <1>1 DEF Stamps
<1> HIDE DEF x
<1>2. CASE x.status = "cooldown" /\ ~x.running /\ x.strikes # "final"
  <2>1. CleanedUp(x) = [x EXCEPT !.status = "probing", !.running = TRUE, !.stamp = NewStamp]
    BY <1>2 DEF CleanedUp
  <2>2. CleanedUp(x) \in Entries
    BY <1>1, <1>a, <2>1 DEF Entries
  <2>3. CleanedUp(x).stamp = NewStamp /\ CleanedUp(x).status = "probing"
    BY <1>1, <2>1 DEF Entries
  <2> QED
    BY <1>1, <1>2, <2>2, <2>3 DEF x, Quietly
<1>3. CASE x.status = "cooldown" /\ ~x.running /\ x.strikes = "final"
  <2>1. CleanedUp(x) = [x EXCEPT !.status = "disabled", !.running = TRUE]
    BY <1>3 DEF CleanedUp
  <2>2. CleanedUp(x) \in Entries
    BY <1>1, <2>1 DEF Entries, Stamps
  <2>3. CleanedUp(x).stamp = x.stamp /\ CleanedUp(x).status = "disabled"
    BY <1>1, <2>1 DEF Entries
  <2> QED
    BY <1>1, <1>3, <2>2, <2>3 DEF x, Quietly
<1>4. CASE x.status = "probing" /\ ~x.running
  <2>1. CleanedUp(x) = Absent
    BY <1>4 DEF CleanedUp
  <2> QED
    BY <1>1, <2>1, Plain DEF x, Quietly
<1>5. CASE ~(x.status = "cooldown" /\ ~x.running) /\ ~(x.status = "probing" /\ ~x.running)
  <2>1. CleanedUp(x) = x
    BY <1>5 DEF CleanedUp
  <2> QED
    BY <1>1, <2>1 DEF x, Quietly
<1> QED
  BY <1>2, <1>3, <1>4, <1>5

-----------------------------------------------------------------------------
LEMMA InitInv == Init => IInv
<1> SUFFICES ASSUME Init
             PROVE  IInv
  OBVIOUS
<1>1. /\ Healthy \in Entries /\ Healthy.stamp = 0 /\ Healthy.status = "healthy"
      /\ Absent \in Entries /\ Absent.stamp = 0 /\ Absent.status = "absent"
  BY Plain
<1>2. entry \in [Providers -> Entries] /\ StampsTell
  BY <1>1 DEF Init, StampsTell
<1>3. NoToken \in Tokens
  BY DEF NoToken, Tokens, Stamps
<1>4. recovery \in Recoveries
  BY <1>3 DEF Init, Resting, Recoveries, Places
<1>5. NoNewsYet /\ NewsShows /\ NewsIsOver
  BY DEF Init, Resting, NoNewsYet, NewsShows, NewsIsOver
<1> QED
  BY <1>2, <1>4, <1>5 DEF IInv, Shape

LEMMA StepAsked == Asked /\ [Next]_vars => Asked'
BY DEF Asked, Next, vars, Report, Succeed, TimePasses, CleanupExpired, Recovery, Snapshot,
       Choose, ReadToken, TestFails, CycleAborts, TestAnswers, Promote, Discovery, Discover, Found,
       FoundBroken, Known

LEMMA StepInv == IInv /\ Asked /\ [Next]_vars => IInv'
<1> SUFFICES ASSUME IInv, Asked, [Next]_vars
             PROVE  IInv'
  OBVIOUS
<1>1. ASSUME NEW p \in Providers, Report(p)
      PROVE  IInv'
  BY <1>1, ErrorSteps DEF Report
<1>2. ASSUME NEW p \in Providers, Succeed(p)
      PROVE  IInv'
  BY <1>2, HealthySteps, QuietSteps DEF Succeed
<1>3. ASSUME NEW p \in Providers, TimePasses(p)
      PROVE  IInv'
  <2>1. entry' = [entry EXCEPT ![p] = [entry[p] EXCEPT !.running = FALSE]]
        /\ recovery' = recovery
    BY <1>3 DEF TimePasses
  <2>2. entry[p] \in Entries
    BY DEF IInv, Shape
  <2>3. [entry[p] EXCEPT !.running = FALSE] \in Entries
    BY <2>2 DEF Entries
  <2>4. entry' \in [Providers -> Entries]
    BY <2>1, <2>3 DEF IInv, Shape
  <2>5. \A q \in Providers : /\ entry'[q].stamp = entry[q].stamp
                             /\ entry'[q].status = entry[q].status
    BY <2>1, <2>2 DEF IInv, Shape, Entries
  <2> QED
    BY <2>1, <2>4, <2>5, QuietSteps DEF IInv, StampsTell, Quietly
<1>4. CASE CleanupExpired
  <2>1. entry' = [p \in Providers |-> CleanedUp(entry[p])] /\ recovery' = recovery
    BY <1>4 DEF CleanupExpired
  <2> QED
    BY <2>1, CleanupSteps, QuietSteps DEF StampsTell
<1>5. CASE Snapshot
  <2>1. entry' = entry /\ recovery.at = "resting"
    BY <1>5 DEF Snapshot
  <2>2. PICK due \in SUBSET Providers, off \in SUBSET Providers :
           recovery' = [recovery EXCEPT !.at = "cycle", !.due = due, !.off = off]
    BY <1>5 DEF Snapshot
  <2>3. recovery' \in Recoveries
    BY <2>2 DEF IInv, Shape, Recoveries, Places
  <2>4. recovery'.at = "cycle" /\ recovery'.p = recovery.p /\ recovery'.news = recovery.news
    BY <2>2 DEF IInv, Shape, Recoveries
  <2> QED
    BY <2>1, <2>3, <2>4 DEF IInv, Shape, StampsTell, NoNewsYet, NewsShows, NewsIsOver
<1>6. ASSUME NEW p \in Providers, Choose(p)
      PROVE  IInv'
  <2>1. recovery.at = "cycle" /\ recovery' = [recovery EXCEPT !.at = "chosen", !.p = p]
    BY <1>6 DEF Choose
  <2>2. recovery' \in Recoveries
    BY <2>1 DEF IInv, Shape, Recoveries, Places
  <2>3. recovery'.at = "chosen" /\ recovery'.p = p /\ recovery'.news = recovery.news
    BY <2>1 DEF IInv, Shape, Recoveries
  <2>4. NoNewsYet' /\ NewsShows' /\ NewsIsOver'
    BY <2>1, <2>3 DEF IInv, NoNewsYet, NewsShows, NewsIsOver
  <2>5. CASE entry' = entry
    BY <2>2, <2>4, <2>5 DEF IInv, Shape, StampsTell
  <2>6. CASE entry' # entry
    <3>1. entry[p].status = "disabled" /\ entry[p] \in Entries
      BY <1>6, <2>6 DEF Choose, IInv, Shape
    <3>2. entry' = [entry EXCEPT ![p] = [entry[p] EXCEPT !.running = TRUE, !.stamp = NewStamp]]
      BY <1>6, <2>6 DEF Choose
    <3>3. NewStamp \in {1, 2} /\ NewStamp \in Stamps
      BY NewStamps DEF IInv, Stamps
    <3>4. [entry[p] EXCEPT !.running = TRUE, !.stamp = NewStamp] \in Entries
      BY <3>1, <3>3 DEF Entries
    <3>5. entry' \in [Providers -> Entries]
      BY <3>2, <3>4 DEF IInv, Shape
    <3>6. /\ entry'[p].stamp = NewStamp /\ entry'[p].status = "disabled"
          /\ \A q \in Providers : q # p => entry'[q] = entry[q]
      BY <3>1, <3>2 DEF IInv, Shape, Entries
    <3>7. StampsTell'
      BY <3>3, <3>6 DEF IInv, StampsTell
    <3> QED
      BY <2>2, <2>4, <3>5, <3>7 DEF IInv, Shape
  <2> QED
    BY <2>5, <2>6
<1>7. CASE ReadToken
  <2>1. /\ entry' = entry /\ recovery.at = "chosen"
        /\ recovery' = [recovery EXCEPT !.at = "asking", !.token = Token(entry[recovery.p])]
    BY <1>7 DEF ReadToken
  <2>2. recovery.p \in Providers /\ entry[recovery.p] \in Entries /\ recovery.news = "none"
    BY <2>1 DEF IInv, Shape, NoNewsYet
  <2>3. Token(entry[recovery.p]) \in Tokens
    BY <2>2 DEF Token, Tokens, Entries
  <2>4. recovery' \in Recoveries
    BY <2>1, <2>3 DEF IInv, Shape, Recoveries, Places
  <2>5. recovery'.at = "asking" /\ recovery'.p = recovery.p /\ recovery'.news = "none"
    BY <2>1, <2>2 DEF IInv, Shape, Recoveries
  <2> QED
    BY <2>1, <2>2, <2>4, <2>5 DEF IInv, Shape, StampsTell, NoNewsYet, NewsShows, NewsIsOver
<1>8. CASE TestFails
  <2>1. entry' = entry /\ Leave(recovery.p) /\ recovery.p \in Providers
    BY <1>8 DEF TestFails, IInv, NoNewsYet
  <2> QED
    BY <2>1, LeavingSteps DEF IInv, Shape, StampsTell
<1>9. CASE TestAnswers
  <2>1. entry' = entry /\ recovery.at = "asking" /\ recovery.p \in Providers
    BY <1>9 DEF TestAnswers, IInv, NoNewsYet
  <2>2. CASE Leave(recovery.p)
    BY <2>1, <2>2, LeavingSteps DEF IInv, Shape, StampsTell
  <2>3. CASE ~Leave(recovery.p)
    <3>1. /\ Token(entry[recovery.p]) = recovery.token
          /\ recovery' = [recovery EXCEPT !.at = "current"]
      BY <1>9, <2>3 DEF TestAnswers
    <3>2. recovery' \in Recoveries
      BY <3>1 DEF IInv, Shape, Recoveries, Places
    <3>3. /\ recovery'.at = "current" /\ recovery'.p = recovery.p
          /\ recovery'.news = recovery.news
      BY <3>1 DEF IInv, Shape, Recoveries
    <3>4. entry[recovery.p].stamp = recovery.token.stamp
      BY <3>1 DEF Token
    <3>5. NoNewsYet' /\ NewsShows'
      BY <2>1, <3>3 DEF NoNewsYet, NewsShows
    <3>6. NewsIsOver'
      BY <2>1, <3>3, <3>4 DEF IInv, NewsShows, NewsIsOver
    <3> QED
      BY <2>1, <3>2, <3>5, <3>6 DEF IInv, Shape, StampsTell
  <2> QED
    BY <2>2, <2>3
<1>10. CASE Promote
  <2>1. recovery.p \in Providers /\ MarkHealthy(recovery.p) /\ Leave(recovery.p)
    BY <1>10 DEF Promote, IInv, NoNewsYet
  <2> QED
    BY <2>1, HealthySteps, LeavingSteps
<1>11. ASSUME NEW p \in Providers, Discover(p)
       PROVE  IInv'
  BY <1>11 DEF Discover, IInv, Shape, StampsTell, NoNewsYet, NewsShows, NewsIsOver
<1>12. CASE Found
  BY <1>12, HealthySteps, QuietSteps DEF Found, Asked
<1>13. CASE FoundBroken
  BY <1>13, ErrorSteps DEF FoundBroken, Asked
<1>14. CASE UNCHANGED vars
  BY <1>14 DEF vars, IInv, Shape, StampsTell, NoNewsYet, NewsShows, NewsIsOver
<1>15. CASE CycleAborts
  <2>1. entry' = entry /\ recovery' = Resting
    BY <1>15 DEF CycleAborts
  <2>2. Resting \in Recoveries
    BY DEF Resting, Recoveries, Places, NoToken, Tokens, Stamps
  <2>3. recovery'.at = "resting" /\ recovery'.p = None /\ recovery'.news = "none"
    BY <2>1 DEF Resting
  <2>4. NoNewsYet' /\ NewsShows' /\ NewsIsOver'
    BY <2>1, <2>3 DEF NoNewsYet, NewsShows, NewsIsOver
  <2> QED
    BY <2>1, <2>2, <2>4 DEF IInv, Shape, StampsTell
<1> QED
  BY <1>1, <1>2, <1>3, <1>4, <1>5, <1>6, <1>7, <1>8, <1>9, <1>10, <1>11, <1>12, <1>13, <1>14,
     <1>15
  DEF Next, Recovery, Discovery

(* health_registry.py:587, daemon.py:431-463: a probe's success does not   *)
(* put a provider back whose latest error was recorded while the probe was *)
(* out and before the tokens were compared.                                *)
THEOREM TokensTell == Spec => NewsIsHeeded
<1>1. IInv => (Promote /\ ~Usable(entry[recovery.p]) => recovery.news # "before")
  <2> SUFFICES ASSUME IInv, Promote, recovery.news = "before"
               PROVE  Usable(entry[recovery.p])
    OBVIOUS
  <2>1. recovery.p \in Providers /\ entry[recovery.p].stamp = 0
    BY DEF Promote, IInv, NoNewsYet, NewsIsOver
  <2> QED
    BY <2>1 DEF IInv, StampsTell, Usable
<1>2. Init => Asked
  BY DEF Init, Asked
<1> QED
  BY <1>1, <1>2, InitInv, StepAsked, StepInv, PTL DEF Spec, NewsIsHeeded

-----------------------------------------------------------------------------
(* The rest of TypeOK. *)

(* What TypeOK says beyond IInv: where the rotations stand, whom discovery *)
(* knows, and that who was disabled is among those whose turn is to come.  *)
Turns == /\ turn \in [Providers -> Nat]
         /\ \A p \in Providers : turn[p] < Len(TestModels[p])

OffIsDue == recovery.off \subseteq recovery.due

Rest == Turns /\ OffIsDue /\ known \subseteq Providers

LEMMA RotatingTurns ==
    ASSUME Turns, NEW p \in Providers, Rotate(p)
    PROVE  Turns'
<1>1. Len(TestModels[p]) \in Nat \ {0}
  BY RecoveryAssumption
<1>2. turn[p] \in Nat
  BY DEF Turns
<1> DEFINE next == (turn[p] + 1) % Len(TestModels[p])
<1>3. next \in Nat /\ next < Len(TestModels[p])
  BY <1>1, <1>2
<1>4. turn' = [turn EXCEPT ![p] = next]
  BY DEF Rotate
<1> HIDE DEF next
<1>5. turn' \in [Providers -> Nat]
  BY <1>3, <1>4 DEF Turns
<1>6. ASSUME NEW q \in Providers
      PROVE  turn'[q] < Len(TestModels[q])
  BY <1>3, <1>4 DEF Turns
<1> QED
  BY <1>5, <1>6 DEF Turns

LEMMA LeavingOff ==
    ASSUME OffIsDue, NEW p, Leave(p)
    PROVE  OffIsDue'
BY DEF Leave, Resting, OffIsDue

LEMMA ErrorsLeaveOff ==
    ASSUME IInv, OffIsDue, NEW p, MarkError(p)
    PROVE  OffIsDue'
<1> DEFINE heard == IF p # recovery.p \/ recovery.at = "chosen" THEN recovery.news
                    ELSE IF recovery.at = "current" THEN "after" ELSE "before"
<1>1. recovery' = [recovery EXCEPT !.news = heard]
  BY DEF MarkError
<1>2. recovery'.off = recovery.off /\ recovery'.due = recovery.due
  BY <1>1 DEF IInv, Shape, Recoveries
<1> QED
  BY <1>2 DEF OffIsDue

LEMMA InitRest == Init => Rest
<1> SUFFICES ASSUME Init
             PROVE  Rest
  OBVIOUS
<1>1. Turns
  BY RecoveryAssumption DEF Init, Turns
<1> QED
  BY <1>1 DEF Init, Rest, Resting, OffIsDue

LEMMA StepRest == IInv /\ Asked /\ Rest /\ [Next]_vars => Rest'
<1> SUFFICES ASSUME IInv, Asked, Rest, [Next]_vars
             PROVE  Rest'
  OBVIOUS
<1> USE DEF Rest
<1>1. ASSUME NEW p \in Providers, Report(p)
      PROVE  Rest'
  BY <1>1, ErrorsLeaveOff DEF Report, Turns
<1>2. ASSUME NEW p \in Providers, Succeed(p) \/ TimePasses(p)
      PROVE  Rest'
  BY <1>2 DEF Succeed, TimePasses, Turns, OffIsDue
<1>3. CASE CleanupExpired
  BY <1>3 DEF CleanupExpired, Turns, OffIsDue
<1>4. CASE Snapshot
  <2>1. PICK off \in SUBSET Providers, some \in SUBSET Providers :
           recovery' = [recovery EXCEPT !.at = "cycle", !.due = off \cup some, !.off = off]
    BY <1>4 DEF Snapshot
  <2>2. recovery'.off = off /\ recovery'.due = off \cup some
    BY <2>1 DEF IInv, Shape, Recoveries
  <2> QED
    BY <1>4, <2>2 DEF Snapshot, Turns, OffIsDue
<1>5. ASSUME NEW p \in Providers, Choose(p)
      PROVE  Rest'
  <2>1. recovery'.off = recovery.off /\ recovery'.due = recovery.due
    BY <1>5 DEF Choose, IInv, Shape, Recoveries
  <2> QED
    BY <1>5, <2>1 DEF Choose, Turns, OffIsDue
<1>6. CASE ReadToken
  <2>1. recovery'.off = recovery.off /\ recovery'.due = recovery.due
    BY <1>6 DEF ReadToken, IInv, Shape, Recoveries
  <2> QED
    BY <1>6, <2>1 DEF ReadToken, Turns, OffIsDue
<1>7. CASE TestFails
  <2>1. recovery.p \in Providers /\ Rotate(recovery.p) /\ Leave(recovery.p) /\ known' = known
    BY <1>7 DEF TestFails, IInv, NoNewsYet
  <2> QED
    BY <2>1, RotatingTurns, LeavingOff
<1>8. CASE TestAnswers
  <2>1. recovery.p \in Providers /\ Rotate(recovery.p) /\ known' = known
    BY <1>8 DEF TestAnswers, IInv, NoNewsYet
  <2>2. Turns'
    BY <2>1, RotatingTurns
  <2>3. CASE Leave(recovery.p)
    BY <2>1, <2>2, <2>3, LeavingOff
  <2>4. CASE ~Leave(recovery.p)
    <3>1. recovery' = [recovery EXCEPT !.at = "current"]
      BY <1>8, <2>4 DEF TestAnswers
    <3>2. recovery'.off = recovery.off /\ recovery'.due = recovery.due
      BY <3>1 DEF IInv, Shape, Recoveries
    <3> QED
      BY <2>1, <2>2, <3>2 DEF OffIsDue
  <2> QED
    BY <2>3, <2>4
<1>9. CASE Promote
  BY <1>9, LeavingOff DEF Promote, Turns
<1>10. ASSUME NEW p \in Providers, Discover(p)
       PROVE  Rest'
  BY <1>10 DEF Discover, Turns, OffIsDue
<1>11. Known => known' \subseteq Providers \/ asked = None
  BY DEF Known, Asked
<1>12. CASE Found
  BY <1>11, <1>12 DEF Found, Turns, OffIsDue
<1>13. CASE FoundBroken
  BY <1>11, <1>13, ErrorsLeaveOff DEF FoundBroken, Turns
<1>14. CASE UNCHANGED vars
  BY <1>14 DEF vars, Turns, OffIsDue
<1>15. CASE CycleAborts
  <2>1. recovery.p \in Providers /\ Rotate(recovery.p) /\ recovery' = Resting /\ known' = known
    BY <1>15 DEF CycleAborts, IInv, NoNewsYet
  <2> QED
    BY <2>1, RotatingTurns DEF Resting, OffIsDue
<1> QED
  BY <1>1, <1>2, <1>3, <1>4, <1>5, <1>6, <1>7, <1>8, <1>9, <1>10, <1>12, <1>13, <1>14, <1>15
  DEF Next, Recovery, Discovery

(* daemon.py:384-463, provider_discovery.py: the three threads keep their  *)
(* state in its types whatever the others write; in particular a rotation  *)
(* always stands on a model that there is, and no provider is probed as    *)
(* disabled that the cycle did not begin with.                             *)
THEOREM ProbersTyped == Spec => []TypeOK
<1>1. IInv /\ Asked /\ Rest => TypeOK
  <2> SUFFICES ASSUME IInv, Asked, Rest
               PROVE  TypeOK
    OBVIOUS
  <2>1. entry \in [Providers -> Entries] /\ recovery \in Recoveries
    BY DEF IInv, Shape
  <2>2. /\ recovery.at \in {"resting", "cycle", "chosen", "asking", "current"}
        /\ recovery.due \subseteq Providers /\ recovery.p \in Providers \cup {None}
        /\ recovery.token \in Tokens /\ recovery.news \in {"none", "before", "after"}
    BY <2>1 DEF Recoveries, Places
  <2>3. recovery.token.stamp \in Stamps
    BY <2>2 DEF Tokens
  <2>4. (recovery.at \in {"resting", "cycle"}) <=> (recovery.p = None)
    BY RecoveryAssumption DEF IInv, NoNewsYet
  <2> QED
    BY <2>1, <2>2, <2>3, <2>4 DEF TypeOK, Asked, Rest, Turns, OffIsDue
<1>2. Init => Asked
  BY DEF Init, Asked
<1> QED
  BY <1>1, <1>2, InitInv, StepAsked, StepInv, InitRest, StepRest, PTL DEF Spec
=============================================================================
