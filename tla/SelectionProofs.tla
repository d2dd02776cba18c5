---------------------------- MODULE SelectionProofs ----------------------------
(***************************************************************************)
(* Who is asked next, for any models, priorities, views and catalogs: that *)
(* the penalties of best_model add up as intended and its rotation stays   *)
(* within its bounds, and that the model prober's cursor always finds a    *)
(* batch while a model is due (ModelProber.tla).                           *)
(***************************************************************************)
EXTENDS Selection, ModelProber, FiniteSetTheorems, SequenceTheorems, WellFoundedInduction, TLAPS

ViewsAreKnown == \A m \in Models : view[m] \in Views[m]

(* The penalties, each by the bound of it that matters. *)
LEMMA Penalties ==
    ASSUME NEW n \in Nat
    PROVE  /\ Least(10 * n, 200) \in 0..200
           /\ Least(50 * n, 250) \in 0..250
           /\ FailPenalty(n) \in 0..150
           /\ LimitPenalty(n) \in 0..500
           /\ n > 0 => AccessPenalty(n) \in 350..700
BY DEF Least, FailPenalty, LimitPenalty, AccessPenalty, LimitThreshold

LEMMA ErrorPenalties ==
    ASSUME NEW rate \in 0..100
    PROVE  /\ ErrorPenalty(rate) \in 0..200
           /\ rate > 0 => ErrorPenalty(rate) \in 1..200
           /\ rate <= 5 => ErrorPenalty(rate) \in 0..5
<1>1. CASE rate > 50
  BY <1>1 DEF ErrorPenalty
<1>2. CASE rate <= 50 /\ rate > 20
  BY <1>2 DEF ErrorPenalty
<1>3. CASE rate <= 20 /\ rate > 5
  BY <1>3 DEF ErrorPenalty
<1>4. CASE rate <= 5
  BY <1>4 DEF ErrorPenalty
<1> QED
  BY <1>1, <1>2, <1>3, <1>4

(* What an account cannot use scores at least 355, whatever else is said. *)
LEMMA ShutScores ==
    ASSUME NEW p \in Providers,
           NEW s \in [errors : 0..100, access : Nat, latency : Nat, failed : Nat],
           s.access > 0, s.errors > 0
    PROVE  Score(p, s) >= 356 /\ Score(p, s) \in Nat
<1>1. s # NoData
  BY DEF NoData
<1>2. Priority[p] \in 5..100
  BY SelectionAssumption
<1>3. AccessPenalty(s.access) \in 350..700
  BY Penalties
<1>4. ErrorPenalty(s.errors) \in 1..200
  <2>1. s.errors \in 0..100 /\ s.errors > 0
    OBVIOUS
  <2>2. \A rate \in 0..100 : rate > 0 => ErrorPenalty(rate) \in 1..200
    BY ErrorPenalties
  <2> QED
    BY <2>1, <2>2
<1>5. Least(10 * s.latency, 200) \in 0..200 /\ FailPenalty(s.failed) \in 0..150
  BY Penalties
<1> DEFINE sum == Priority[p] + ErrorPenalty(s.errors) + AccessPenalty(s.access)
                  + Least(10 * s.latency, 200) + FailPenalty(s.failed)
<1>6. Score(p, s) = Least(999, sum)
  BY <1>1 DEF Score, ScoreCap
<1>7. sum \in Nat /\ sum >= 356
  <2> HIDE DEF sum
  <2> DEFINE a == Priority[p]
             b == ErrorPenalty(s.errors)
             c == AccessPenalty(s.access)
             d == Least(10 * s.latency, 200)
             e == FailPenalty(s.failed)
  <2>1. a \in 5..100 /\ b \in 1..200 /\ c \in 350..700 /\ d \in 0..200 /\ e \in 0..150
    BY <1>2, <1>3, <1>4, <1>5
  <2>2. sum = a + b + c + d + e
    BY DEF sum
  <2> HIDE DEF a, b, c, d, e
  <2> QED
    BY <2>1, <2>2
<1> HIDE DEF sum
<1> QED
  BY <1>6, <1>7 DEF Least

(* What has not failed lately scores at most 305. *)
LEMMA SoundScores ==
    ASSUME NEW p \in Providers, NEW s \in Stats,
           s.errors <= 5, s.failed <= 2, s.access = 0
    PROVE  Score(p, s) <= 305 /\ Score(p, s) \in Nat
<1>1. Priority[p] \in 5..100
  BY SelectionAssumption
<1>2. CASE s = NoData
  BY <1>1, <1>2 DEF Score, NoDataPenalty
<1>3. CASE s # NoData
  <2>1. s \in [errors : 0..100, access : Nat, latency : Nat, failed : Nat]
    BY <1>3 DEF Stats
  <2>2. ErrorPenalty(s.errors) \in 0..5
    <3>1. s.errors \in 0..100
      BY <2>1
    <3>2. \A rate \in 0..100 : rate <= 5 => ErrorPenalty(rate) \in 0..5
      BY ErrorPenalties
    <3> QED
      BY <3>1, <3>2
  <2>3. AccessPenalty(s.access) = 0 /\ FailPenalty(s.failed) = 0
    BY <2>1 DEF AccessPenalty, FailPenalty
  <2>4. Least(10 * s.latency, 200) \in 0..200
    BY <2>1, Penalties
  <2> DEFINE sum == Priority[p] + ErrorPenalty(s.errors) + AccessPenalty(s.access)
                    + Least(10 * s.latency, 200) + FailPenalty(s.failed)
  <2>5. Score(p, s) = Least(999, sum)
    BY <1>3 DEF Score, ScoreCap
  <2>6. sum \in Nat /\ sum <= 305
    <3> HIDE DEF sum
    <3> DEFINE a == Priority[p]
               b == ErrorPenalty(s.errors)
               c == AccessPenalty(s.access)
               d == Least(10 * s.latency, 200)
               e == FailPenalty(s.failed)
    <3>1. a \in 5..100 /\ b \in 0..5 /\ c = 0 /\ d \in 0..200 /\ e = 0
      BY <1>1, <2>2, <2>3, <2>4
    <3>2. sum = a + b + c + d + e
      BY DEF sum
    <3> HIDE DEF a, b, c, d, e
    <3> QED
      BY <3>1, <3>2
  <2> HIDE DEF sum
  <2> QED
    BY <2>5, <2>6 DEF Least
<1> QED
  BY <1>2, <1>3

(* The views of the present are views. *)
LEMMA Known ==
    ASSUME ViewsAreKnown, NEW m \in Models
    PROVE  /\ view[m] \in View /\ view[m] \in Views[m]
           /\ view[m].stats.access > 0 => view[m].stats.errors > 0
           /\ Provider[m] \in Providers /\ Size[m] \in {0, 15, 50, 100}
BY SelectionAssumption DEF ViewsAreKnown

LEMMA TotalOf ==
    ASSUME ViewsAreKnown, NEW m \in Models
    PROVE  Total(m) = Score(Provider[m], view[m].stats) + Size[m]
                      + Least(50 * view[m].failures, 250) + LimitPenalty(view[m].limits)
                      + (IF FallbackOnly(m, view[m]) THEN FallbackOnlyPenalty ELSE 0)
BY Known DEF Total, Totals

LEMMA ShutTotals ==
    ASSUME ViewsAreKnown, NEW m \in Models, view[m].stats.access > 0
    PROVE  Total(m) >= 356 /\ Total(m) \in Int
<1>1. view[m].stats \in [errors : 0..100, access : Nat, latency : Nat, failed : Nat]
  BY Known DEF View, Stats, NoData
<1>2. Score(Provider[m], view[m].stats) >= 356 /\ Score(Provider[m], view[m].stats) \in Nat
  BY <1>1, Known, ShutScores
<1>3. view[m].failures \in Nat /\ view[m].limits \in Nat
  BY Known DEF View
<1>4. /\ Least(50 * view[m].failures, 250) \in 0..250
      /\ LimitPenalty(view[m].limits) \in 0..500
  <2>1. \A n \in Nat : Least(50 * n, 250) \in 0..250 /\ LimitPenalty(n) \in 0..500
    BY Penalties
  <2> QED
    BY <1>3, <2>1
<1>5. (IF FallbackOnly(m, view[m]) THEN FallbackOnlyPenalty ELSE 0) \in {0, 500}
  BY DEF FallbackOnlyPenalty
<1>6. Size[m] \in {0, 15, 50, 100}
  BY Known
<1> DEFINE a == Score(Provider[m], view[m].stats)
           b == Size[m]
           c == Least(50 * view[m].failures, 250)
           d == LimitPenalty(view[m].limits)
           e == IF FallbackOnly(m, view[m]) THEN FallbackOnlyPenalty ELSE 0
<1>7. Total(m) = a + b + c + d + e
  BY TotalOf
<1>8. /\ a >= 356 /\ a \in Nat
      /\ b \in Nat /\ c \in Nat /\ d \in Nat /\ e \in Nat
  BY <1>2, <1>4, <1>5, <1>6
<1> HIDE DEF a, b, c, d, e
<1> QED
  BY <1>7, <1>8

LEMMA SoundTotals ==
    ASSUME ViewsAreKnown, NEW m \in Models, Sound(m)
    PROVE  Total(m) <= 305 /\ Total(m) \in Int
<1>1. view[m].stats \in Stats
  BY Known DEF View
<1>2. Score(Provider[m], view[m].stats) <= 305 /\ Score(Provider[m], view[m].stats) \in Nat
  BY <1>1, Known, SoundScores DEF Sound
<1>3. Least(50 * view[m].failures, 250) = 0
  BY DEF Sound, Least
<1>4. LimitPenalty(view[m].limits) = 0
  BY DEF Sound, LimitPenalty
<1>5. (IF FallbackOnly(m, view[m]) THEN FallbackOnlyPenalty ELSE 0) = 0 /\ Size[m] = 0
  BY DEF Sound
<1> QED
  BY <1>2, <1>3, <1>4, <1>5, TotalOf

(* A band that has a model without access has no sound rival. *)
LEMMA BandIsSound ==
    ASSUME ViewsAreKnown, NEW m \in Band, view[m].stats.access > 0, NEW n \in Usable
    PROVE  ~Sound(n)
<1> SUFFICES ASSUME Sound(n)
             PROVE  FALSE
  OBVIOUS
<1>1. m \in Models /\ n \in Models /\ Total(m) <= Total(n) + 30
  BY DEF Band, Usable, SpreadBand
<1>2. Total(m) >= 356 /\ Total(m) \in Int
  BY <1>1, ShutTotals
<1>3. Total(n) <= 305 /\ Total(n) \in Int
  BY <1>1, SoundTotals
<1> QED
  BY <1>1, <1>2, <1>3

-----------------------------------------------------------------------------
(* What is said of a model always comes from its views. *)
THEOREM ViewsStay == Spec => []ViewsAreKnown
<1>1. Init => ViewsAreKnown
  BY DEF Init, ViewsAreKnown
<1>2. ViewsAreKnown /\ [Next]_vars => ViewsAreKnown'
  <2> SUFFICES ASSUME ViewsAreKnown, [Next]_vars
               PROVE  ViewsAreKnown'
    OBVIOUS
  <2>1. CASE view' = view
    BY <2>1 DEF ViewsAreKnown
  <2>2. CASE Observe
    BY <2>2 DEF Observe, ViewsAreKnown
  <2> QED
    BY <2>1, <2>2 DEF Next, vars, Rank, Select, Direct, Expire, Rotate
<1> QED
  BY <1>1, <1>2, PTL DEF Spec

(* smart_router.py:494-504: no request considers a model that its account  *)
(* cannot use while a sound one is to be had, for any priorities, sizes    *)
(* and statistics: the penalties of the first sum up to at least 356, and  *)
(* the band reaches to 335.                                                *)
THEOREM ShutModelsSink == Spec => AccessErrorsSink
<1> DEFINE Bands == band \in [Threads -> SUBSET Models]
           Sinks == \A t \in Threads : \A m \in band'[t] \ band[t] :
                       view[m].stats.access > 0 => ~\E n \in Usable : Sound(n)
<1>1. Init => Bands
  BY DEF Init
<1>2. Bands /\ [Next]_vars => Bands'
  <2> SUFFICES ASSUME Bands, [Next]_vars
               PROVE  Bands'
    OBVIOUS
  <2>1. ASSUME NEW t \in Threads, Rank(t)
        PROVE  Bands'
    BY <2>1 DEF Rank, Band, Usable
  <2>2. ASSUME NEW t \in Threads, Select(t)
        PROVE  Bands'
    BY <2>2 DEF Select
  <2>3. CASE band' = band
    BY <2>3
  <2> QED
    BY <2>1, <2>2, <2>3 DEF Next, vars, Direct, Expire, Rotate, Observe
<1>3. ViewsAreKnown /\ Bands /\ [Next]_vars => [Sinks]_vars
  <2> SUFFICES ASSUME ViewsAreKnown, Bands, [Next]_vars,
                      NEW t \in Threads, NEW m \in band'[t] \ band[t],
                      view[m].stats.access > 0, NEW n \in Usable
               PROVE  ~Sound(n)
    OBVIOUS
  <2>1. ASSUME NEW u \in Threads, Rank(u)
        PROVE  m \in Band
    BY <2>1 DEF Rank
  <2>2. ~\E u \in Threads : Select(u)
    BY DEF Select
  <2>3. band' # band
    OBVIOUS
  <2>4. m \in Band
    BY <2>1, <2>2, <2>3 DEF Next, vars, Direct, Expire, Rotate, Observe
  <2> QED
    BY <2>4, BandIsSound
<1> QED
  BY <1>1, <1>2, <1>3, ViewsStay, PTL DEF Spec, AccessErrorsSink

-----------------------------------------------------------------------------
(* No provider is noted twice. *)
Distinct(s) == \A i, j \in 1 .. Len(s) : s[i] = s[j] => i = j

Recent == recent \in Seq(Providers) /\ Distinct(recent)

LEMMA Counting ==
    ASSUME NEW S, NEW s \in Seq(S), Distinct(s)
    PROVE  ToSet(s) \subseteq S /\ Len(s) = Cardinality(ToSet(s))
<1>1. Len(s) \in Nat /\ DOMAIN s = 1 .. Len(s) /\ \A i \in 1 .. Len(s) : s[i] \in S
  OBVIOUS
<1>2. ToSet(s) \subseteq S
  BY <1>1 DEF ToSet
<1>3. s \in [1 .. Len(s) -> ToSet(s)]
  BY <1>1 DEF ToSet
<1>4. s \in Bijection(1 .. Len(s), ToSet(s))
  BY <1>1, <1>3 DEF Bijection, Injection, Surjection, IsInjective, Distinct, ToSet
<1> QED
  BY <1>1, <1>2, <1>4, FS_CountingElements DEF ExistsBijection

LEMMA Ages ==
    ASSUME Recent, NEW p
    PROVE  /\ Age(p) \in 0 .. Len(recent)
           /\ Age(p) > 0 => recent[Age(p)] = p
           /\ Age(p) = 0 => \A i \in 1 .. Len(recent) : recent[i] # p
<1>1. DOMAIN recent = 1 .. Len(recent) /\ Len(recent) \in Nat
  BY DEF Recent
<1>2. CASE p \in ToSet(recent)
  <2>1. \E i \in DOMAIN recent : recent[i] = p
    BY <1>2 DEF ToSet
  <2>2. Age(p) \in DOMAIN recent /\ recent[Age(p)] = p
    BY <1>2, <2>1 DEF Age
  <2> QED
    BY <1>1, <2>2
<1>3. CASE p \notin ToSet(recent)
  <2>1. Age(p) = 0
    BY <1>3 DEF Age
  <2>2. \A i \in DOMAIN recent : recent[i] # p
    BY <1>3 DEF ToSet
  <2> QED
    BY <1>1, <2>1, <2>2
<1> QED
  BY <1>2, <1>3

(* What a selection leaves of the others, and where. *)
LEMMA Others ==
    ASSUME Recent, NEW p
    PROVE  LET rest == RemoveAt(recent, Age(p)) IN
           /\ rest \in Seq(Providers)
           /\ \A i \in 1 .. Len(rest) : rest[i] # p
           /\ Distinct(rest)
<1> DEFINE k == Age(p)
           n == Len(recent)
           rest == RemoveAt(recent, k)
<1>1. /\ recent \in Seq(Providers) /\ n \in Nat
      /\ \A i, j \in 1 .. n : recent[i] = recent[j] => i = j
      /\ \A i \in 1 .. n : recent[i] \in Providers
  BY DEF Recent, Distinct
<1>2. /\ k \in 0 .. n
      /\ k > 0 => recent[k] = p
      /\ k = 0 => \A i \in 1 .. n : recent[i] # p
  BY Ages
<1>3. rest = SubSeq(recent, 1, k - 1) \o SubSeq(recent, k + 1, n)
  BY DEF RemoveAt
<1> HIDE DEF rest, k
<1>4. CASE k = 0
  <2>1. SubSeq(recent, 1, k - 1) = <<>> 
    BY <1>4, <1>1
  <2>2. SubSeq(recent, k + 1, n) = recent
    BY <1>4, <1>1
  <2>3. rest = recent
    BY <1>1, <1>3, <2>1, <2>2, ConcatEmptySeq
  <2> QED
    BY <1>1, <1>2, <1>4, <2>3 DEF Distinct, rest, k
<1>5. CASE k > 0
  <2>1. /\ SubSeq(recent, 1, k - 1) \in Seq(Providers)
        /\ Len(SubSeq(recent, 1, k - 1)) = k - 1
        /\ \A i \in 1 .. k - 1 : SubSeq(recent, 1, k - 1)[i] = recent[i]
    BY <1>1, <1>2, <1>5
  <2>2. /\ SubSeq(recent, k + 1, n) \in Seq(Providers)
        /\ Len(SubSeq(recent, k + 1, n)) = n - k
        /\ \A i \in 1 .. n - k : SubSeq(recent, k + 1, n)[i] = recent[k + i]
    BY <1>1, <1>2, <1>5
  <2> DEFINE front == SubSeq(recent, 1, k - 1)
             back == SubSeq(recent, k + 1, n)
  <2> HIDE DEF front, back
  <2>3. rest \in Seq(Providers) /\ Len(rest) = n - 1
    <3>1. rest = front \o back /\ front \in Seq(Providers) /\ back \in Seq(Providers)
      BY <1>3, <2>1, <2>2 DEF front, back
    <3>2. Len(front) = k - 1 /\ Len(back) = n - k
      BY <2>1, <2>2 DEF front, back
    <3>3. rest \in Seq(Providers) /\ Len(rest) = Len(front) + Len(back)
      BY <3>1, ConcatProperties
    <3> QED
      BY <1>1, <1>2, <3>2, <3>3
  <2>4. ASSUME NEW i \in 1 .. n - 1
        PROVE  rest[i] = IF i < k THEN recent[i] ELSE recent[i + 1]
    <3>1. rest = front \o back
      BY <1>3 DEF front, back
    <3>2. /\ front \in Seq(Providers) /\ Len(front) = k - 1
          /\ \A j \in 1 .. k - 1 : front[j] = recent[j]
          /\ back \in Seq(Providers) /\ Len(back) = n - k
          /\ \A j \in 1 .. n - k : back[j] = recent[k + j]
      BY <2>1, <2>2 DEF front, back
    <3>3. CASE i < k
      BY <1>1, <1>2, <3>1, <3>2, <3>3
    <3>4. CASE i >= k
      <4>1. rest[i] = back[i - (k - 1)]
        BY <1>1, <1>2, <3>1, <3>2, <3>4
      <4>2. i - (k - 1) \in 1 .. n - k /\ k + (i - (k - 1)) = i + 1
        BY <1>1, <1>2, <3>4, <1>5
      <4> QED
        BY <1>1, <1>2, <3>2, <3>4, <4>1, <4>2
    <3> QED
      BY <1>1, <1>2, <3>3, <3>4
  <2>5. ASSUME NEW i \in 1 .. n - 1
        PROVE  \E j \in 1 .. n : /\ rest[i] = recent[j] /\ j # k
                                 /\ i = IF j < k THEN j ELSE j - 1
    <3>1. CASE i < k
      BY <1>1, <1>2, <2>4, <3>1
    <3>2. CASE i >= k
      <4>1. i + 1 \in 1 .. n /\ i + 1 # k /\ ~(i + 1 < k) /\ (i + 1) - 1 = i
        BY <1>1, <1>2, <3>2
      <4>2. rest[i] = recent[i + 1]
        BY <1>1, <1>2, <2>4, <3>2
      <4> QED
        BY <4>1, <4>2
    <3> QED
      BY <1>1, <1>2, <3>1, <3>2
  <2>6. \A i \in 1 .. n - 1 : rest[i] # p
    BY <1>1, <1>2, <1>5, <2>5
  <2>7. ASSUME NEW i \in 1 .. n - 1, NEW j \in 1 .. n - 1, rest[i] = rest[j]
        PROVE  i = j
    BY <1>1, <2>5, <2>7
  <2> QED
    BY <2>3, <2>6, <2>7 DEF Distinct, rest, k
<1> QED
  BY <1>2, <1>4, <1>5

LEMMA Stamping ==
    ASSUME Recent, NEW p \in Providers
    PROVE  Stamped(p) \in Seq(Providers) /\ Distinct(Stamped(p))
<1> DEFINE rest == RemoveAt(recent, Age(p))
           n == Len(rest)
<1>1. /\ rest \in Seq(Providers) /\ n \in Nat
      /\ \A i \in 1 .. n : rest[i] # p
      /\ \A i, j \in 1 .. n : rest[i] = rest[j] => i = j
  BY Others DEF Distinct
<1>2. Stamped(p) = Append(rest, p)
  BY DEF Stamped
<1> HIDE DEF rest
<1>3. /\ Stamped(p) \in Seq(Providers) /\ Len(Stamped(p)) = n + 1
      /\ Stamped(p)[n + 1] = p /\ \A i \in 1 .. n : Stamped(p)[i] = rest[i]
  BY <1>1, <1>2
<1> HIDE DEF n
<1>4. ASSUME NEW i \in 1 .. n + 1, NEW j \in 1 .. n + 1, Stamped(p)[i] = Stamped(p)[j]
      PROVE  i = j
  <2>1. i = n + 1 \/ i \in 1 .. n
    BY <1>1
  <2>2. j = n + 1 \/ j \in 1 .. n
    BY <1>1
  <2> QED
    BY <1>1, <1>3, <1>4, <2>1, <2>2
<1> QED
  BY <1>3, <1>4 DEF Distinct

(* The rest of TypeOK. *)
Noted == /\ used \subseteq Providers
         /\ cached = Expired \/ cached \subseteq Providers
         /\ band \in [Threads -> SUBSET Models]

LEMMA InitNoted == Init => Recent /\ Noted
BY DEF Init, Recent, Distinct, Noted

LEMMA StepNoted == Recent /\ Noted /\ [Next]_vars => Recent' /\ Noted'
<1> SUFFICES ASSUME Recent, Noted, [Next]_vars
             PROVE  Recent' /\ Noted'
  OBVIOUS
<1>1. ASSUME NEW t \in Threads, Rank(t)
      PROVE  Recent' /\ Noted'
  BY <1>1 DEF Rank, Band, Usable, Recent, Distinct, Noted
<1>2. ASSUME NEW t \in Threads, Select(t)
      PROVE  Recent' /\ Noted'
  <2> DEFINE usage == IF cached = Expired THEN used ELSE cached
             among == {Provider[m] : m \in band[t]}
  <2>1. PICK p \in among : /\ recent' = Stamped(p)
                           /\ used' \in Logged(p)
                           /\ cached' = usage
    BY <1>2 DEF Select
  <2>2. usage \subseteq Providers
    BY DEF Noted
  <2>3. p \in Providers
    BY SelectionAssumption DEF Noted
  <2>4. Recent'
    BY <2>1, <2>3, Stamping DEF Recent, Distinct
  <2>5. band' \in [Threads -> SUBSET Models]
    BY <1>2 DEF Select, Noted
  <2> HIDE DEF usage, among
  <2> QED
    BY <2>1, <2>2, <2>3, <2>4, <2>5 DEF Logged, Noted
<1>3. CASE Expire
  BY <1>3 DEF Expire, Recent, Distinct, Noted
<1>4. CASE Rotate
  BY <1>4 DEF Rotate, Recent, Distinct, Noted
<1>5. CASE Observe \/ UNCHANGED vars
  BY <1>5 DEF Observe, vars, Recent, Distinct, Noted
<1>6. ASSUME NEW p \in Providers, Direct(p)
      PROVE  Recent' /\ Noted'
  BY <1>6 DEF Direct, Logged, Recent, Distinct, Noted
<1> QED
  BY <1>1, <1>2, <1>3, <1>4, <1>5, <1>6 DEF Next

(* smart_router.py:350-372, 583-608: the state all threads select from     *)
(* keeps its types; in particular each provider has one time of its last   *)
(* selection, however threads that ranked earlier come in between.         *)
THEOREM SelectionTyped == Spec => []TypeOK
<1>1. ViewsAreKnown /\ Recent /\ Noted => TypeOK
  BY Counting DEF ViewsAreKnown, Recent, Noted, TypeOK
<1> QED
  BY <1>1, InitNoted, StepNoted, ViewsStay, PTL DEF Spec

-----------------------------------------------------------------------------
(* The model prober, which takes turns among models too (ModelProber.tla). *)

(* A set of numbers has a least one. *)
Below == {mn \in Nat \X Nat : mn[1] < mn[2]}

LEMMA LeastNumber ==
    ASSUME NEW bad \in SUBSET Nat, bad # {}
    PROVE  \E n \in bad : \A m \in bad : n <= m
<1>1. OpToRel(<, Nat) = Below
  BY DEF OpToRel, Below
<1>2. IsWellFoundedOn(Below, Nat)
  BY <1>1, NatLessThanWellFounded
<1>3. PICK n \in bad : \A m \in bad : <<m, n>> \notin Below
  BY <1>2, WFMin
<1>4. ASSUME NEW m \in bad PROVE n <= m
  <2>1. ~(m < n)
    BY <1>3 DEF Below
  <2> QED
    BY <2>1
<1> QED
  BY <1>4

(* The loop of _due_models has a result: lists that are right up to the    *)
(* n-th model make lists that are right up to the next.                    *)
Extended(f, n) ==
    IF n = 0 THEN <<>>
    ELSE IF Due(ScanOrder[n]) THEN Append(f[n - 1], ScanOrder[n])
    ELSE f[n - 1]

Lists == [0 .. Len(ScanOrder) -> Seq(Tracked)]

LEMMA ScannedModels ==
    /\ Len(ScanOrder) \in Nat
    /\ \A n \in 0 .. Len(ScanOrder) :
          n # 0 => n - 1 \in 0 .. Len(ScanOrder) /\ ScanOrder[n] \in Tracked
BY ProberAssumption

LEMMA ExtendedType ==
    ASSUME NEW f \in Lists, NEW n \in 0 .. Len(ScanOrder)
    PROVE  Extended(f, n) \in Seq(Tracked)
<1>1. CASE n = 0
  BY <1>1 DEF Extended
<1>2. CASE n # 0
  <2>1. f[n - 1] \in Seq(Tracked) /\ ScanOrder[n] \in Tracked
    BY <1>2, ScannedModels DEF Lists
  <2>2. Append(f[n - 1], ScanOrder[n]) \in Seq(Tracked)
    BY <2>1
  <2> QED
    BY <1>2, <2>1, <2>2 DEF Extended
<1> QED
  BY <1>1, <1>2

LEMMA ListsExist == \E f \in Lists : f = [n \in 0 .. Len(ScanOrder) |-> Extended(f, n)]
<1> DEFINE D == 0 .. Len(ScanOrder)
           Right(f, k) == \A n \in D : n <= k => f[n] = Extended(f, n)
           Reached(k) == \E f \in Lists : Right(f, k)
           bad == {k \in Nat : ~Reached(k)}
<1>1. Len(ScanOrder) \in Nat
  BY ScannedModels
<1>2. Reached(0)
  <2> DEFINE f == [n \in D |-> <<>>]
  <2>1. f \in Lists /\ Right(f, 0)
    BY DEF Extended, Lists
  <2> HIDE DEF f
  <2> QED
    BY <2>1
<1>3. ASSUME NEW k \in Nat, Reached(k) PROVE Reached(k + 1)
  <2>1. PICK f \in Lists : Right(f, k)
    BY <1>3
  <2> DEFINE g == [n \in D |-> Extended(f, n)]
  <2>2. g \in Lists
    BY ExtendedType DEF Lists
  <2>3. ASSUME NEW n \in D, n <= k + 1 PROVE g[n] = Extended(g, n)
    <3>1. CASE n = 0
      BY <3>1 DEF Extended
    <3>2. CASE n # 0
      <4>1. n - 1 \in D /\ n - 1 <= k
        BY <1>1, <2>3, <3>2
      <4>2. g[n - 1] = f[n - 1]
        BY <2>1, <4>1
      <4>3. g[n] = Extended(f, n)
        OBVIOUS
      <4> HIDE DEF g
      <4> QED
        BY <3>2, <4>2, <4>3 DEF Extended
    <3> QED
      BY <3>1, <3>2
  <2> HIDE DEF g
  <2> QED
    BY <2>2, <2>3
<1>4. bad = {}
  <2> SUFFICES ASSUME bad # {} PROVE FALSE
    OBVIOUS
  <2>1. PICK n \in bad : \A m \in bad : n <= m
    <3>1. bad \in SUBSET Nat
      OBVIOUS
    <3> HIDE DEF bad
    <3> QED
      BY <3>1, LeastNumber
  <2> HIDE DEF Reached
  <2>2. n \in Nat /\ n # 0
    BY <1>2
  <2>3. n - 1 \in Nat /\ n - 1 \notin bad /\ (n - 1) + 1 = n
    BY <2>1, <2>2
  <2> QED
    BY <1>3, <2>1, <2>3
<1>5. PICK f \in Lists : Right(f, Len(ScanOrder))
  BY <1>1, <1>4
<1>6. f = [n \in D |-> Extended(f, n)]
  BY <1>1, <1>5 DEF Lists
<1> QED
  BY <1>6

(* The list has no more models than the dictionary. *)
LEMMA DueListType == DueList \in Seq(Tracked) /\ Len(DueList) <= Len(ScanOrder)
<1> DEFINE D == 0 .. Len(ScanOrder)
           Rule(f) == f = [n \in D |-> Extended(f, n)]
           Short(n) == DueUpTo[n] \in Seq(Tracked) /\ Len(DueUpTo[n]) <= n
           bad == {n \in D : ~Short(n)}
<1>1. DueUpTo = CHOOSE f : Rule(f)
  BY DEF DueUpTo, Extended
<1>2. \E f : Rule(f)
  BY ListsExist
<1>3. Rule(DueUpTo)
  <2> HIDE DEF Rule
  <2> QED
    BY <1>1, <1>2
<1>4. bad = {}
  <2> SUFFICES ASSUME bad # {} PROVE FALSE
    OBVIOUS
  <2>1. PICK n \in bad : \A m \in bad : n <= m
    <3>1. bad \in SUBSET Nat
      BY ScannedModels
    <3> HIDE DEF bad
    <3> QED
      BY <3>1, LeastNumber
  <2>2. n \in D /\ DueUpTo[n] = Extended(DueUpTo, n) /\ n \in Nat
    BY <1>3, ScannedModels
  <2>3. CASE n = 0
    <3>1. DueUpTo[n] = <<>>
      BY <2>2, <2>3 DEF Extended
    <3>2. Short(n)
      BY <2>3, <3>1
    <3> QED
      BY <2>1, <3>2
  <2>4. CASE n # 0
    <3>1. n - 1 \in D /\ ~(n <= n - 1) /\ ScanOrder[n] \in Tracked
      BY <2>2, <2>4, ScannedModels
    <3>2. DueUpTo[n - 1] \in Seq(Tracked) /\ Len(DueUpTo[n - 1]) <= n - 1
      BY <2>1, <3>1
    <3> DEFINE before == DueUpTo[n - 1]
    <3>3. DueUpTo[n] = before \/ DueUpTo[n] = Append(before, ScanOrder[n])
      BY <2>2, <2>4 DEF Extended
    <3> HIDE DEF before
    <3>4. before \in Seq(Tracked) /\ Len(before) <= n - 1
      BY <3>2 DEF before
    <3>5. CASE DueUpTo[n] = before
      BY <2>2, <3>4, <3>5
    <3>6. CASE DueUpTo[n] = Append(before, ScanOrder[n])
      <4>1. /\ Append(before, ScanOrder[n]) \in Seq(Tracked)
            /\ Len(Append(before, ScanOrder[n])) = Len(before) + 1
        BY <3>1, <3>4
      <4>2. Short(n)
        BY <2>2, <3>4, <3>6, <4>1
      <4> QED
        BY <2>1, <4>2
    <3>7. Short(n)
      BY <2>2, <3>3, <3>4, <3>5, <3>6
    <3> QED
      BY <2>1, <3>7
  <2> QED
    BY <2>3, <2>4
<1>5. Len(ScanOrder) \in D
  BY ScannedModels
<1> HIDE DEF bad
<1>6. Len(ScanOrder) \notin bad
  BY <1>4
<1>7. Short(Len(ScanOrder))
  BY <1>5, <1>6 DEF bad
<1> QED
  BY <1>7 DEF DueList

(* A slice fits the batch, is empty only when the list is, and leaves the  *)
(* cursor at most a batch behind the end of the list.                      *)
LEMMA Slices ==
    ASSUME NEW due \in Seq(Tracked), cursor \in Nat
    PROVE  LET picked == PickBatch(due) IN
           /\ picked.batch \in Seq(Tracked) /\ Len(picked.batch) <= Batch
           /\ due # <<>> => picked.batch # <<>>
           /\ picked.cursor = cursor \/ picked.cursor \in 0 .. Len(due) + Batch
<1>1. Batch \in Nat \ {0} /\ Len(due) \in Nat
  BY ProberAssumption
<1>2. CASE Len(due) <= Batch
  <2>1. PickBatch(due) = [batch |-> due, cursor |-> cursor]
    BY <1>2 DEF PickBatch
  <2> QED
    BY <1>2, <2>1
<1>3. CASE ~(Len(due) <= Batch)
  <2> DEFINE from == IF cursor >= Len(due) THEN 0 ELSE cursor
             upto == IF from + Batch < Len(due) THEN from + Batch ELSE Len(due)
  <2>1. PickBatch(due) = [batch |-> SubSeq(due, from + 1, upto), cursor |-> from + Batch]
    BY <1>3 DEF PickBatch
  <2>2. from \in Nat /\ from < Len(due)
    BY <1>1, <1>3
  <2>3. upto \in Nat /\ from < upto /\ upto <= Len(due) /\ upto <= from + Batch
    <3> HIDE DEF from
    <3> QED
      BY <1>1, <2>2
  <2> HIDE DEF from, upto
  <2>4. /\ SubSeq(due, from + 1, upto) \in Seq(Tracked)
        /\ Len(SubSeq(due, from + 1, upto)) = upto - from
    BY <1>1, <2>2, <2>3
  <2>5. SubSeq(due, from + 1, upto) # <<>>
    BY <2>2, <2>3, <2>4
  <2> QED
    BY <1>1, <2>1, <2>2, <2>3, <2>4, <2>5
<1> QED
  BY <1>2, <1>3

LEMMA PlainEntries == Fine \in Entries /\ Disabled \in Entries
BY DEF Fine, Disabled, Entries

LEMMA MarkingTyped ==
    ASSUME ProberTypeOK, NEW m \in Tracked, MarkError(m)
    PROVE  entry' \in [Tracked -> Entries]
<1>1. PICK n \in {"few", "passing", "final"}, x \in {"cooldown", "disabled"} :
         entry' = [entry EXCEPT ![m] =
                      IF x = "disabled" THEN Disabled
                      ELSE [status |-> x, running |-> TRUE, strikes |-> n]]
  BY DEF MarkError
<1>2. (IF x = "disabled" THEN Disabled
       ELSE [status |-> x, running |-> TRUE, strikes |-> n]) \in Entries
  BY PlainEntries DEF Entries
<1> QED
  BY <1>1, <1>2 DEF ProberTypeOK

LEMMA CleaningTyped ==
    ASSUME NEW x \in Entries
    PROVE  CleanedUp(x) \in Entries
<1>1. [x EXCEPT !.status = "probing", !.running = TRUE] \in Entries
  BY DEF Entries
<1> QED
  BY <1>1, PlainEntries DEF CleanedUp

LEMMA ProberStarts == ProberInit => ProberTypeOK
<1> SUFFICES ASSUME ProberInit PROVE ProberTypeOK
  OBVIOUS
<1>1. entry \in [Tracked -> Entries]
  BY PlainEntries DEF ProberInit
<1>2. queue \in Seq(Tracked) /\ Len(queue) <= Batch
  BY ProberAssumption DEF ProberInit
<1>3. cursor \in 0 .. Len(ScanOrder) + Batch
  BY ProberAssumption, ScannedModels DEF ProberInit
<1> QED
  BY <1>1, <1>2, <1>3 DEF ProberInit, ProberTypeOK

LEMMA ScanStep ==
    ASSUME ProberTypeOK, Scan
    PROVE  ProberTypeOK'
<1>1. PICK due : due = DueList
  OBVIOUS
<1>2. due \in Seq(Tracked) /\ Len(due) <= Len(ScanOrder)
  BY <1>1, DueListType DEF Scan
<1> DEFINE picked == PickBatch(due)
<1>3. queue' = picked.batch /\ cursor' = picked.cursor /\ entry' = entry /\ catalog' = catalog
  BY <1>1 DEF Scan
<1>4. cursor \in Nat /\ cursor \in 0 .. Len(ScanOrder) + Batch
  BY ScannedModels, ProberAssumption DEF ProberTypeOK
<1>5. /\ picked.batch \in Seq(Tracked) /\ Len(picked.batch) <= Batch
      /\ picked.cursor = cursor \/ picked.cursor \in 0 .. Len(due) + Batch
  BY <1>2, <1>4, Slices
<1>6. Len(due) \in Nat /\ Len(ScanOrder) \in Nat /\ Batch \in Nat
  BY <1>2, ScannedModels, ProberAssumption
<1> HIDE DEF picked
<1>7. picked.cursor \in 0 .. Len(ScanOrder) + Batch
  BY <1>2, <1>4, <1>5, <1>6
<1> QED
  BY <1>3, <1>5, <1>7 DEF ProberTypeOK

LEMMA ShorterQueue ==
    ASSUME ProberTypeOK, queue # <<>>, queue' = Tail(queue)
    PROVE  /\ Head(queue) \in Tracked
           /\ queue' \in Seq(Tracked) /\ Len(queue') <= Batch
<1>1. queue \in Seq(Tracked) /\ Len(queue) <= Batch /\ Batch \in Nat
  BY ProberAssumption DEF ProberTypeOK
<1>2. Len(Tail(queue)) = Len(queue) - 1 /\ Len(queue) \in Nat
  BY <1>1
<1> QED
  BY <1>1, <1>2

LEMMA ProberSteps == ProberTypeOK /\ [ProberNext]_proberVars => ProberTypeOK'
<1> SUFFICES ASSUME ProberTypeOK, [ProberNext]_proberVars
             PROVE  ProberTypeOK'
  OBVIOUS
<1>1. ASSUME NEW m \in Tracked, Report(m)
      PROVE  ProberTypeOK'
  BY <1>1, MarkingTyped DEF Report, ProberTypeOK
<1>2. ASSUME NEW m \in Tracked, Restore(m)
      PROVE  ProberTypeOK'
  BY <1>2, PlainEntries DEF Restore, ProberTypeOK
<1>3. ASSUME NEW m \in Tracked, TimePasses(m)
      PROVE  ProberTypeOK'
  <2>1. entry' = [entry EXCEPT ![m] = [entry[m] EXCEPT !.running = FALSE]]
    BY <1>3 DEF TimePasses
  <2>2. [entry[m] EXCEPT !.running = FALSE] \in Entries
    BY DEF ProberTypeOK, Entries
  <2>3. entry' \in [Tracked -> Entries]
    BY <2>1, <2>2 DEF ProberTypeOK
  <2> QED
    BY <1>3, <2>3 DEF TimePasses, ProberTypeOK
<1>4. CASE CleanupExpired
  BY <1>4, CleaningTyped DEF CleanupExpired, ProberTypeOK
<1>5. CASE Scan
  BY <1>5, ScanStep
<1>6. CASE Answers
  BY <1>6, ShorterQueue, PlainEntries DEF Answers, ProberTypeOK
<1>7. CASE Fails
  <2>1. /\ Head(queue) \in Tracked
        /\ queue' \in Seq(Tracked) /\ Len(queue') <= Batch /\ cursor' = cursor
    BY <1>7, ShorterQueue DEF Fails
  <2>2. entry' \in [Tracked -> Entries]
    BY <1>7, <2>1, MarkingTyped DEF Fails, ProberTypeOK
  <2>3. catalog' \subseteq Tracked
    BY <1>7 DEF Fails, ProberTypeOK
  <2> QED
    BY <2>1, <2>2, <2>3 DEF ProberTypeOK
<1>8. CASE Abandons
  <2>1. queue \in Seq(Tracked) /\ queue # <<>> /\ Batch \in Nat
    BY <1>8, ProberAssumption DEF Abandons, ProberTypeOK
  <2>2. /\ Head(queue) \in Tracked
        /\ queue' \in Seq(Tracked) /\ Len(queue') <= Batch /\ cursor' = cursor
    BY <1>8, <2>1 DEF Abandons
  <2>3. entry' \in [Tracked -> Entries]
    BY <1>8, <2>2, MarkingTyped, PlainEntries DEF Abandons, ProberTypeOK
  <2> QED
    BY <1>8, <2>2, <2>3 DEF Abandons, ProberTypeOK
<1>9. CASE UNCHANGED proberVars
  BY <1>9 DEF proberVars, ProberTypeOK
<1> QED
  BY <1>1, <1>2, <1>3, <1>4, <1>5, <1>6, <1>7, <1>8, <1>9 DEF ProberNext, Prober

(* model_prober.py:88-115, 198-241: the batch fits, and the cursor, which  *)
(* is never reset by a short list, stays within a batch of the dictionary. *)
THEOREM ProberTyped == ProberSpec => []ProberTypeOK
BY ProberStarts, ProberSteps, PTL DEF ProberSpec

(* model_prober.py:233-241: whatever lists earlier scans saw, a scan that  *)
(* finds models due tests one of them, for any dictionary and any batch.   *)
THEOREM EveryScanTests == ProberSpec => []ScansTest
<1>1. ASSUME ProberTypeOK PROVE ScansTest
  <2>1. PICK due : due = DueList
    OBVIOUS
  <2>2. due \in Seq(Tracked) /\ cursor \in Nat
    BY <1>1, <2>1, DueListType, ScannedModels, ProberAssumption DEF ProberTypeOK
  <2> QED
    BY <2>1, <2>2, Slices DEF ScansTest
<1> QED
  BY <1>1, ProberTyped, PTL
=============================================================================
