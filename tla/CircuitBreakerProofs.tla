------------------------- MODULE CircuitBreakerProofs -------------------------
(***************************************************************************)
(* The safety properties of CircuitBreaker for every value of its          *)
(* constants: any finite number of concurrent upstream calls, any          *)
(* thresholds, window, timeout and number of slots.  IInv is inductive:    *)
(* one lemma per action shows that the action preserves it, with what the  *)
(* lemmas of the first part say of Breaker's operations on any breaker.    *)
(***************************************************************************)
EXTENDS CircuitBreaker, FiniteSetTheorems, TLAPS

-----------------------------------------------------------------------------
(* What each operation of Breaker does to a breaker: it stays well formed, *)
(* and the facts about states, counters and failures relied on below.      *)

(* OneMore counts one up and stops at its bound. *)
LEMMA OneMoreType ==
    ASSUME NEW bound \in Nat, NEW n \in 0 .. bound
    PROVE  /\ OneMore(n, bound) \in 0 .. bound
           /\ n <= OneMore(n, bound)
           /\ n < bound => OneMore(n, bound) = n + 1
BY DEF OneMore

(* A provider nobody has asked about has a well-formed breaker: closed and *)
(* without failures (_get_cb).                                             *)
LEMMA NewBreakerType ==
    /\ NewBreaker \in Breakers
    /\ NewBreaker.state = "closed"
    /\ \A i \in Recent : NewBreaker.failures[i] = CBWindow
BY BreakerAssumption DEF NewBreaker, NoFailures, Breakers, Recent

(* Time makes failures older and changes neither state nor counters. *)
LEMMA AgedType ==
    ASSUME NEW b \in Breakers
    PROVE  /\ Aged(b) \in Breakers
           /\ Aged(b).state = b.state
           /\ Aged(b).halfOpen = b.halfOpen
           /\ Aged(b).successes = b.successes
           /\ \A i \in Recent :
                 Aged(b).failures[i] = OneMore(b.failures[i], CBWindow)
<1> DEFINE f == [i \in Recent |-> OneMore(b.failures[i], CBWindow)]
           a == OneMore(b.sinceChange, CBOpenTimeout)
<1>1. f \in [Recent -> 0 .. CBWindow]
  BY BreakerAssumption, OneMoreType DEF Breakers
<1>2. a \in 0 .. CBOpenTimeout
  BY BreakerAssumption, OneMoreType DEF Breakers
<1>3. Aged(b) = [b EXCEPT !.failures = f, !.sinceChange = a]
  BY DEF Aged
<1>4. \A i \in Recent : f[i] = OneMore(b.failures[i], CBWindow)
  OBVIOUS
<1> HIDE DEF f, a
<1> QED
  BY <1>1, <1>2, <1>3, <1>4 DEF Breakers

LEMMA WithFailureType ==
    ASSUME NEW b \in Breakers
    PROVE  /\ WithFailure(b) \in [Recent -> 0 .. CBWindow]
           /\ WithFailure(b)[1] = 0
           /\ \A i \in Recent : i # 1 => /\ i - 1 \in Recent
                                         /\ WithFailure(b)[i] = b.failures[i - 1]
<1>1. \A i \in Recent : i # 1 => i - 1 \in Recent
  BY BreakerAssumption DEF Recent
<1>2. 1 \in Recent
  BY BreakerAssumption DEF Recent
<1> QED
  BY <1>1, <1>2, BreakerAssumption DEF WithFailure, Breakers

(* A failure never leaves or makes a breaker half_open (record_cb_failure): *)
(* it opens it, or a closed one that has too few failures stays closed.     *)
LEMMA AfterFailureType ==
    ASSUME NEW b \in Breakers
    PROVE  /\ AfterFailure(b) \in Breakers
           /\ AfterFailure(b).state # "half_open"
           /\ AfterFailure(b).failures = WithFailure(b)
           /\ b.state = "closed" /\ AfterFailure(b).state = "open"
                => WithFailure(b)[CBFailureThreshold] < CBWindow
<1> DEFINE w == WithFailure(b)
<1>1. w \in [Recent -> 0 .. CBWindow]
  BY WithFailureType
<1> HIDE DEF w
<1>2. CASE b.state = "closed" /\ TooMany(w)
  <2>1. AfterFailure(b) = [state |-> "open", failures |-> w,
                           successes |-> b.successes, sinceChange |-> 0,
                           halfOpen |-> b.halfOpen]
    BY <1>2 DEF AfterFailure, Breakers, w
  <2> QED
    BY <2>1, <1>1, <1>2, BreakerAssumption DEF Breakers, TooMany, w
<1>3. CASE b.state = "half_open"
  <2>1. AfterFailure(b) = [state |-> "open", failures |-> w, successes |-> 0,
                           sinceChange |-> 0, halfOpen |-> 0]
    BY <1>3 DEF AfterFailure, Breakers, w
  <2> QED
    BY <2>1, <1>1, <1>3, BreakerAssumption DEF Breakers, w
<1>4. CASE b.state # "half_open" /\ ~(b.state = "closed" /\ TooMany(w))
  <2>1. AfterFailure(b) = [state |-> b.state, failures |-> w,
                           successes |-> b.successes,
                           sinceChange |-> b.sinceChange,
                           halfOpen |-> b.halfOpen]
    BY <1>4 DEF AfterFailure, Breakers, w
  <2> QED
    BY <2>1, <1>1, <1>4 DEF Breakers, w
<1> QED
  BY <1>2, <1>3, <1>4

(* A success changes a half_open breaker only: it closes it when it is the *)
(* last one needed, and it never adds to the slots (record_cb_success).    *)
LEMMA AfterSuccessType ==
    ASSUME NEW b \in Breakers
    PROVE  /\ AfterSuccess(b) \in Breakers
           /\ b.state # "half_open" => AfterSuccess(b) = b
           /\ b.state = "half_open" =>
                /\ AfterSuccess(b).state \in {"half_open", "closed"}
                /\ AfterSuccess(b).halfOpen = Decremented(b.halfOpen)
                /\ AfterSuccess(b).state = "half_open" =>
                     /\ AfterSuccess(b).successes = b.successes + 1
                     /\ AfterSuccess(b).failures = b.failures
                /\ AfterSuccess(b).state = "closed" =>
                     /\ b.successes + 1 >= CBSuccessThreshold
                     /\ \A i \in Recent : AfterSuccess(b).failures[i] = CBWindow
<1>0. Decremented(b.halfOpen) \in 0 .. CBHalfOpenMax
  BY BreakerAssumption DEF Decremented, Breakers
<1>1. CASE b.state = "half_open" /\ b.successes + 1 >= CBSuccessThreshold
  <2>1. AfterSuccess(b) = [b EXCEPT !.state = "closed", !.failures = NoFailures,
                                    !.successes = 0, !.sinceChange = 0,
                                    !.halfOpen = Decremented(b.halfOpen)]
    BY <1>1, BreakerAssumption DEF AfterSuccess, Breakers
  <2>2. AfterSuccess(b) = [state |-> "closed", failures |-> NoFailures,
                           successes |-> 0, sinceChange |-> 0,
                           halfOpen |-> Decremented(b.halfOpen)]
    BY <2>1 DEF Breakers
  <2>3. /\ NoFailures \in [Recent -> 0 .. CBWindow]
        /\ \A i \in Recent : NoFailures[i] = CBWindow
    BY BreakerAssumption DEF NoFailures
  <2> QED
    BY <2>2, <2>3, <1>0, <1>1, BreakerAssumption DEF Breakers
<1>2. CASE b.state = "half_open" /\ b.successes + 1 < CBSuccessThreshold
  <2>1. AfterSuccess(b) = [b EXCEPT !.successes = b.successes + 1,
                                    !.halfOpen = Decremented(b.halfOpen)]
    BY <1>2, BreakerAssumption DEF AfterSuccess, Breakers
  <2>2. AfterSuccess(b) = [state |-> b.state, failures |-> b.failures,
                           successes |-> b.successes + 1,
                           sinceChange |-> b.sinceChange,
                           halfOpen |-> Decremented(b.halfOpen)]
    BY <2>1 DEF Breakers
  <2> QED
    BY <2>2, <1>0, <1>2, BreakerAssumption DEF Breakers
<1>3. CASE b.state # "half_open"
  BY <1>3 DEF AfterSuccess, Breakers
<1> QED
  BY <1>1, <1>2, <1>3, BreakerAssumption DEF Breakers

(* A check that is answered yes leaves a breaker that is closed or         *)
(* half_open; entering half_open starts from zero; slots are added one at  *)
(* a time and only by a caller that reserves (can_execute_cb).             *)
LEMMA AfterCheckType ==
    ASSUME NEW b \in Breakers, NEW acquire \in BOOLEAN
    PROVE  /\ AfterCheck(b, acquire) \in Breakers
           /\ AfterCheck(b, acquire).failures = b.failures
           /\ ~CanExecute(b) \/ b.state = "closed" => AfterCheck(b, acquire) = b
           /\ CanExecute(b) /\ b.state = "open" =>
                /\ AfterCheck(b, acquire).state = "half_open"
                /\ AfterCheck(b, acquire).successes = 0
                /\ acquire => AfterCheck(b, acquire).halfOpen = 1
                /\ ~acquire => AfterCheck(b, acquire).halfOpen = 0
           /\ CanExecute(b) /\ b.state = "half_open" =>
                /\ AfterCheck(b, acquire).state = "half_open"
                /\ AfterCheck(b, acquire).successes = b.successes
                /\ acquire => AfterCheck(b, acquire).halfOpen = b.halfOpen + 1
                /\ ~acquire => AfterCheck(b, acquire).halfOpen = b.halfOpen
<1>1. CASE b.state = "open" /\ CanExecute(b)
  <2>1. AfterCheck(b, acquire) =
            [state |-> "half_open", failures |-> b.failures, successes |-> 0,
             sinceChange |-> 0, halfOpen |-> Slot(acquire)]
    BY <1>1 DEF AfterCheck, Breakers
  <2> QED
    BY <2>1, <1>1, BreakerAssumption DEF Breakers, Slot
<1>2. CASE b.state = "half_open" /\ CanExecute(b)
  <2>1. AfterCheck(b, acquire) =
            [state |-> b.state, failures |-> b.failures,
             successes |-> b.successes, sinceChange |-> b.sinceChange,
             halfOpen |-> b.halfOpen + Slot(acquire)]
    BY <1>2 DEF AfterCheck, Breakers
  <2>2. b.halfOpen + Slot(acquire) \in 0 .. CBHalfOpenMax
    BY <1>2, BreakerAssumption DEF CanExecute, Breakers, Slot
  <2>3. /\ acquire => b.halfOpen + Slot(acquire) = b.halfOpen + 1
        /\ ~acquire => b.halfOpen + Slot(acquire) = b.halfOpen
    BY BreakerAssumption DEF Breakers, Slot
  <2> QED
    BY <2>1, <2>2, <2>3, <1>2 DEF Breakers
<1>3. CASE ~CanExecute(b) \/ b.state = "closed"
  BY <1>3 DEF AfterCheck, Breakers
<1> QED
  BY <1>1, <1>2, <1>3 DEF Breakers

(* Returning a slot touches nothing but the counter (release_cb). *)
LEMMA AfterReleaseType ==
    ASSUME NEW b \in Breakers
    PROVE  /\ AfterRelease(b) \in Breakers
           /\ AfterRelease(b).state = b.state
           /\ AfterRelease(b).failures = b.failures
           /\ AfterRelease(b).successes = b.successes
           /\ b.state = "half_open" =>
                AfterRelease(b).halfOpen = Decremented(b.halfOpen)
<1>0. Decremented(b.halfOpen) \in 0 .. CBHalfOpenMax
  BY BreakerAssumption DEF Decremented, Breakers
<1> QED
  BY <1>0 DEF AfterRelease, Breakers

(* Loading the file changes the two counters of a half_open breaker only   *)
(* (_migrate_circuit_breakers).                                            *)
LEMMA AfterLoadType ==
    ASSUME NEW b \in Breakers
    PROVE  /\ AfterLoad(b) \in Breakers
           /\ AfterLoad(b).state = b.state
           /\ AfterLoad(b).failures = b.failures
           /\ b.state = "half_open" => /\ AfterLoad(b).successes = 0
                                       /\ AfterLoad(b).halfOpen = 0
<1>1. CASE b.state = "half_open"
  <2>1. AfterLoad(b) = [b EXCEPT !.successes = 0, !.halfOpen = 0]
    BY <1>1 DEF AfterLoad
  <2>2. AfterLoad(b) = [state |-> b.state, failures |-> b.failures,
                        successes |-> 0, sinceChange |-> b.sinceChange,
                        halfOpen |-> 0]
    BY <2>1 DEF Breakers
  <2> QED
    BY <2>2, <1>1, BreakerAssumption DEF Breakers
<1>2. CASE b.state # "half_open"
  BY <1>2 DEF AfterLoad
<1> QED
  BY <1>1, <1>2

-----------------------------------------------------------------------------
(* The breaker with its leases.                                            *)

(* How taking or dropping one lease changes their number. *)
LEMMA LeaseCount ==
    ASSUME NEW L \in SUBSET Requests, NEW r \in Requests
    PROVE  /\ Cardinality(L) \in Nat
           /\ Cardinality(L \ {r}) \in Nat
           /\ Cardinality({}) = 0
           /\ r \notin L => Cardinality(L \cup {r}) = Cardinality(L) + 1
           /\ r \in L => Cardinality(L \ {r}) = Cardinality(L) - 1
           /\ r \in L => Cardinality(L) >= 1
           /\ r \notin L => Cardinality(L \ {r}) = Cardinality(L)
<1>1. IsFiniteSet(L)
  BY RequestsAssumption, FS_Subset
<1>2. Cardinality(L) \in Nat /\ Cardinality(L \ {r}) \in Nat
  BY <1>1, FS_CardinalityType, FS_Subset
<1>3. Cardinality({}) = 0
  BY FS_EmptySet
<1>4. r \notin L => Cardinality(L \cup {r}) = Cardinality(L) + 1
  BY <1>1, FS_AddElement
<1>5. r \in L => Cardinality(L \ {r}) = Cardinality(L) - 1
  BY <1>1, FS_RemoveElement
<1>6. r \in L => Cardinality(L) >= 1
  BY <1>2, <1>5
<1>7. r \notin L => L \ {r} = L
  OBVIOUS
<1>8. r \notin L => Cardinality(L \ {r}) = Cardinality(L)
  BY <1>7, Zenon
<1> QED
  BY <1>2, <1>3, <1>4, <1>5, <1>6, <1>8

(* The registry starts with a closed breaker and nobody holding a slot. *)
LEMMA InitIInv == Init => IInv
<1> SUFFICES ASSUME Init PROVE IInv
  OBVIOUS
<1>1. TypeOK
  BY NewBreakerType, BreakerAssumption DEF Init, TypeOK, Phases
<1> QED
  BY <1>1, NewBreakerType, BreakerAssumption
  DEF Init, IInv, LeasesAreInProgress, LeasesBelongToHalfOpen, SlotAccounting,
      StreakCoversSuccesses, FailuresPrecedeSilence, FreshCoversFailures, Recent

-----------------------------------------------------------------------------
(* Steps that leave the breaker and what was observed of it alone: only    *)
(* the phase of a call in progress changes.                                *)
LEMMA QuietStep ==
    ASSUME IInv, NEW r \in Requests, Send(r) \/ RecordNothing(r)
    PROVE  IInv'
<1>1. /\ pc' \in [Requests -> Phases]
      /\ InProgress \subseteq InProgress'
  BY DEF IInv, TypeOK, Send, RecordNothing, Goes, Phases, InProgress
<1>2. UNCHANGED <<cb, leases, leaked, streak, fresh, silence>>
  BY DEF Send, RecordNothing, history
<1> QED
  BY <1>1, <1>2
  DEF IInv, TypeOK, LeasesAreInProgress, LeasesBelongToHalfOpen, SlotAccounting,
      StreakCoversSuccesses, FailuresPrecedeSilence, FreshCoversFailures

(* Taking a slot: the caller held none, so counter and leases grow         *)
(* together, or both start from it when the breaker enters half_open.      *)
LEMMA ReserveStep ==
    ASSUME IInv, NEW r \in Requests, NEW phase \in {"reserved", "racing"},
           Reserve(r, phase)
    PROVE  IInv'
<1> DEFINE next == AfterCheck(cb, TRUE)
<1>1. /\ CanExecute(cb) /\ pc[r] = "idle"
      /\ cb' = next
      /\ UNCHANGED <<streak, fresh, silence>>
  BY DEF Reserve, Becomes, SawNothing
<1>2. /\ next \in Breakers /\ next.failures = cb.failures
      /\ cb.state = "closed" => next = cb
      /\ cb.state = "open" => next.state = "half_open" /\ next.successes = 0
                              /\ next.halfOpen = 1
      /\ cb.state = "half_open" => next.state = "half_open"
                                   /\ next.successes = cb.successes
                                   /\ next.halfOpen = cb.halfOpen + 1
      /\ cb.state \in {"closed", "open", "half_open"}
  BY <1>1, AfterCheckType DEF IInv, TypeOK, Breakers
<1> HIDE DEF next
<1>3. /\ leases' = IF next.state = "half_open" THEN leases \cup {r} ELSE {}
      /\ leaked' = IF next.state = "half_open" THEN leaked ELSE 0
  BY DEF Reserve, Becomes, next
<1>4. /\ pc' \in [Requests -> Phases]
      /\ InProgress' = InProgress \cup {r}
  BY DEF IInv, TypeOK, Reserve, Goes, Phases, InProgress
<1>5. TypeOK'
  BY <1>1, <1>2, <1>3, <1>4, BreakerAssumption DEF IInv, TypeOK
<1>6. LeasesAreInProgress' /\ LeasesBelongToHalfOpen'
  BY <1>1, <1>3, <1>4
  DEF IInv, LeasesAreInProgress, LeasesBelongToHalfOpen
<1>7. SlotAccounting'
  <2>1. r \notin leases
    BY <1>1 DEF IInv, LeasesAreInProgress, InProgress
  <2>2. /\ Cardinality(leases \cup {r}) = Cardinality(leases) + 1
        /\ Cardinality(leases) \in Nat
    BY <2>1, LeaseCount DEF IInv, TypeOK
  <2>3. leaked \in Nat /\ cb.halfOpen \in Nat
    BY BreakerAssumption DEF IInv, TypeOK, Breakers
  <2> QED
    BY <1>1, <1>2, <1>3, <2>2, <2>3
    DEF IInv, SlotAccounting, LeasesBelongToHalfOpen
<1>8. StreakCoversSuccesses'
  BY <1>1, <1>2, BreakerAssumption DEF IInv, TypeOK, StreakCoversSuccesses
<1>9. FailuresPrecedeSilence' /\ FreshCoversFailures'
  BY <1>1, <1>2 DEF IInv, FailuresPrecedeSilence, FreshCoversFailures
<1> QED
  BY <1>5, <1>6, <1>7, <1>8, <1>9 DEF IInv

(* A call that ends without returning its slot: the slot moves from the    *)
(* leases to the leaked ones.                                              *)
LEMMA LeakStep ==
    ASSUME IInv, NEW r \in Requests, DeadlinePassed(r) \/ WinRaceAsPhantom(r)
    PROVE  IInv'
<1>1. /\ cb' = cb
      /\ leases' = IF cb.state = "half_open" THEN leases \ {r} ELSE {}
      /\ leaked' = IF cb.state = "half_open" THEN LostWith(r) ELSE 0
      /\ UNCHANGED <<streak, fresh, silence>>
  BY DEF DeadlinePassed, WinRaceAsPhantom, Becomes, SawNothing
<1>2. /\ pc' \in [Requests -> Phases]
      /\ InProgress' = InProgress \ {r}
  BY DEF IInv, TypeOK, DeadlinePassed, WinRaceAsPhantom, Goes, Phases, InProgress
<1>3. /\ LostWith(r) \in 0 .. CBHalfOpenMax
      /\ r \notin leases => LostWith(r) = leaked
      /\ r \in leases => \/ LostWith(r) = leaked + 1
                         \/ LostWith(r) = CBHalfOpenMax
  BY BreakerAssumption, OneMoreType DEF IInv, TypeOK, LostWith, OneMore
<1>4. TypeOK'
  BY <1>1, <1>2, <1>3, BreakerAssumption DEF IInv, TypeOK
<1>5. LeasesAreInProgress' /\ LeasesBelongToHalfOpen'
  BY <1>1, <1>2 DEF IInv, LeasesAreInProgress, LeasesBelongToHalfOpen
<1>6. SlotAccounting'
  <2>1. /\ Cardinality(leases) \in Nat
        /\ Cardinality(leases \ {r}) \in Nat
        /\ r \in leases => Cardinality(leases \ {r}) = Cardinality(leases) - 1
        /\ r \notin leases => Cardinality(leases \ {r}) = Cardinality(leases)
    BY LeaseCount DEF IInv, TypeOK
  <2>2. leaked \in Nat /\ cb.halfOpen \in 0 .. CBHalfOpenMax
    BY BreakerAssumption DEF IInv, TypeOK, Breakers
  <2> QED
    BY <1>1, <1>3, <2>1, <2>2, BreakerAssumption DEF IInv, SlotAccounting
<1>7. StreakCoversSuccesses' /\ FailuresPrecedeSilence' /\ FreshCoversFailures'
  BY <1>1 DEF IInv, StreakCoversSuccesses, FailuresPrecedeSilence, FreshCoversFailures
<1> QED
  BY <1>4, <1>5, <1>6, <1>7 DEF IInv

(* In half_open, taking one off the counter keeps it within the accounted  *)
(* slots, whether or not some r gives up its lease at the same time.       *)
LEMMA ReturnedSlot ==
    ASSUME IInv, cb.state = "half_open"
    PROVE  /\ Decremented(cb.halfOpen) <= Cardinality(leases) + leaked
           /\ \A r \in Requests :
                Decremented(cb.halfOpen) <= Cardinality(leases \ {r}) + leaked
<1>1. leases \in SUBSET Requests /\ IsFiniteSet(leases)
  BY RequestsAssumption, FS_Subset DEF IInv, TypeOK
<1>2. Cardinality(leases) \in Nat
  BY <1>1, FS_CardinalityType
<1>3. leaked \in Nat /\ cb.halfOpen \in Nat
  BY BreakerAssumption DEF IInv, TypeOK, Breakers
<1>4. cb.halfOpen <= Cardinality(leases) + leaked
  BY DEF IInv, SlotAccounting
<1>5. ASSUME NEW r \in Requests
      PROVE  Decremented(cb.halfOpen) <= Cardinality(leases \ {r}) + leaked
  <2>1. Cardinality(leases \ {r}) \in Nat
    BY <1>1, LeaseCount
  <2>2. \/ Cardinality(leases \ {r}) = Cardinality(leases)
        \/ Cardinality(leases \ {r}) = Cardinality(leases) - 1
    BY <1>1, LeaseCount
  <2> QED
    BY <1>2, <1>3, <1>4, <2>1, <2>2 DEF Decremented
<1> QED
  BY <1>2, <1>3, <1>4, <1>5 DEF Decremented

(* Returning a slot: counter and leases shrink together, or the counter    *)
(* alone when the slot was taken in an earlier period.                     *)
LEMMA ReleaseStep ==
    ASSUME IInv, NEW r \in Requests, Release(r)
    PROVE  IInv'
<1> DEFINE next == AfterRelease(cb)
<1>1. /\ next \in Breakers /\ next.state = cb.state
      /\ next.failures = cb.failures /\ next.successes = cb.successes
      /\ cb.state = "half_open" => next.halfOpen = Decremented(cb.halfOpen)
  BY AfterReleaseType DEF IInv, TypeOK
<1> HIDE DEF next
<1>2. /\ cb' = next
      /\ leases' = IF cb.state = "half_open" THEN leases \ {r} ELSE {}
      /\ leaked' = IF cb.state = "half_open" THEN leaked ELSE 0
      /\ UNCHANGED <<streak, fresh, silence>>
  BY <1>1 DEF Release, Becomes, SawNothing, next
<1>3. /\ pc' \in [Requests -> Phases]
      /\ InProgress' = InProgress \ {r}
  BY DEF IInv, TypeOK, Release, Goes, Phases, InProgress
<1>4. TypeOK'
  BY <1>1, <1>2, <1>3, BreakerAssumption DEF IInv, TypeOK
<1>5. LeasesAreInProgress' /\ LeasesBelongToHalfOpen'
  BY <1>1, <1>2, <1>3 DEF IInv, LeasesAreInProgress, LeasesBelongToHalfOpen
<1>6. SlotAccounting'
  BY <1>1, <1>2, ReturnedSlot DEF SlotAccounting
<1>7. StreakCoversSuccesses' /\ FailuresPrecedeSilence' /\ FreshCoversFailures'
  BY <1>1, <1>2
  DEF IInv, StreakCoversSuccesses, FailuresPrecedeSilence, FreshCoversFailures
<1> QED
  BY <1>4, <1>5, <1>6, <1>7 DEF IInv

(* A success, of a call in progress or of somebody else: in half_open it    *)
(* counts, returns a slot, and may close the breaker.                      *)
LEMMA SuccessStep ==
    ASSUME IInv,
           \/ OutsideSuccess
           \/ \E r \in Requests : RecordSuccess(r) \/ WinRace(r)
    PROVE  IInv' /\ (cb.state = "half_open" /\ cb'.state = "closed"
                        => streak' = CBSuccessThreshold)
<1> DEFINE next == AfterSuccess(cb)
<1>1. PICK held \in SUBSET leases :
        /\ \/ held = leases
           \/ \E r \in Requests : held = leases \ {r}
        /\ Becomes(next, held, leaked)
        /\ pc' \in [Requests -> Phases]
        /\ held \subseteq InProgress'
        /\ SawSuccess
  <2>1. CASE OutsideSuccess
    BY <2>1 DEF OutsideSuccess, IInv, TypeOK, LeasesAreInProgress, InProgress
  <2>2. ASSUME NEW r \in Requests, RecordSuccess(r)
        PROVE  /\ Becomes(next, leases, leaked) /\ SawSuccess
               /\ pc' \in [Requests -> Phases] /\ leases \subseteq InProgress'
    BY <2>2 DEF RecordSuccess, Goes, Phases, IInv, TypeOK, LeasesAreInProgress,
                InProgress
  <2>3. ASSUME NEW r \in Requests, WinRace(r)
        PROVE  /\ Becomes(next, leases \ {r}, leaked) /\ SawSuccess
               /\ pc' \in [Requests -> Phases]
               /\ leases \ {r} \subseteq InProgress'
    BY <2>3 DEF WinRace, Goes, Phases, IInv, TypeOK, LeasesAreInProgress,
                InProgress
  <2> QED
    BY <2>1, <2>2, <2>3
<1>2. /\ next \in Breakers
      /\ cb.state # "half_open" => next = cb
      /\ cb.state = "half_open" =>
           /\ next.state \in {"half_open", "closed"}
           /\ next.halfOpen = Decremented(cb.halfOpen)
           /\ next.state = "half_open" => /\ next.successes = cb.successes + 1
                                         /\ next.failures = cb.failures
           /\ next.state = "closed" =>
                /\ cb.successes + 1 >= CBSuccessThreshold
                /\ \A i \in Recent : next.failures[i] = CBWindow
  BY AfterSuccessType DEF IInv, TypeOK
<1> HIDE DEF next
<1>3. /\ cb' = next
      /\ leases' = IF next.state = "half_open" THEN held ELSE {}
      /\ leaked' = IF next.state = "half_open" THEN leaked ELSE 0
      /\ silence' = silence
      /\ streak' = IF cb.state = "half_open"
                      THEN OneMore(streak, CBSuccessThreshold) ELSE streak
      /\ fresh' = IF cb.state = "half_open" /\ next.state = "closed"
                     THEN 0 ELSE fresh
  BY <1>1 DEF Becomes, SawSuccess
<1>4. /\ streak \in 0 .. CBSuccessThreshold
      /\ OneMore(streak, CBSuccessThreshold) \in 0 .. CBSuccessThreshold
      /\ streak < CBSuccessThreshold
           => OneMore(streak, CBSuccessThreshold) = streak + 1
      /\ streak <= OneMore(streak, CBSuccessThreshold)
      /\ cb.state = "half_open" => cb.successes <= streak
      /\ cb.successes \in 0 .. CBSuccessThreshold - 1
  BY OneMoreType, BreakerAssumption
  DEF IInv, TypeOK, StreakCoversSuccesses, Breakers
<1>5. TypeOK'
  BY <1>1, <1>2, <1>3, <1>4, BreakerAssumption DEF IInv, TypeOK
<1>6. LeasesAreInProgress' /\ LeasesBelongToHalfOpen'
  BY <1>1, <1>3 DEF LeasesAreInProgress, LeasesBelongToHalfOpen
<1>7. SlotAccounting'
  <2>1. cb'.state = "half_open" => /\ cb.state = "half_open"
                                   /\ cb'.halfOpen = Decremented(cb.halfOpen)
                                   /\ leases' = held /\ leaked' = leaked
    BY <1>2, <1>3
  <2>2. cb.state = "half_open"
          => Decremented(cb.halfOpen) <= Cardinality(held) + leaked
    BY <1>1, ReturnedSlot
  <2> QED
    BY <2>1, <2>2 DEF SlotAccounting
<1>8. StreakCoversSuccesses'
  <2>1. cb.state = "half_open" /\ next.state = "half_open"
          => next.successes \in 0 .. CBSuccessThreshold - 1
    BY <1>2 DEF Breakers
  <2> QED
    BY <1>2, <1>3, <1>4, <2>1, BreakerAssumption
    DEF IInv, StreakCoversSuccesses
<1>9. FailuresPrecedeSilence' /\ FreshCoversFailures'
  <2>1. silence <= CBWindow
    BY BreakerAssumption DEF IInv, TypeOK
  <2>2. CASE next.failures = cb.failures /\ fresh' = fresh
    BY <2>2, <1>3 DEF IInv, FailuresPrecedeSilence, FreshCoversFailures
  <2>3. CASE \A i \in Recent : next.failures[i] = CBWindow
    BY <2>1, <2>3, <1>3, BreakerAssumption
    DEF FailuresPrecedeSilence, FreshCoversFailures
  <2> QED
    BY <1>2, <1>3, <2>2, <2>3
<1>10. cb.state = "half_open" /\ cb'.state = "closed"
         => streak' = CBSuccessThreshold
  BY <1>2, <1>3, <1>4, BreakerAssumption
<1> QED
  BY <1>5, <1>6, <1>7, <1>8, <1>9, <1>10 DEF IInv

(* A failure, of a call in progress or of somebody else: the breaker is    *)
(* not half_open afterwards, and opens only on enough fresh failures.      *)
LEMMA FailureStep ==
    ASSUME IInv,
           \/ OutsideFailure
           \/ \E r \in Requests : RecordFailure(r) \/ WinRaceWithBadBody(r)
    PROVE  IInv' /\ (cb.state = "closed" /\ cb'.state = "open"
                        => fresh' = CBFailureThreshold)
<1> DEFINE next == AfterFailure(cb)
<1>1. /\ \E held \in SUBSET leases : Becomes(next, held, leaked)
      /\ pc' \in [Requests -> Phases]
      /\ SawFailure
  BY DEF OutsideFailure, RecordFailure, WinRaceWithBadBody, Goes, Phases, IInv,
         TypeOK
<1>2. /\ next \in Breakers
      /\ next.state # "half_open"
      /\ next.failures \in [Recent -> 0 .. CBWindow]
      /\ next.failures[1] = 0
      /\ \A i \in Recent : i # 1 => /\ i - 1 \in Recent
                                    /\ next.failures[i] = cb.failures[i - 1]
      /\ cb.state = "closed" /\ next.state = "open"
           => next.failures[CBFailureThreshold] < CBWindow
  BY AfterFailureType, WithFailureType DEF IInv, TypeOK
<1> HIDE DEF next
<1>3. /\ cb' = next /\ leases' = {} /\ leaked' = 0
      /\ streak' = 0 /\ silence' = 0
      /\ fresh' = OneMore(fresh, CBFailureThreshold)
  BY <1>1, <1>2 DEF Becomes, SawFailure
<1>4. /\ fresh \in 0 .. CBFailureThreshold
      /\ fresh' \in 0 .. CBFailureThreshold
      /\ fresh < CBFailureThreshold => fresh' = fresh + 1
      /\ fresh = CBFailureThreshold => fresh' = CBFailureThreshold
  BY <1>3, OneMoreType, BreakerAssumption DEF IInv, TypeOK
<1>5. TypeOK'
  BY <1>1, <1>2, <1>3, <1>4, BreakerAssumption DEF IInv, TypeOK
<1>6. /\ LeasesAreInProgress' /\ LeasesBelongToHalfOpen' /\ SlotAccounting'
      /\ StreakCoversSuccesses'
  BY <1>2, <1>3
  DEF LeasesAreInProgress, LeasesBelongToHalfOpen, SlotAccounting,
      StreakCoversSuccesses
<1>7. FailuresPrecedeSilence'
  BY <1>2, <1>3, BreakerAssumption DEF FailuresPrecedeSilence
<1>8. FreshCoversFailures'
  <2> SUFFICES ASSUME NEW i \in Recent, next.failures[i] < CBWindow
               PROVE  i <= fresh'
    BY <1>3 DEF FreshCoversFailures
  <2>1. CASE i = 1
    BY <2>1, <1>4, BreakerAssumption
  <2>2. CASE i # 1
    <3>1. i - 1 \in Recent /\ cb.failures[i - 1] < CBWindow
      BY <2>2, <1>2
    <3>2. i - 1 <= fresh
      BY <3>1 DEF IInv, FreshCoversFailures
    <3> QED
      BY <3>2, <1>4, BreakerAssumption DEF Recent
  <2> QED
    BY <2>1, <2>2
<1>9. cb.state = "closed" /\ cb'.state = "open" => fresh' = CBFailureThreshold
  <2> SUFFICES ASSUME cb.state = "closed", next.state = "open"
               PROVE  CBFailureThreshold <= fresh'
    BY <1>3, <1>4, BreakerAssumption
  <2>1. CBFailureThreshold \in Recent
    BY BreakerAssumption DEF Recent
  <2> QED
    BY <1>2, <1>3, <1>8, <2>1 DEF FreshCoversFailures
<1> QED
  BY <1>5, <1>6, <1>7, <1>8, <1>9 DEF IInv

(* A caller that only looks may move an open breaker to half_open. *)
LEMMA PeekStep ==
    ASSUME IInv, Peek
    PROVE  IInv'
<1> DEFINE next == AfterCheck(cb, FALSE)
<1>1. /\ next \in Breakers /\ next.failures = cb.failures
      /\ \/ next = cb
         \/ /\ cb.state = "open" /\ next.state = "half_open"
            /\ next.successes = 0 /\ next.halfOpen = 0
         \/ /\ cb.state = "half_open" /\ next.state = "half_open"
            /\ next.successes = cb.successes /\ next.halfOpen = cb.halfOpen
  <2>2. cb \in Breakers /\ cb.state \in {"closed", "open", "half_open"}
    BY DEF IInv, TypeOK, Breakers
  <2>3. CASE ~CanExecute(cb) \/ cb.state = "closed"
    BY <2>2, <2>3, AfterCheckType
  <2>4. CASE CanExecute(cb) /\ cb.state = "open"
    BY <2>2, <2>4, AfterCheckType
  <2>5. CASE CanExecute(cb) /\ cb.state = "half_open"
    BY <2>2, <2>5, AfterCheckType
  <2> QED
    BY <2>2, <2>3, <2>4, <2>5
<1> HIDE DEF next
<1>2. /\ cb' = next
      /\ leases' = IF next.state = "half_open" THEN leases ELSE {}
      /\ leaked' = IF next.state = "half_open" THEN leaked ELSE 0
      /\ UNCHANGED <<pc, streak, fresh, silence>>
  BY DEF Peek, Becomes, SawNothing, next
<1>3. leases' = leases /\ leaked' = leaked
  BY <1>1, <1>2 DEF IInv, LeasesBelongToHalfOpen
<1>4. TypeOK'
  BY <1>1, <1>2, <1>3 DEF IInv, TypeOK
<1>5. LeasesAreInProgress' /\ LeasesBelongToHalfOpen'
  BY <1>1, <1>2, <1>3
  DEF IInv, LeasesAreInProgress, LeasesBelongToHalfOpen, InProgress
<1>6. SlotAccounting'
  <2>1. Cardinality(leases) + leaked \in Nat
    BY RequestsAssumption, FS_Subset, FS_CardinalityType, BreakerAssumption
    DEF IInv, TypeOK
  <2>2. \/ cb'.halfOpen = 0
        \/ cb'.state = cb.state /\ cb'.halfOpen = cb.halfOpen
    BY <1>1, <1>2
  <2> QED
    BY <1>3, <2>1, <2>2 DEF IInv, SlotAccounting
<1>7. StreakCoversSuccesses' /\ FailuresPrecedeSilence' /\ FreshCoversFailures'
  BY <1>1, <1>2, BreakerAssumption
  DEF IInv, TypeOK, StreakCoversSuccesses, FailuresPrecedeSilence,
      FreshCoversFailures
<1> QED
  BY <1>4, <1>5, <1>6, <1>7 DEF IInv

(* Time ages failures and silence alike. *)
LEMMA TickStep ==
    ASSUME IInv, Tick
    PROVE  IInv' /\ cb'.state = cb.state
<1> DEFINE next == Aged(cb)
<1>1. /\ next \in Breakers
      /\ next.state = cb.state /\ next.halfOpen = cb.halfOpen
      /\ next.successes = cb.successes
      /\ \A i \in Recent : next.failures[i] = OneMore(cb.failures[i], CBWindow)
  BY AgedType DEF IInv, TypeOK
<1> HIDE DEF next
<1>2. /\ cb' = next
      /\ leases' = leases /\ leaked' = leaked
      /\ silence' = OneMore(silence, CBWindow)
      /\ fresh' = IF silence' = CBWindow THEN 0 ELSE fresh
      /\ pc' = pc /\ streak' = streak
  BY <1>1 DEF Tick, Becomes, IInv, LeasesBelongToHalfOpen, next
<1>3. silence \in 0 .. CBWindow /\ silence' \in 0 .. CBWindow
  BY <1>2, OneMoreType, BreakerAssumption DEF IInv, TypeOK
<1>4. \A i \in Recent : cb.failures[i] \in 0 .. CBWindow
  BY DEF IInv, TypeOK, Breakers
<1>5. TypeOK'
  BY <1>1, <1>2, <1>3, BreakerAssumption DEF IInv, TypeOK
<1>6. /\ LeasesAreInProgress' /\ LeasesBelongToHalfOpen' /\ SlotAccounting'
      /\ StreakCoversSuccesses'
  BY <1>1, <1>2
  DEF IInv, LeasesAreInProgress, LeasesBelongToHalfOpen, SlotAccounting,
      StreakCoversSuccesses, InProgress
<1>7. FailuresPrecedeSilence'
  <2> SUFFICES ASSUME NEW i \in Recent
               PROVE  OneMore(silence, CBWindow) <= OneMore(cb.failures[i], CBWindow)
    BY <1>1, <1>2 DEF FailuresPrecedeSilence
  <2>1. silence <= cb.failures[i]
    BY DEF IInv, FailuresPrecedeSilence
  <2> QED
    BY <2>1, <1>3, <1>4, BreakerAssumption DEF OneMore
<1>8. FreshCoversFailures'
  <2> SUFFICES ASSUME NEW i \in Recent, cb'.failures[i] < CBWindow
               PROVE  i <= fresh'
    BY DEF FreshCoversFailures
  <2>1. cb'.failures[i] = OneMore(cb.failures[i], CBWindow)
    BY <1>1, <1>2
  <2>2. cb.failures[i] < CBWindow
    BY <2>1, <1>4, BreakerAssumption DEF OneMore
  <2>3. silence' # CBWindow
    BY <1>3, <1>7, <2>1, <1>4, BreakerAssumption
    DEF FailuresPrecedeSilence, OneMore
  <2> QED
    BY <1>2, <2>2, <2>3 DEF IInv, FreshCoversFailures
<1> QED
  BY <1>1, <1>2, <1>5, <1>6, <1>7, <1>8 DEF IInv

(* A restart forgets the calls in progress together with the counters that *)
(* spoke of them.                                                          *)
LEMMA RestartStep ==
    ASSUME IInv, Restart
    PROVE  IInv' /\ cb'.state = cb.state
<1> DEFINE next == AfterLoad(cb)
<1>1. /\ next \in Breakers
      /\ next.state = cb.state /\ next.failures = cb.failures
      /\ cb.state = "half_open" => next.successes = 0 /\ next.halfOpen = 0
  BY AfterLoadType DEF IInv, TypeOK
<1> HIDE DEF next
<1>2. /\ cb' = next
      /\ leases' = {} /\ leaked' = 0 /\ streak' = 0
      /\ pc' \in [Requests -> Phases]
      /\ UNCHANGED <<fresh, silence>>
  BY <1>1 DEF Restart, Becomes, Phases, next
<1>3. TypeOK'
  BY <1>1, <1>2, BreakerAssumption DEF IInv, TypeOK
<1>4. /\ LeasesAreInProgress' /\ LeasesBelongToHalfOpen'
      /\ SlotAccounting' /\ StreakCoversSuccesses'
  BY <1>1, <1>2, FS_EmptySet
  DEF LeasesAreInProgress, LeasesBelongToHalfOpen, SlotAccounting,
      StreakCoversSuccesses
<1>5. FailuresPrecedeSilence' /\ FreshCoversFailures'
  BY <1>1, <1>2 DEF IInv, FailuresPrecedeSilence, FreshCoversFailures
<1> QED
  BY <1>1, <1>2, <1>3, <1>4, <1>5 DEF IInv

-----------------------------------------------------------------------------
(* What one step of the system may do with the breaker's state. *)
Lawful == /\ cb.state = "half_open" /\ cb'.state = "closed"
               => streak' = CBSuccessThreshold
          /\ cb.state = "closed" /\ cb'.state = "open"
               => fresh' = CBFailureThreshold

(* Every action preserves the invariant and is lawful. *)
LEMMA NextIInv == IInv /\ [Next]_vars => IInv' /\ Lawful
<1> SUFFICES ASSUME IInv, [Next]_vars PROVE IInv' /\ Lawful
  OBVIOUS
<1>1. ASSUME NEW r \in Requests, NEW phase \in {"reserved", "racing"},
             Reserve(r, phase)
      PROVE  IInv' /\ Lawful
  <2>1. AfterCheck(cb, TRUE) = cb \/ AfterCheck(cb, TRUE).state = "half_open"
    BY <1>1, AfterCheckType DEF Reserve, IInv, TypeOK, Breakers
  <2>2. cb' = cb \/ cb'.state = "half_open"
    BY <1>1, <2>1 DEF Reserve, Becomes
  <2> QED
    BY <1>1, <2>2, ReserveStep DEF Lawful
<1>2. ASSUME NEW r \in Requests, Send(r) \/ RecordNothing(r)
      PROVE  IInv' /\ Lawful
  BY <1>2, QuietStep DEF Send, RecordNothing, Lawful
<1>3. ASSUME NEW r \in Requests, DeadlinePassed(r) \/ WinRaceAsPhantom(r)
      PROVE  IInv' /\ Lawful
  BY <1>3, LeakStep DEF DeadlinePassed, WinRaceAsPhantom, Becomes, Lawful
<1>4. ASSUME NEW r \in Requests, Release(r)
      PROVE  IInv' /\ Lawful
  <2>1. cb'.state = cb.state
    BY <1>4, AfterReleaseType DEF Release, Becomes, IInv, TypeOK
  <2> QED
    BY <1>4, <2>1, ReleaseStep DEF Lawful
<1>5. ASSUME \/ OutsideSuccess
             \/ \E r \in Requests : RecordSuccess(r) \/ WinRace(r)
      PROVE  IInv' /\ Lawful
  <2>1. cb' = AfterSuccess(cb)
    BY <1>5 DEF OutsideSuccess, RecordSuccess, WinRace, Becomes
  <2>2. ~(cb.state = "closed" /\ cb'.state = "open")
    BY <2>1, AfterSuccessType DEF IInv, TypeOK
  <2> QED
    BY <1>5, <2>2, SuccessStep DEF Lawful
<1>6. ASSUME \/ OutsideFailure
             \/ \E r \in Requests : RecordFailure(r) \/ WinRaceWithBadBody(r)
      PROVE  IInv' /\ Lawful
  <2>1. cb' = AfterFailure(cb)
    BY <1>6 DEF OutsideFailure, RecordFailure, WinRaceWithBadBody, Becomes
  <2>2. ~(cb.state = "half_open" /\ cb'.state = "closed")
    BY <2>1 DEF AfterFailure, IInv, TypeOK, Breakers
  <2> QED
    BY <1>6, <2>2, FailureStep DEF Lawful
<1>7. ASSUME Peek PROVE IInv' /\ Lawful
  <2>1. AfterCheck(cb, FALSE) = cb \/ AfterCheck(cb, FALSE).state = "half_open"
    BY AfterCheckType DEF IInv, TypeOK, Breakers
  <2>2. cb' = cb \/ cb'.state = "half_open"
    BY <1>7, <2>1 DEF Peek, Becomes
  <2> QED
    BY <1>7, <2>2, PeekStep DEF Lawful
<1>8. ASSUME Tick PROVE IInv' /\ Lawful
  BY <1>8, TickStep DEF Lawful
<1>9. ASSUME Restart PROVE IInv' /\ Lawful
  BY <1>9, RestartStep DEF Lawful
<1>10. ASSUME UNCHANGED vars PROVE IInv' /\ Lawful
  BY <1>10
  DEF vars, history, IInv, TypeOK, LeasesAreInProgress, LeasesBelongToHalfOpen,
      SlotAccounting, StreakCoversSuccesses, FailuresPrecedeSilence,
      FreshCoversFailures, InProgress, Lawful
<1> QED
  BY <1>1, <1>2, <1>3, <1>4, <1>5, <1>6, <1>7, <1>8, <1>9, <1>10
  DEF Next, Handler

-----------------------------------------------------------------------------
(* Breaker, phases and counters keep their types in every reachable state. *)
THEOREM TypeCorrect == Spec => []TypeOK
<1>1. IInv => TypeOK
  BY DEF IInv
<1> QED
  BY <1>1, InitIInv, NextIInv, PTL DEF Spec

(* can_execute_cb refuses a caller of a half_open breaker only when that   *)
(* many upstream calls are in progress or lost their slot.                 *)
THEOREM RefusalsJustified == Spec => []RefusalsHaveACause
<1>1. IInv => RefusalsHaveACause
  <2> SUFFICES ASSUME IInv, cb.state = "half_open", ~CanExecute(cb)
               PROVE  Cardinality(InProgress) + leaked >= CBHalfOpenMax
    BY DEF RefusalsHaveACause
  <2>1. cb.halfOpen >= CBHalfOpenMax
    BY BreakerAssumption DEF CanExecute, IInv, TypeOK, Breakers
  <2>2. /\ leases \subseteq InProgress
        /\ IsFiniteSet(InProgress)
    BY RequestsAssumption, FS_Subset DEF IInv, LeasesAreInProgress, InProgress
  <2>3. /\ Cardinality(leases) <= Cardinality(InProgress)
        /\ Cardinality(leases) \in Nat
        /\ Cardinality(InProgress) \in Nat
    BY <2>2, FS_Subset, FS_CardinalityType
  <2>4. cb.halfOpen \in Nat /\ leaked \in Nat
    BY BreakerAssumption DEF IInv, TypeOK, Breakers
  <2> QED
    BY <2>1, <2>3, <2>4, BreakerAssumption DEF IInv, SlotAccounting
<1> QED
  BY <1>1, InitIInv, NextIInv, PTL DEF Spec

(* The breaker closes only on CBSuccessThreshold successes in half_open    *)
(* uninterrupted by a failure or a restart (record_cb_success).            *)
THEOREM RecoveryEarned == Spec => RecoveryIsEarned
<1>1. IInv /\ [Next]_vars
        => [cb.state = "half_open" /\ cb'.state = "closed"
              => streak' = CBSuccessThreshold]_vars
  BY NextIInv DEF Lawful
<1> QED
  BY <1>1, InitIInv, NextIInv, PTL DEF Spec, RecoveryIsEarned

(* The breaker trips only on CBFailureThreshold failures since it last     *)
(* closed or was silent for a whole window (record_cb_failure).            *)
THEOREM TripsFresh == Spec => TripsAreFresh
<1>1. IInv /\ [Next]_vars
        => [cb.state = "closed" /\ cb'.state = "open"
              => fresh' = CBFailureThreshold]_vars
  BY NextIInv DEF Lawful
<1> QED
  BY <1>1, InitIInv, NextIInv, PTL DEF Spec, TripsAreFresh
=============================================================================
