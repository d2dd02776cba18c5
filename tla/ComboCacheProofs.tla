---------------------------- MODULE ComboCacheProofs ---------------------------
(* That no list a request is answered from holds a model the filters drop, *)
(* for any models, threads and contents of the file.  The file itself may  *)
(* hold anything: what is inductive is that no thread has such a list in   *)
(* its hands at any step, and that none is remembered.                     *)
EXTENDS ComboCache, TLAPS

Sources == {"disk", "catalog", "fallback"}
Places  == {"tmp", "disk", "gone"}

(* The refresher neither sieves nor keeps what it has. *)
NotForRefresher == {"disk", "sieve", "asked", "store", "answer"}

Sound(t, k) == /\ k \in Tasks
               /\ k.list \cap Blocked = {}
               /\ t = Refresher => k.step \notin NotForRefresher

TasksSound == /\ task \in [Threads -> Tasks]
              /\ \A t \in Threads : Sound(t, task[t])

StoresSound == /\ up \in BOOLEAN /\ off \in SUBSET Retired
               /\ mem \in Lists /\ mem \cap Blocked = {}
               /\ dis \in [list : Lists, fresh : BOOLEAN]
               /\ disk \in Files /\ tmp \in Files

IInv == StoresSound /\ TasksSound

-----------------------------------------------------------------------------
(* Changes to a task.                                                      *)

Fields == {"step", "broad", "list", "off", "from", "at"}

(* A function with the fields of a task is one. *)
LEMMA IsTask ==
    ASSUME NEW k, k = [f \in Fields |-> k[f]],
           k["step"] \in Steps, k["broad"] \in BOOLEAN, k["list"] \in Lists, k["off"] \in Lists,
           k["from"] \in Sources, k["at"] \in Places
    PROVE  k \in Tasks
<1> DEFINE e == [step |-> k["step"], broad |-> k["broad"], list |-> k["list"],
                 off |-> k["off"], from |-> k["from"], at |-> k["at"]]
<1>1. e \in Tasks
  BY DEF Tasks, Sources, Places
<1>2. DOMAIN e = Fields /\ \A f \in Fields : e[f] = k[f]
  BY DEF Fields
<1>3. e = [f \in DOMAIN e |-> e[f]]
  OBVIOUS
<1>4. e = k
  BY <1>2, <1>3
<1> QED
  BY <1>1, <1>4

LEMMA TaskFields ==
    ASSUME NEW k \in Tasks
    PROVE  /\ DOMAIN k = Fields
           /\ k["step"] \in Steps /\ k["broad"] \in BOOLEAN
           /\ k["list"] \in Lists /\ k["off"] \in Lists
           /\ k["from"] \in Sources /\ k["at"] \in Places
BY DEF Tasks, Fields, Sources, Places

(* A task stays sound when its fields are changed for sound ones. *)
LEMMA ChangedSound ==
    ASSUME NEW t, NEW k, Sound(t, k), NEW c,
           DOMAIN c \subseteq Fields,
           "step" \in DOMAIN c, c["step"] \in Steps,
           t = Refresher => c["step"] \notin NotForRefresher,
           "broad" \in DOMAIN c => c["broad"] \in BOOLEAN,
           "list" \in DOMAIN c => c["list"] \in Lists /\ c["list"] \cap Blocked = {},
           "off" \in DOMAIN c => c["off"] \in Lists,
           "from" \in DOMAIN c => c["from"] \in Sources,
           "at" \in DOMAIN c => c["at"] \in Places
    PROVE  Sound(t, Changed(k, c))
<1> DEFINE w == Changed(k, c)
<1>1. k \in Tasks /\ k["list"] \cap Blocked = {}
  BY DEF Sound
<1>2. DOMAIN k = Fields
  BY <1>1, TaskFields
<1>3. w = [f \in Fields |-> w[f]] /\ \A f \in Fields : w[f] = IF f \in DOMAIN c THEN c[f] ELSE k[f]
  BY <1>2 DEF Changed
<1> HIDE DEF w
<1>4. w["step"] = c["step"] /\ w["broad"] \in BOOLEAN
  BY <1>1, <1>3, TaskFields DEF Fields
<1>5. w["list"] \in Lists /\ w["off"] \in Lists
  BY <1>1, <1>3, TaskFields DEF Fields
<1>6. w["from"] \in Sources /\ w["at"] \in Places
  BY <1>1, <1>3, TaskFields DEF Fields
<1>7. w["list"] \cap Blocked = {}
  BY <1>1, <1>3 DEF Fields
<1>8. w \in Tasks
  BY <1>3, <1>4, <1>5, <1>6, IsTask
<1> QED
  BY <1>4, <1>7, <1>8 DEF w, Sound

LEMMA MoveSound ==
    ASSUME TasksSound, NEW t \in Threads, NEW c, Move(t, c), Sound(t, Changed(task[t], c))
    PROVE  TasksSound'
<1> DEFINE k == Changed(task[t], c)
<1>1. task' = [task EXCEPT ![t] = k] /\ k \in Tasks
  BY DEF Move, Sound
<1> HIDE DEF k
<1>2. task' \in [Threads -> Tasks]
  BY <1>1 DEF TasksSound
<1>3. task'[t] = k /\ \A u \in Threads : u # t => task'[u] = task[u]
  BY <1>1 DEF TasksSound
<1>4. Sound(t, k)
  BY DEF k
<1> QED
  BY <1>2, <1>3, <1>4 DEF TasksSound, Sound

(* What is a task's own: the steps, and the difference of a request from   *)
(* the refresher.                                                          *)
LEMMA Requested ==
    /\ \A r \in Requests : r \in Threads /\ r # Refresher
    /\ Refresher \in Threads
    /\ \A t \in Threads : task[t].step \in NotForRefresher /\ TasksSound => t \in Requests
BY ComboAssumption DEF Threads, TasksSound, Sound

LEMMA AllowedSound ==
    ASSUME NEW l \in Lists
    PROVE  Allowed(l) \in Lists /\ Allowed(l) \cap Blocked = {}
BY DEF Allowed, Lists

LEMMA ReadableIsList == ASSUME StoresSound PROVE Readable \in Lists
BY DEF StoresSound, Files, None, Torn, Whole, Lists, Readable

(* What the filter of the disabled makes of a list. *)
LEMMA SievedSound ==
    ASSUME TasksSound, NEW r \in Requests, NEW d \in Lists, Sieved(r, d)
    PROVE  TasksSound'
<1> DEFINE l == task[r].list \ d
           next == CASE task[r].from = "disk" -> IF l = {} THEN "fetch" ELSE "store"
                     [] task[r].from = "catalog" -> "write"
                     [] task[r].from = "fallback" -> "store"
<1>1. Sound(r, task[r]) /\ r \in Threads /\ r # Refresher
  BY Requested DEF TasksSound
<1>2. task[r].list \in Lists /\ task[r].from \in Sources /\ task[r].list \cap Blocked = {}
  BY <1>1, TaskFields DEF Sound
<1>3. l \in Lists /\ l \cap Blocked = {}
  BY <1>2 DEF Lists
<1>4. next \in Steps
  BY <1>2 DEF Steps, Sources
<1>5. Move(r, [step |-> next, list |-> l, off |-> {}])
  BY DEF Sieved
<1> HIDE DEF l, next
<1>6. Sound(r, Changed(task[r], [step |-> next, list |-> l, off |-> {}]))
  BY <1>1, <1>3, <1>4, ChangedSound DEF Fields, Lists
<1> QED
  BY <1>1, <1>5, <1>6, MoveSound

LEMMA ObtainedSound ==
    ASSUME TasksSound, NEW t \in Threads, NEW l \in Lists, l \cap Blocked = {},
           NEW from \in Sources, Obtained(t, l, from)
    PROVE  TasksSound'
<1> DEFINE s == IF t \in Requests /\ ~task[t].broad THEN "sieve"
                ELSE IF t \in Requests THEN "answer"
                ELSE IF Cardinality(l) >= MinWrite THEN "write" ELSE "idle"
<1>1. Sound(t, task[t])
  BY DEF TasksSound
<1>2. Move(t, [step |-> s, list |-> l, from |-> from])
  BY DEF Obtained, Unfiltered
<1>3. s \in Steps /\ (t = Refresher => s \notin NotForRefresher)
  BY Requested DEF Steps, NotForRefresher
<1> HIDE DEF s
<1>4. Sound(t, Changed(task[t], [step |-> s, list |-> l, from |-> from]))
  BY <1>1, <1>3, ChangedSound DEF Fields
<1> QED
  BY <1>2, <1>4, MoveSound

(* Changes of the step, and of what else is not a list. *)
LEMMA StepSound ==
    ASSUME TasksSound, NEW t \in Threads, NEW s \in Steps, NEW b \in BOOLEAN, NEW o \in Lists,
           NEW p \in Places, t = Refresher => s \notin NotForRefresher,
           \/ Move(t, [step |-> s])
           \/ Move(t, [step |-> s, broad |-> b])
           \/ Move(t, [step |-> s, off |-> o])
           \/ Move(t, [step |-> s, at |-> p])
    PROVE  TasksSound'
<1>1. Sound(t, task[t])
  BY DEF TasksSound
<1>2. CASE Move(t, [step |-> s])
  <2>1. Sound(t, Changed(task[t], [step |-> s]))
    BY <1>1, ChangedSound DEF Fields
  <2> QED
    BY <1>2, <2>1, MoveSound
<1>3. CASE Move(t, [step |-> s, broad |-> b])
  <2>1. Sound(t, Changed(task[t], [step |-> s, broad |-> b]))
    BY <1>1, ChangedSound DEF Fields
  <2> QED
    BY <1>3, <2>1, MoveSound
<1>4. CASE Move(t, [step |-> s, off |-> o])
  <2>1. Sound(t, Changed(task[t], [step |-> s, off |-> o]))
    BY <1>1, ChangedSound DEF Fields
  <2> QED
    BY <1>4, <2>1, MoveSound
<1>5. CASE Move(t, [step |-> s, at |-> p])
  <2>1. Sound(t, Changed(task[t], [step |-> s, at |-> p]))
    BY <1>1, ChangedSound DEF Fields
  <2> QED
    BY <1>5, <2>1, MoveSound
<1> QED
  BY <1>2, <1>3, <1>4, <1>5

-----------------------------------------------------------------------------
(* The actions of threads.                                                 *)

LEMMA AskSteps ==
    ASSUME IInv, NEW r \in Requests, Ask(r)
    PROVE  IInv'
<1>1. r \in Threads /\ r # Refresher /\ Sound(r, task[r])
  BY Requested DEF IInv, TasksSound
<1>2. StoresSound'
  BY DEF Ask, gateway, IInv, StoresSound
<1>3. CASE Move(r, [step |-> "answer", broad |-> FALSE, list |-> mem])
  <2>1. Sound(r, Changed(task[r], [step |-> "answer", broad |-> FALSE, list |-> mem]))
    BY <1>1, ChangedSound DEF Fields, Steps, IInv, StoresSound
  <2> QED
    BY <1>1, <1>2, <1>3, <2>1, MoveSound DEF IInv
<1>4. CASE Move(r, [step |-> "disk", broad |-> FALSE])
  BY <1>1, <1>2, <1>4, StepSound DEF IInv, Steps, Lists, Places
<1>5. CASE Move(r, [step |-> "fetch", broad |-> TRUE])
  BY <1>1, <1>2, <1>5, StepSound DEF IInv, Steps, Lists, Places
<1> QED
  BY <1>3, <1>4, <1>5 DEF Ask

LEMMA ReadDiskSteps ==
    ASSUME IInv, NEW t \in Threads, ReadDisk(t)
    PROVE  IInv'
<1> DEFINE l == Stored(Readable)
<1>1. t \in Requests /\ t # Refresher /\ Sound(t, task[t])
  BY Requested DEF ReadDisk, NotForRefresher, IInv, TasksSound
<1>2. StoresSound'
  BY DEF ReadDisk, gateway, IInv, StoresSound
<1>3. l \in Lists /\ l \cap Blocked = {}
  BY AllowedSound, ReadableIsList DEF Stored, IInv
<1>4. \/ Move(t, [step |-> "fetch"])
      \/ Move(t, [step |-> "sieve", list |-> l, from |-> "disk"])
  BY DEF ReadDisk
<1> HIDE DEF l
<1>5. Sound(t, Changed(task[t], [step |-> "sieve", list |-> l, from |-> "disk"]))
  BY <1>1, <1>3, ChangedSound DEF Fields, Steps, Sources
<1>6. Sound(t, Changed(task[t], [step |-> "fetch"]))
  BY <1>1, ChangedSound DEF Fields, Steps
<1> QED
  BY <1>2, <1>4, <1>5, <1>6, MoveSound DEF IInv

(* The registry of disabled models, older or newer. *)
LEMMA DisabledIsKnown ==
    ASSUME StoresSound
    PROVE  /\ dis.list \in Lists
           /\ \A b \in BOOLEAN : [dis EXCEPT !.fresh = b] \in [list : Lists, fresh : BOOLEAN]
BY DEF StoresSound

LEMMA SieveSteps ==
    ASSUME IInv, NEW t \in Threads, Sieve(t) \/ KeepDisabled(t) \/ NoRegistry(t)
    PROVE  IInv'
<1>1. t \in Requests
  BY Requested DEF Sieve, KeepDisabled, NoRegistry, NotForRefresher, IInv
<1>2. dis.list \in Lists /\ task[t].off \in Lists
  BY TaskFields, DisabledIsKnown DEF IInv, TasksSound
<1>3. TasksSound'
  <2>1. {} \in Lists
    BY DEF Lists
  <2> QED
    BY <1>1, <1>2, <2>1, SievedSound DEF Sieve, KeepDisabled, NoRegistry, IInv
<1>4. dis' \in [list : Lists, fresh : BOOLEAN]
  <2>1. CASE dis' = dis
    BY <2>1 DEF IInv, StoresSound
  <2>2. CASE dis' = [list |-> task[t].off, fresh |-> TRUE]
    BY <1>2, <2>2
  <2>3. CASE \E known \in {{}, dis.list} : dis' = [list |-> known, fresh |-> TRUE]
    BY <1>2, <2>3 DEF Lists
  <2> QED
    BY <2>1, <2>2, <2>3 DEF Sieve, KeepDisabled, NoRegistry
<1>5. UNCHANGED <<up, off, mem, disk, tmp>>
  BY DEF Sieve, KeepDisabled, NoRegistry, gateway
<1> QED
  BY <1>3, <1>4, <1>5 DEF IInv, StoresSound

LEMMA AskDisabledSteps ==
    ASSUME IInv, NEW t \in Threads, AskDisabled(t)
    PROVE  IInv'
<1>1. t \in Requests /\ t # Refresher
  BY Requested DEF AskDisabled, NotForRefresher, IInv
<1>2. off \in Lists
  BY ComboAssumption DEF IInv, StoresSound, Lists
<1>3. TasksSound'
  BY <1>1, <1>2, StepSound DEF AskDisabled, IInv, Steps, Places
<1>4. StoresSound'
  BY DEF AskDisabled, gateway, IInv, StoresSound
<1> QED
  BY <1>3, <1>4 DEF IInv

LEMMA FetchSteps ==
    ASSUME IInv, NEW t \in Threads, Fetch(t) \/ Fallback(t)
    PROVE  IInv'
<1>1. StoresSound'
  BY DEF Fetch, Fallback, gateway, IInv, StoresSound
<1>2. Models \in Lists /\ Static \in Lists /\ Readable \in Lists
  BY ComboAssumption, ReadableIsList DEF IInv, Lists
<1>3. ASSUME NEW l \in Lists, NEW from \in Sources, Obtained(t, Allowed(l), from)
      PROVE  TasksSound'
  BY <1>3, AllowedSound, ObtainedSound DEF IInv
<1>4. ASSUME Move(t, [step |-> "fallback"])
      PROVE  TasksSound'
  <2>1. Sound(t, Changed(task[t], [step |-> "fallback"]))
    BY ChangedSound DEF IInv, TasksSound, Fields, Steps, NotForRefresher
  <2> QED
    BY <1>4, <2>1, MoveSound DEF IInv
<1>5. TasksSound'
  <2>1. CASE Fetch(t)
    BY <1>2, <1>3, <1>4, <2>1 DEF Fetch, Sources
  <2>2. CASE Fallback(t)
    <3> DEFINE l == IF Readable # {} THEN Readable ELSE Static
    <3>1. l \in Lists /\ Obtained(t, Allowed(l), "fallback") /\ "fallback" \in Sources
      BY <1>2, <2>2 DEF Fallback, Sources
    <3> HIDE DEF l
    <3> QED
      BY <1>3, <3>1
  <2> QED
    BY <2>1, <2>2
<1> QED
  BY <1>1, <1>5 DEF IInv

(* What a file holds once it is written. *)
LEMMA WrittenIsFile ==
    ASSUME NEW l \in Lists
    PROVE  Whole(l) \in Files /\ Torn \in Files /\ None \in Files
BY DEF Files

LEMMA OpenSteps ==
    ASSUME IInv, NEW t \in Threads, Open(t)
    PROVE  IInv'
<1>1. TasksSound'
  BY StepSound DEF Open, IInv, Steps, Lists, Places, NotForRefresher
<1>2. StoresSound'
  BY DEF Open, gateway, IInv, StoresSound, Files
<1> QED
  BY <1>1, <1>2 DEF IInv

LEMMA FillSteps ==
    ASSUME IInv, NEW t \in Threads, Fill(t)
    PROVE  IInv'
<1>1. TasksSound'
  BY StepSound DEF Fill, IInv, Steps, Lists, Places, NotForRefresher
<1>2. Whole(task[t].list) \in Files
  BY TaskFields, WrittenIsFile DEF IInv, TasksSound
<1>3. tmp' \in Files /\ disk' \in Files
  BY <1>2 DEF Fill, IInv, StoresSound
<1>4. UNCHANGED <<up, off, mem, dis>>
  BY DEF Fill, gateway
<1> QED
  BY <1>1, <1>3, <1>4 DEF IInv, StoresSound

LEMMA IdleSound == \A t : Sound(t, Idle)
BY DEF Sound, Idle, Tasks, Steps, Lists, NotForRefresher

LEMMA RenameSteps ==
    ASSUME IInv, NEW t \in Threads, Rename(t)
    PROVE  IInv'
<1>1. \A u \in Threads : task[u] \in Tasks /\ Sound(u, task[u])
  BY DEF IInv, TasksSound
<1>2. Sound(t, After(t))
  <2>1. CASE t = Refresher
    BY <2>1, IdleSound DEF After
  <2>2. CASE t # Refresher
    <3>1. [task[t] EXCEPT !.step = "store", !.at = "gone"] \in Tasks
      BY <1>1 DEF Tasks, Steps
    <3>2. [task[t] EXCEPT !.step = "store", !.at = "gone"].list = task[t].list
      BY <1>1 DEF Tasks
    <3> QED
      BY <1>1, <2>2, <3>1, <3>2 DEF After, Sound
  <2> QED
    BY <2>1, <2>2
<1> DEFINE k(u) == IF u = t THEN After(t) ELSE [task[u] EXCEPT !.at = Moved(@)]
<1>3. ASSUME NEW u \in Threads
      PROVE  Sound(u, k(u))
  <2>1. CASE u # t
    <3>1. task[u].at \in Places /\ Moved(task[u].at) \in Places
      BY <1>1 DEF Tasks, Places, Moved
    <3>2. [task[u] EXCEPT !.at = Moved(@)] \in Tasks
      BY <1>1, <3>1 DEF Tasks, Places
    <3>3. /\ [task[u] EXCEPT !.at = Moved(@)].list = task[u].list
          /\ [task[u] EXCEPT !.at = Moved(@)].step = task[u].step
      BY <1>1 DEF Tasks
    <3> QED
      BY <1>1, <2>1, <3>2, <3>3 DEF Sound
  <2> QED
    BY <1>2, <2>1
<1> HIDE DEF k
<1>4. TasksSound'
  <2>1. CASE task' = [task EXCEPT ![t] = After(t)]
    BY <1>1, <1>2, <2>1 DEF IInv, TasksSound, Sound
  <2>2. CASE task' = [u \in Threads |-> k(u)]
    BY <1>3, <2>2 DEF TasksSound, Sound
  <2> QED
    BY <2>1, <2>2 DEF Rename, k
<1>5. disk' \in Files /\ tmp' \in Files
  BY DEF Rename, IInv, StoresSound, Files
<1>6. UNCHANGED <<up, off, mem, dis>>
  BY DEF Rename, gateway
<1> QED
  BY <1>4, <1>5, <1>6 DEF IInv, StoresSound

LEMMA StoreSteps ==
    ASSUME IInv, NEW t \in Threads, Store(t) \/ Answer(t)
    PROVE  IInv'
<1>1. t \in Requests /\ t # Refresher
  BY Requested DEF Store, Answer, NotForRefresher, IInv
<1>2. task[t].list \in Lists /\ task[t].list \cap Blocked = {}
  BY TaskFields DEF IInv, TasksSound, Sound
<1>3. StoresSound'
  BY <1>2 DEF Store, Answer, gateway, IInv, StoresSound
<1>4. TasksSound'
  <2>1. CASE Store(t)
    BY <1>1, <2>1, StepSound DEF Store, IInv, Steps, Lists, Places
  <2>2. CASE Answer(t)
    BY <2>2, IdleSound DEF Answer, IInv, TasksSound, Sound
  <2> QED
    BY <2>1, <2>2
<1> QED
  BY <1>3, <1>4 DEF IInv

LEMMA RefreshSteps ==
    ASSUME IInv, Refresh
    PROVE  IInv'
<1>1. TasksSound'
  BY Requested, StepSound DEF Refresh, IInv, Steps, Lists, Places, NotForRefresher
<1>2. StoresSound'
  BY DEF Refresh, gateway, IInv, StoresSound
<1> QED
  BY <1>1, <1>2 DEF IInv

-----------------------------------------------------------------------------
LEMMA InitInv == Init => IInv
<1> SUFFICES ASSUME Init
             PROVE  IInv
  OBVIOUS
<1>1. TasksSound
  BY IdleSound DEF Init, TasksSound, Sound
<1>2. disk \in Files /\ tmp \in Files
  BY DEF Init, Files, Lists
<1>3. StoresSound
  BY <1>2 DEF Init, StoresSound, Unknown, Lists
<1> QED
  BY <1>1, <1>3 DEF IInv

(* What happens around the threads: none of it makes a list. *)
LEMMA OtherSteps ==
    ASSUME IInv,
           \/ \E m \in Models : Disable(m)
           \/ Invalidate \/ Gateway \/ ForgetMem \/ ForgetDis \/ ForgetDisk \/ Restart
           \/ UNCHANGED vars
    PROVE  IInv'
<1>1. TasksSound'
  <2>1. CASE Restart
    BY <2>1, IdleSound DEF Restart, TasksSound, Sound
  <2>2. CASE task' = task
    BY <2>2 DEF IInv, TasksSound, Sound
  <2> QED
    BY <2>1, <2>2 DEF Disable, Invalidate, Gateway, ForgetMem, ForgetDis, ForgetDisk, vars
<1>2. mem' \in Lists /\ mem' \cap Blocked = {}
  BY DEF Disable, Invalidate, Gateway, ForgetMem, ForgetDis, ForgetDisk, Restart, vars, gateway,
         IInv, StoresSound, Lists
<1>3. up' \in BOOLEAN
  BY DEF Disable, Invalidate, Gateway, ForgetMem, ForgetDis, ForgetDisk, Restart, vars, gateway,
         IInv, StoresSound
<1>4. off' \in SUBSET Retired
  BY DEF Disable, Invalidate, Gateway, ForgetMem, ForgetDis, ForgetDisk, Restart, vars, gateway,
         IInv, StoresSound
<1>5. dis' \in [list : Lists, fresh : BOOLEAN]
  <2>1. CASE dis' = dis
    BY <2>1 DEF IInv, StoresSound
  <2>2. CASE dis' = Unknown
    BY <2>2 DEF Unknown, Lists
  <2>3. CASE dis' = [dis EXCEPT !.fresh = FALSE]
    BY <2>3, DisabledIsKnown DEF IInv
  <2> QED
    BY <2>1, <2>2, <2>3
    DEF Disable, Invalidate, Gateway, ForgetMem, ForgetDis, ForgetDisk, Restart, vars
<1>6. disk' \in Files /\ tmp' \in Files
  BY DEF Disable, Invalidate, Gateway, ForgetMem, ForgetDis, ForgetDisk, Restart, vars, gateway,
         IInv, StoresSound, Files
<1> QED
  BY <1>1, <1>2, <1>3, <1>4, <1>5, <1>6 DEF IInv, StoresSound

LEMMA StepInv == IInv /\ [Next]_vars => IInv'
<1> SUFFICES ASSUME IInv, [Next]_vars
             PROVE  IInv'
  OBVIOUS
<1>1. ASSUME NEW t \in Threads, GoOn(t)
      PROVE  IInv'
  BY <1>1, ReadDiskSteps, SieveSteps, AskDisabledSteps, FetchSteps, OpenSteps, FillSteps,
     RenameSteps, StoreSteps
  DEF GoOn
<1> QED
  BY <1>1, AskSteps, RefreshSteps, OtherSteps DEF Next

(* The lists in memory, on disk and in every thread's hands keep their     *)
(* types, and the refresher does none of what only requests do             *)
(* (smart_router.py 696-838).                                              *)
THEOREM TypeCorrect == Spec => []TypeOK
<1>1. IInv => TypeOK
  BY Requested DEF IInv, StoresSound, TasksSound, Sound, TypeOK, NotForRefresher
<1> QED
  BY <1>1, InitInv, StepInv, PTL DEF Spec

(* Nothing the filters drop is ever served, whatever an older version of   *)
(* the program left in the file (smart_router.py 766-790).                 *)
THEOREM BlockedStayOut == Spec => []NothingBlockedIsServed
<1>1. IInv => NothingBlockedIsServed
  BY Requested DEF IInv, TasksSound, Sound, NothingBlockedIsServed
<1> QED
  BY <1>1, InitInv, StepInv, PTL DEF Spec
=============================================================================
