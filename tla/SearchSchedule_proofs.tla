------------------------ MODULE SearchSchedule_proofs ------------------------
(***************************************************************************)
(* Theorems about SearchSchedule, for any schedulers, requests, intervals  *)
(* and timeouts: its types; that an enabled search is scheduled; and, when *)
(* runs end before their lease does, that schedulers alone never run a     *)
(* search twice at once.                                                   *)
(***************************************************************************)
EXTENDS SearchSchedule, TLAPS

-----------------------------------------------------------------------------
(* Facts about time.                                                       *)

(* A wait is a number, an age a natural one, and NULL is neither.          *)
LEMMA TimeFacts ==
  /\ \A a \in Agos, n \in Intervals \union {RunTimeout} :
       (-a)..n \subseteq Waits
  /\ Intervals \subseteq Waits /\ RunTimeout \in Waits /\ 0 \in Waits
  /\ Waits \subseteq Int /\ Agos \subseteq Nat
  /\ 0..RunBound \subseteq Agos
  /\ Intervals \subseteq Nat
<1>1. Intervals \subseteq Nat /\ RunTimeout \in Nat
  BY IntervalAssumption, RunAssumption
<1>2. Agos \subseteq Nat /\ 0..RunBound \subseteq Agos /\ 0 \in Agos
  BY <1>1, RunAssumption DEF Agos
<1>3. \A a \in Agos, n \in Intervals \union {RunTimeout} :
        (-a)..n \subseteq Waits
  BY DEF Waits
<1>4. \A n \in Intervals \union {RunTimeout} : (-0)..n \subseteq Waits
  BY <1>2, <1>3
<1>5. \A n \in Intervals \union {RunTimeout} : n \in (-0)..n /\ 0 \in (-0)..n
  BY <1>1
<1>6. Waits \subseteq Int
  BY <1>1, <1>2 DEF Waits
<1> QED BY <1>1, <1>2, <1>3, <1>4, <1>5, <1>6

(* NULL is no number.                                                      *)
LEMMA NullFacts == NULL \notin Waits /\ NULL \notin Agos
<1>1. Waits \subseteq Int /\ Agos \subseteq Int
  BY TimeFacts
<1>2. NULL \notin Int
  BY RunAssumption
<1> QED BY <1>1, <1>2, Zenon

(* The next run is a wait, and never further away than the interval.       *)
LEMMA NextRunType ==
  ASSUME NEW i \in Intervals, NEW ago \in Agos
  PROVE  /\ NextRun(i, ago) \in Waits
         /\ NextRun(i, ago) = i - ago
         /\ NextRun(i, ago) <= i
<1>1. i \in Nat /\ ago \in Nat
  BY TimeFacts
<1>2. NextRun(i, ago) \in (-ago)..i
  BY <1>1 DEF NextRun
<1>3. (-ago)..i \subseteq Waits
  BY TimeFacts
<1> QED BY <1>1, <1>2, <1>3 DEF NextRun

(* A wait gets shorter by one tick until it is over.                       *)
LEMMA SoonerType ==
  ASSUME NEW wait \in {NULL} \union Waits
  PROVE  /\ Sooner(wait) \in {NULL} \union Waits
         /\ Sooner(wait) = NULL <=> wait = NULL
         /\ wait # NULL =>
              /\ Sooner(wait) \in Int
              /\ Sooner(wait) <= wait /\ Sooner(wait) >= wait - 1
              /\ wait > 0 => Sooner(wait) >= 0
<1>1. CASE wait = NULL
  BY <1>1 DEF Sooner
<1>2. CASE wait # NULL
  <2>1. wait \in Waits /\ wait \in Int
    BY <1>2, TimeFacts
  <2>2. CASE wait <= 0
    BY <1>2, <2>1, <2>2 DEF Sooner
  <2>3. CASE wait > 0
    <3>1. PICK a \in Agos, n \in Intervals \union {RunTimeout} :
            wait \in (-a)..n
      BY <2>1 DEF Waits
    <3>2. a \in Nat /\ n \in Nat
      BY TimeFacts, RunAssumption
    <3>3. wait - 1 \in (-a)..n /\ (-a)..n \subseteq Waits
      BY <2>1, <2>3, <3>1, <3>2, TimeFacts
    <3>4. Sooner(wait) = wait - 1
      BY <1>2, <2>1, <2>3 DEF Sooner
    <3> QED BY <1>2, <2>1, <2>3, <3>3, <3>4, NullFacts
  <2> QED BY <2>1, <2>2, <2>3
<1> QED BY <1>1, <1>2

(* Time leaves a row a row, and changes neither whether it is there or     *)
(* enabled nor whether it is scheduled.                                    *)
LEMMA PassedType ==
  ASSUME NEW row \in Rows
  PROVE  /\ Passed(row) \in Rows
         /\ Passed(row).state = row.state
         /\ Passed(row).enabled = row.enabled
         /\ Passed(row).dueIn = Sooner(row.dueIn)
<1>1. Sooner(row.dueIn) \in {NULL} \union Waits
  BY SoonerType DEF Rows
<1>2. Later(row.lastRunAgo) \in {NULL} \union Agos
  BY DEF Later, Rows
<1>3. QED
  BY <1>1, <1>2 DEF Passed, Rows

(* What an update makes of next_run_at.                                    *)
LEMMA RescheduledType ==
  ASSUME NEW row \in Rows, NEW enabled \in BOOLEAN, NEW f \in Intervals
  PROVE  /\ Rescheduled(row, enabled, f) \in {NULL} \union Waits
         /\ enabled /\ (row.enabled => row.dueIn # NULL) =>
              Rescheduled(row, enabled, f) # NULL
<1>1. row.lastRunAgo # NULL => NextRun(f, row.lastRunAgo) \in Waits
  BY NextRunType DEF Rows
<1>2. row.dueIn \in {NULL} \union Waits /\ row.enabled \in BOOLEAN
  BY DEF Rows
<1>3. QED
  BY <1>1, <1>2, TimeFacts, NullFacts DEF Rescheduled

-----------------------------------------------------------------------------
(* The types.                                                              *)

LEMMA NothingTypes ==
  NoSearch \in Rows /\ Idle \in Runs /\ NoCall \in Calls
<1>1. NoSearch.frequency \in Intervals
  BY IntervalAssumption DEF NoSearch
<1>2. NoSearch \in Rows
  BY <1>1 DEF NoSearch, Rows
<1>3. Idle \in Runs
  BY <1>1, RunAssumption DEF Idle, Runs
<1>4. QED
  BY <1>2, <1>3 DEF NoCall, Calls

LEMMA InitType == Init => TypeOK
<1> SUFFICES ASSUME Init PROVE TypeOK
  OBVIOUS
<1>1. 0 \in 0..MaxWrites /\ 0 \in 0..MaxLost
  BY BoundAssumption
<1>2. run \in [Scheduler -> Runs] /\ call \in [Request -> Calls]
  BY NothingTypes DEF Init
<1>3. QED
  BY <1>1, <1>2, NothingTypes DEF Init, TypeOK

(* What a scheduler does keeps the types.                                  *)
LEMMA SchedulerType ==
  ASSUME TypeOK, NEW s \in Scheduler, Work(s) \/ LoseRun(s)
  PROVE  TypeOK'
<1> USE DEF TypeOK
<1>0. run[s] \in Runs /\ Idle \in Runs
  BY NothingTypes
<1>1. CASE SeeDue(s)
  <2>1. search.frequency \in Intervals
    BY DEF Rows
  <2>2. [run[s] EXCEPT !.phase = "seen", !.frequency = search.frequency]
          \in Runs
    BY <1>0, <2>1 DEF Runs
  <2>3. QED
    BY <1>1, <2>2 DEF SeeDue
<1>2. CASE ClaimRun(s)
  <2>1. Leased(search) \in Rows
    BY TimeFacts DEF Leased, Rows
  <2>2. 0 \in 0..RunBound
    BY RunAssumption
  <2>3. [run[s] EXCEPT !.phase = "running", !.age = 0, !.alone = TRUE] \in Runs
    BY <1>0, <2>2 DEF Runs
  <2>4. QED
    BY <1>0, <1>2, <2>1, <2>3 DEF ClaimRun
<1>3. CASE MarkRun(s)
  <2>1. run[s].frequency \in Intervals /\ run[s].age \in 0..RunBound
    BY <1>0 DEF Runs
  <2>2. NextRun(run[s].frequency, run[s].age) \in Waits
    BY <2>1, NextRunType, TimeFacts
  <2>3. Marked(search, run[s]) \in Rows
    BY <2>1, <2>2, TimeFacts DEF Marked, Rows
  <2>4. QED
    BY <1>0, <1>3, <2>3 DEF MarkRun
<1>4. CASE LoseRun(s)
  BY <1>0, <1>4, BoundAssumption DEF LoseRun
<1>5. QED
  BY <1>1, <1>2, <1>3, <1>4 DEF Work

LEMMA DisturbedType ==
  ASSUME TypeOK
  PROVE  Disturbed \in [Scheduler -> Runs]
BY DEF TypeOK, Disturbed, Runs

(* So does what a request does, and the clock.                             *)
LEMMA RequestType ==
  ASSUME TypeOK, NEW q \in Request, Get(q) \/ Save(q) \/ SetDueNow(q)
  PROVE  TypeOK'
<1> USE DEF TypeOK
<1>0. call[q] \in Calls /\ call[q].read \in Rows /\ NoCall \in Calls
  BY NothingTypes DEF Calls
<1>1. CASE Get(q)
  <2>1. PICK op \in {"update", "runNow"} :
          call' = [call EXCEPT ![q] = [op |-> op, read |-> search]]
    BY <1>1 DEF Get
  <2>2. [op |-> op, read |-> search] \in Calls
    BY DEF Calls
  <2>3. QED
    BY <1>1, <2>1, <2>2, BoundAssumption DEF Get
<1>2. CASE Save(q)
  <2>1. PICK enabled \in BOOLEAN, f \in Intervals :
          /\ search' = [call[q].read EXCEPT
               !.enabled = enabled, !.frequency = f,
               !.dueIn = Rescheduled(call[q].read, enabled, f)]
          /\ asked' = (enabled /\ (asked \/ ~call[q].read.enabled))
    BY <1>2 DEF Save
  <2>2. Rescheduled(call[q].read, enabled, f) \in {NULL} \union Waits
    BY <1>0, RescheduledType
  <2>3. search' \in Rows
    BY <1>0, <2>1, <2>2 DEF Rows
  <2>4. asked' \in BOOLEAN
    BY <1>0, <2>1 DEF Rows
  <2>5. QED
    BY <1>0, <1>2, <2>3, <2>4, DisturbedType DEF Save
<1>3. CASE SetDueNow(q)
  <2>1. [search EXCEPT !.dueIn = 0] \in Rows /\ search.enabled \in BOOLEAN
    BY TimeFacts DEF Rows
  <2>2. QED
    BY <1>0, <1>3, <2>1, DisturbedType DEF SetDueNow
<1>4. QED
  BY <1>1, <1>2, <1>3

LEMMA CreateDeleteType ==
  ASSUME TypeOK, Create \/ Delete
  PROVE  TypeOK'
<1> USE DEF TypeOK
<1>1. CASE Create
  BY <1>1, TimeFacts DEF Create, Rows
<1>2. CASE Delete
  <2>1. [search EXCEPT !.state = "deleted"] \in Rows
    BY DEF Rows
  <2>2. QED
    BY <1>2, <2>1, DisturbedType DEF Delete
<1>3. QED
  BY <1>1, <1>2

LEMMA TickType ==
  ASSUME TypeOK, Tick
  PROVE  TypeOK'
<1> USE DEF TypeOK
<1>1. search' \in Rows
  BY PassedType DEF Tick
<1>2. run' \in [Scheduler -> Runs]
  <2>1. ASSUME NEW s \in Scheduler, Running(s)
        PROVE  [run[s] EXCEPT !.age = @ + 1] \in Runs
    <3>1. run[s] \in Runs /\ run[s].age < RunBound
      BY <2>1 DEF Tick
    <3>2. run[s].age + 1 \in 0..RunBound
      BY <3>1, RunAssumption DEF Runs
    <3>3. QED
      BY <3>1, <3>2 DEF Runs
  <2>2. QED
    BY <2>1 DEF Tick
<1>3. call' \in [Request -> Calls]
  <2>1. ASSUME NEW q \in Request
        PROVE  [call[q] EXCEPT !.read = Passed(@)] \in Calls
    BY PassedType DEF Calls
  <2>2. QED
    BY <2>1 DEF Tick
<1>4. QED
  BY <1>1, <1>2, <1>3 DEF Tick

(* TypeOK is an invariant, whatever the intervals and timeouts.            *)
THEOREM TypeCorrect == Spec => []TypeOK
<1>1. TypeOK /\ [Next]_vars => TypeOK'
  <2> SUFFICES ASSUME TypeOK, [Next]_vars PROVE TypeOK'
    OBVIOUS
  <2>1. CASE \E s \in Scheduler : Work(s) \/ LoseRun(s)
    BY <2>1, SchedulerType
  <2>2. CASE Create \/ Delete
    BY <2>2, CreateDeleteType
  <2>3. CASE \E q \in Request : Get(q) \/ Save(q) \/ SetDueNow(q)
    BY <2>3, RequestType
  <2>4. CASE Tick
    BY <2>4, TickType
  <2>5. CASE UNCHANGED vars
    BY <2>5 DEF vars, TypeOK
  <2>6. QED
    BY <2>1, <2>2, <2>3, <2>4, <2>5 DEF Next
<1>2. QED
  BY <1>1, InitType, PTL DEF Spec

-----------------------------------------------------------------------------
(* An enabled search is scheduled.  Save writes back what the update read, *)
(* so the copy the update holds must be scheduled as well.                 *)

ReadsScheduled ==
  \A q \in Request :
    call[q].op # "none" /\ call[q].read.enabled => call[q].read.dueIn # NULL

SchedInv == EnabledIsScheduled /\ ReadsScheduled

LEMMA SchedInit == Init => SchedInv
BY DEF Init, SchedInv, EnabledIsScheduled, ReadsScheduled, Live, NoSearch,
  NoCall

(* The claim leaves a lease and MarkRun the next run.                      *)
LEMMA SchedScheduler ==
  ASSUME TypeOK, SchedInv, NEW s \in Scheduler, Work(s) \/ LoseRun(s)
  PROVE  SchedInv'
<1> USE DEF SchedInv
<1>1. ReadsScheduled'
  BY DEF ReadsScheduled, Work, SeeDue, ClaimRun, MarkRun, LoseRun
<1>2. CASE search' = search
  BY <1>1, <1>2 DEF EnabledIsScheduled, Live
<1>3. CASE search' = Leased(search)
  <2>1. search'.dueIn = RunTimeout
    BY <1>3 DEF Leased, TypeOK, Rows
  <2>2. QED
    BY <1>1, <2>1, RunAssumption DEF EnabledIsScheduled
<1>4. CASE MarkRun(s) /\ Live
  <2>1. run[s].frequency \in Intervals /\ run[s].age \in Agos
    BY TimeFacts DEF TypeOK, Runs
  <2>2. NextRun(run[s].frequency, run[s].age) # NULL
    BY <2>1, NextRunType, NullFacts
  <2>3. search'.enabled => search'.dueIn # NULL
    BY <1>4, <2>2 DEF MarkRun, Marked, TypeOK, Rows
  <2>4. QED
    BY <1>1, <2>3 DEF EnabledIsScheduled
<1>5. QED
  BY <1>2, <1>3, <1>4 DEF Work, SeeDue, ClaimRun, MarkRun, LoseRun

LEMMA SchedRequest ==
  ASSUME TypeOK, SchedInv, NEW q \in Request,
         Get(q) \/ Save(q) \/ SetDueNow(q)
  PROVE  SchedInv'
<1> USE DEF SchedInv
<1>1. CASE Get(q)
  <2>1. PICK op \in {"update", "runNow"} :
          call' = [call EXCEPT ![q] = [op |-> op, read |-> search]]
    BY <1>1 DEF Get
  <2>2. search' = search /\ Live
    BY <1>1 DEF Get
  <2>3. QED
    BY <2>1, <2>2 DEF TypeOK, EnabledIsScheduled, ReadsScheduled, Live
<1>2. CASE Save(q)
  <2>1. PICK enabled \in BOOLEAN, f \in Intervals :
          search' = [call[q].read EXCEPT
            !.enabled = enabled, !.frequency = f,
            !.dueIn = Rescheduled(call[q].read, enabled, f)]
    BY <1>2 DEF Save
  <2>2. call[q].read \in Rows /\ call[q].op = "update"
    BY <1>2 DEF TypeOK, Calls, Save
  <2>3. enabled => Rescheduled(call[q].read, enabled, f) # NULL
    BY <2>2, RescheduledType DEF ReadsScheduled
  <2>4. EnabledIsScheduled'
    BY <2>1, <2>2, <2>3 DEF EnabledIsScheduled, Rows
  <2>5. ReadsScheduled'
    BY <1>2 DEF Save, ReadsScheduled, TypeOK, NoCall
  <2>6. QED
    BY <2>4, <2>5
<1>3. CASE SetDueNow(q)
  <2>1. search' = search \/ search'.dueIn = 0
    BY <1>3 DEF SetDueNow, TypeOK, Rows
  <2>2. EnabledIsScheduled'
    BY <2>1, RunAssumption DEF EnabledIsScheduled, Live
  <2>3. ReadsScheduled'
    BY <1>3 DEF SetDueNow, ReadsScheduled, TypeOK, NoCall
  <2>4. QED
    BY <2>2, <2>3
<1>4. QED
  BY <1>1, <1>2, <1>3

LEMMA SchedTick ==
  ASSUME TypeOK, SchedInv, Tick
  PROVE  SchedInv'
<1> USE DEF SchedInv
<1>1. EnabledIsScheduled'
  <2>1. search \in Rows /\ search.dueIn \in {NULL} \union Waits
    BY DEF TypeOK, Rows
  <2>2. search'.state = search.state /\ search'.enabled = search.enabled
        /\ (search'.dueIn = NULL <=> search.dueIn = NULL)
    BY <2>1, PassedType, SoonerType DEF Tick
  <2>3. QED
    BY <2>2 DEF EnabledIsScheduled, Live
<1>2. ReadsScheduled'
  <2> SUFFICES ASSUME NEW q \in Request
               PROVE  call'[q].op # "none" /\ call'[q].read.enabled =>
                        call'[q].read.dueIn # NULL
    BY DEF ReadsScheduled
  <2>1. call[q].read \in Rows /\ call[q].read.dueIn \in {NULL} \union Waits
    BY DEF TypeOK, Calls, Rows
  <2>2. call'[q].op = call[q].op /\ call'[q].read = Passed(call[q].read)
    BY DEF Tick, TypeOK, Calls
  <2>3. Passed(call[q].read).enabled = call[q].read.enabled
        /\ (Passed(call[q].read).dueIn = NULL <=> call[q].read.dueIn = NULL)
    BY <2>1, PassedType, SoonerType
  <2>4. QED
    BY <2>2, <2>3 DEF ReadsScheduled
<1>3. QED
  BY <1>1, <1>2

(* An enabled search always has a next run, however schedulers and         *)
(* requests interleave (ScheduleInv, the types and EnabledIsScheduled).    *)
THEOREM Scheduled == Spec => []ScheduleInv
<1>1. TypeOK /\ SchedInv /\ [Next]_vars => SchedInv'
  <2> SUFFICES ASSUME TypeOK, SchedInv, [Next]_vars PROVE SchedInv'
    OBVIOUS
  <2>1. CASE \E s \in Scheduler : Work(s) \/ LoseRun(s)
    BY <2>1, SchedScheduler
  <2>2. CASE Create
    BY <2>2, RunAssumption
      DEF Create, SchedInv, EnabledIsScheduled, ReadsScheduled
  <2>3. CASE \E q \in Request : Get(q) \/ Save(q) \/ SetDueNow(q)
    BY <2>3, SchedRequest
  <2>4. CASE Delete
    BY <2>4
      DEF Delete, SchedInv, EnabledIsScheduled, ReadsScheduled, Live, TypeOK,
          Rows
  <2>5. CASE Tick
    BY <2>5, SchedTick
  <2>6. CASE UNCHANGED vars
    BY <2>6 DEF vars, SchedInv, EnabledIsScheduled, ReadsScheduled, Live
  <2>7. QED
    BY <2>1, <2>2, <2>3, <2>4, <2>5, <2>6 DEF Next
<1>2. TypeOK /\ SchedInv => ScheduleInv
  BY DEF SchedInv, ScheduleInv
<1>3. QED
  BY <1>1, <1>2, SchedInit, TypeCorrect, PTL DEF Spec

-----------------------------------------------------------------------------
(* Schedulers alone run a search once at a time.  What keeps another one   *)
(* from claiming it is that the row is due only after the lease, or, once  *)
(* a run the API disturbed is marked, after more than half an interval.    *)

Alone(s) == Running(s) /\ run[s].alone

LeaseHolds ==
  \A s \in Scheduler : Alone(s) =>
    /\ Live /\ search.enabled
    /\ search.dueIn \in Nat
    /\ search.dueIn + run[s].age >= RunTimeout

OneInv == OneRunUnlessAsked /\ LeaseHolds

(* A search in a run of its own is not due.                                *)
LEMMA AloneNotDue ==
  ASSUME RunsEndInTime, TypeOK, LeaseHolds, NEW s \in Scheduler, Alone(s)
  PROVE  ~Due(search)
<1>1. run[s].age \in 0..RunBound
  BY DEF TypeOK, Runs
<1>2. search.dueIn \in Nat /\ search.dueIn + run[s].age >= RunTimeout
  BY DEF LeaseHolds
<1>3. search.dueIn > 0
  BY <1>1, <1>2, RunAssumption DEF RunsEndInTime
<1>4. QED
  BY <1>2, <1>3 DEF Due

(* A run that ends in time leaves the search due after a lease at least.   *)
LEMMA MarkedLater ==
  ASSUME RunsEndInTime, NEW i \in Intervals, NEW age \in 0..RunBound
  PROVE  NextRun(i, age) \in Nat /\ NextRun(i, age) >= RunTimeout
<1>1. i \in Nat /\ 2 * RunTimeout <= i /\ RunBound < RunTimeout
  BY IntervalAssumption DEF RunsEndInTime
<1>2. QED
  BY <1>1, RunAssumption DEF NextRun

LEMMA OneScheduler ==
  ASSUME RunsEndInTime, TypeOK, OneInv,
         NEW t \in Scheduler, Work(t) \/ LoseRun(t)
  PROVE  OneInv'
<1> USE DEF OneInv
<1>1. CASE SeeDue(t)
  <2>1. \A s \in Scheduler : Alone(s)' => Alone(s) /\ run'[s] = run[s]
    BY <1>1 DEF SeeDue, Alone, Running, TypeOK, Runs
  <2>2. QED
    BY <1>1, <2>1
      DEF SeeDue, OneRunUnlessAsked, LeaseHolds, Alone, Running, Live
<1>2. CASE ClaimRun(t) /\ StillDue(search)
  <2>1. \A s \in Scheduler : ~Alone(s)
    BY <1>2, AloneNotDue DEF StillDue
  <2>2. \A s \in Scheduler : Alone(s)' => s = t
    BY <1>2, <2>1 DEF ClaimRun, Alone, Running, TypeOK
  <2>3. run'[t].age = 0 /\ search' = Leased(search)
    BY <1>2 DEF ClaimRun, StillDue, TypeOK, Runs
  <2>4. Live' /\ search'.enabled /\ search'.dueIn = RunTimeout
    BY <1>2, <2>3 DEF Leased, StillDue, Due, Live, TypeOK, Rows
  <2>5. LeaseHolds'
    BY <2>2, <2>3, <2>4, RunAssumption DEF LeaseHolds
  <2>6. QED
    BY <2>2, <2>5 DEF OneRunUnlessAsked, Alone
<1>3. CASE /\ search' = search
           /\ run' = [run EXCEPT ![t] = Idle]
  <2>1. \A s \in Scheduler : Alone(s)' => Alone(s) /\ run'[s] = run[s]
    BY <1>3 DEF Alone, Running, TypeOK, Idle
  <2>2. QED
    BY <1>3, <2>1 DEF OneRunUnlessAsked, LeaseHolds, Alone, Running, Live
<1>4. CASE MarkRun(t) /\ Live
  <2>1. \A s \in Scheduler : Alone(s)' => Alone(s) /\ run'[s] = run[s]
    BY <1>4 DEF MarkRun, Alone, Running, TypeOK, Idle
  <2>2. run[t].frequency \in Intervals /\ run[t].age \in 0..RunBound
    BY DEF TypeOK, Runs
  <2>3. Live' /\ search'.enabled = search.enabled
        /\ (search.enabled =>
              search'.dueIn = NextRun(run[t].frequency, run[t].age))
    BY <1>4 DEF MarkRun, Marked, Live, TypeOK, Rows
  <2>4. OneRunUnlessAsked'
    BY <2>1 DEF OneRunUnlessAsked, Alone, Running
  <2>5. LeaseHolds'
    <3> SUFFICES ASSUME NEW s \in Scheduler, Alone(s)'
                 PROVE  /\ Live' /\ search'.enabled
                        /\ search'.dueIn \in Nat
                        /\ search'.dueIn + run'[s].age >= RunTimeout
      BY DEF LeaseHolds
    <3>1. Alone(s) /\ run'[s].age \in Nat
      BY <2>1, RunAssumption DEF TypeOK, Runs
    <3>2. search.enabled
      BY <3>1 DEF LeaseHolds
    <3>3. search'.dueIn \in Nat /\ search'.dueIn >= RunTimeout
      BY <2>2, <2>3, <3>2, MarkedLater
    <3>4. QED
      BY <2>3, <3>1, <3>2, <3>3, RunAssumption
  <2>6. QED
    BY <2>4, <2>5
<1>5. QED
  BY <1>1, <1>2, <1>3, <1>4 DEF Work, ClaimRun, MarkRun, LoseRun

(* What a request writes leaves no run alone.                              *)
LEMMA NoneAlone ==
  ASSUME TypeOK, run' = Disturbed
  PROVE  OneInv'
<1>1. \A s \in Scheduler : ~run'[s].alone
  BY DEF TypeOK, Disturbed, Runs
<1>2. QED
  BY <1>1 DEF OneInv, OneRunUnlessAsked, LeaseHolds, Alone

LEMMA OneTick ==
  ASSUME TypeOK, OneInv, Tick
  PROVE  OneInv'
<1> USE DEF OneInv
<1>1. \A s \in Scheduler :
        Alone(s)' => Alone(s) /\ run'[s].age = run[s].age + 1
  BY DEF Tick, Alone, Running, TypeOK, Runs
<1>2. OneRunUnlessAsked'
  BY <1>1 DEF OneRunUnlessAsked, Alone
<1>3. LeaseHolds'
  <2> SUFFICES ASSUME NEW s \in Scheduler, Alone(s)'
               PROVE  /\ Live' /\ search'.enabled
                      /\ search'.dueIn \in Nat
                      /\ search'.dueIn + run'[s].age >= RunTimeout
    BY DEF LeaseHolds
  <2>1. /\ Live /\ search.enabled /\ search.dueIn \in Nat
        /\ search.dueIn + run[s].age >= RunTimeout
    BY <1>1 DEF LeaseHolds
  <2>2. search \in Rows /\ search.dueIn \in {NULL} \union Waits
    BY DEF TypeOK, Rows
  <2>3. search.dueIn # NULL
    BY <2>1, RunAssumption
  <2>4. Live' /\ search'.enabled /\ search'.dueIn = Sooner(search.dueIn)
    BY <2>1, <2>2, PassedType DEF Tick, Live
  <2>5. search'.dueIn \in Nat /\ search'.dueIn >= search.dueIn - 1
    <3>1. search.dueIn > 0 => Sooner(search.dueIn) >= 0
      BY <2>2, <2>3, SoonerType
    <3>2. search.dueIn = 0 => Sooner(search.dueIn) = 0
      BY <2>3 DEF Sooner
    <3>3. /\ Sooner(search.dueIn) \in Int
          /\ Sooner(search.dueIn) >= search.dueIn - 1
      BY <2>2, <2>3, SoonerType
    <3> QED BY <2>1, <2>4, <3>1, <3>2, <3>3
  <2>6. run[s].age \in Nat /\ run'[s].age = run[s].age + 1
    BY <1>1, RunAssumption DEF TypeOK, Runs
  <2>7. QED
    BY <2>1, <2>4, <2>5, <2>6, RunAssumption
<1>4. QED
  BY <1>2, <1>3

(* When every run ends before its lease, and leases are at most half an    *)
(* interval, two schedulers run a search at once only if the API wrote to  *)
(* it in between (OneRunUnlessAsked, an invariant).                        *)
THEOREM OneRun ==
  ASSUME RunsEndInTime
  PROVE  Spec => []OneRunUnlessAsked
<1>1. Init => OneInv
  BY DEF Init, OneInv, OneRunUnlessAsked, LeaseHolds, Alone, Running, Idle
<1>2. TypeOK /\ OneInv /\ [Next]_vars => OneInv'
  <2> SUFFICES ASSUME TypeOK, OneInv, [Next]_vars PROVE OneInv'
    OBVIOUS
  <2>1. CASE \E s \in Scheduler : Work(s) \/ LoseRun(s)
    BY <2>1, OneScheduler
  <2>2. CASE Create
    <3>1. \A s \in Scheduler : ~Alone(s)
      BY <2>2 DEF Create, OneInv, LeaseHolds, Live
    <3>2. QED
      BY <2>2, <3>1
        DEF Create, OneInv, OneRunUnlessAsked, LeaseHolds, Alone, Running
  <2>3. CASE \E q \in Request : Save(q) \/ SetDueNow(q)
    BY <2>3, NoneAlone DEF Save, SetDueNow
  <2>4. CASE Delete
    BY <2>4, NoneAlone DEF Delete
  <2>5. CASE Tick
    BY <2>5, OneTick
  <2>6. CASE (\E q \in Request : Get(q)) \/ UNCHANGED vars
    BY <2>6
      DEF Get, vars, OneInv, OneRunUnlessAsked, LeaseHolds, Alone, Running,
          Live
  <2>7. QED
    BY <2>1, <2>2, <2>3, <2>4, <2>5, <2>6 DEF Next
<1>3. OneInv => OneRunUnlessAsked
  BY DEF OneInv
<1>4. QED
  BY <1>1, <1>2, <1>3, TypeCorrect, PTL DEF Spec

-----------------------------------------------------------------------------
(* The next run is in reach of the frequency.  An update keeps the next    *)
(* run of a search that never ran, which is at most the lease.             *)

NeverRan(row) ==
  row.lastRunAgo = NULL /\ row.dueIn # NULL => row.dueIn <= RunTimeout

FirstInv == NeverRan(search) /\ \A q \in Request : NeverRan(call[q].read)

LEMMA DueNowReaches ==
  ASSUME NEW row, row.dueIn = NULL \/ row.dueIn = 0
  PROVE  InReach(row) /\ NeverRan(row)
<1>1. 0 <= RunTimeout
  BY RunAssumption
<1> QED BY <1>1 DEF InReach, NeverRan

LEMMA PassedReaches ==
  ASSUME NEW row \in Rows
  PROVE  /\ InReach(row) => InReach(Passed(row))
         /\ NeverRan(row) => NeverRan(Passed(row))
<1> DEFINE new == Passed(row)
<1>1. /\ new.enabled = row.enabled /\ new.dueIn = Sooner(row.dueIn)
      /\ new.frequency = row.frequency
      /\ new.lastRunAgo = NULL => row.lastRunAgo = NULL
  <2>1. row.lastRunAgo # NULL => Later(row.lastRunAgo) # NULL
    BY NullFacts DEF Later, Rows
  <2> QED BY <2>1 DEF Passed, Rows
<1>2. row.frequency \in Int /\ RunTimeout \in Int
  BY TimeFacts, RunAssumption DEF Rows
<1>3. CASE row.dueIn = NULL
  <2>1. new.dueIn = NULL
    BY <1>1, <1>3 DEF Sooner
  <2> QED BY <2>1 DEF InReach, NeverRan
<1>4. CASE row.dueIn # NULL
  <2>1. row.dueIn \in Int /\ new.dueIn \in Int /\ new.dueIn <= row.dueIn
    BY <1>1, <1>4, SoonerType, TimeFacts DEF Rows
  <2> HIDE DEF new
  <2>2. \A n \in Int : row.dueIn <= n => new.dueIn <= n
    BY <2>1
  <2>3. (InReach(row) => InReach(new)) /\ (NeverRan(row) => NeverRan(new))
    BY <1>1, <1>2, <1>4, <2>2 DEF InReach, NeverRan
  <2> QED BY <2>3 DEF new
<1> QED BY <1>3, <1>4

LEMMA FirstScheduler ==
  ASSUME TypeOK, FirstInv, NEW s \in Scheduler, Work(s) \/ LoseRun(s)
  PROVE  /\ FirstInv'
         /\ InReach(search) /\ ~InReach(search') =>
              /\ Running(s) /\ ~Running(s)'
              /\ run[s].frequency # search.frequency
<1>1. call' = call
  BY DEF Work, SeeDue, ClaimRun, MarkRun, LoseRun
<1>2. CASE search' = search
  BY <1>1, <1>2 DEF FirstInv
<1>3. CASE search' = Leased(search)
  <2>1. search'.dueIn = RunTimeout /\ RunTimeout <= RunTimeout
    BY <1>3, RunAssumption DEF Leased, TypeOK, Rows
  <2> QED BY <1>1, <2>1 DEF FirstInv, NeverRan, InReach
<1>4. CASE MarkRun(s) /\ Live
  <2>1. run[s].frequency \in Intervals /\ run[s].age \in Agos
    BY TimeFacts DEF TypeOK, Runs
  <2>2. /\ search'.lastRunAgo = run[s].age
        /\ search'.enabled = search.enabled
        /\ search'.frequency = search.frequency
        /\ search.enabled =>
             search'.dueIn = NextRun(run[s].frequency, run[s].age)
    BY <1>4 DEF MarkRun, Marked, TypeOK, Rows
  <2>3. NeverRan(search')
    BY <2>1, <2>2, NullFacts DEF NeverRan
  <2>4. run[s].frequency = search.frequency => InReach(search')
    BY <2>1, <2>2, NextRunType DEF InReach
  <2>5. Running(s) /\ ~Running(s)'
    BY <1>4 DEF MarkRun, Running, Idle, TypeOK
  <2> QED BY <1>1, <2>3, <2>4, <2>5 DEF FirstInv
<1> QED BY <1>2, <1>3, <1>4 DEF Work, SeeDue, ClaimRun, MarkRun, LoseRun

(* What an update writes is in reach if what it read was.                  *)
Saved(read, enabled, f) ==
  [read EXCEPT !.enabled = enabled, !.frequency = f,
               !.dueIn = Rescheduled(read, enabled, f)]

LEMMA SavedReaches ==
  ASSUME NEW read \in Rows, NEW enabled \in BOOLEAN, NEW f \in Intervals,
         NeverRan(read)
  PROVE  /\ NeverRan(Saved(read, enabled, f))
         /\ InReach(read) => InReach(Saved(read, enabled, f))
<1> DEFINE new == Saved(read, enabled, f)
<1> SUFFICES NeverRan(new) /\ (InReach(read) => InReach(new))
  OBVIOUS
<1>1. /\ new.enabled = enabled /\ new.frequency = f
      /\ new.dueIn = Rescheduled(read, enabled, f)
      /\ new.lastRunAgo = read.lastRunAgo
      /\ read.enabled \in BOOLEAN
      /\ read.lastRunAgo \in {NULL} \union Agos
  BY DEF Rows, Saved
<1> HIDE DEF new
<1>2. CASE ~enabled \/ ~read.enabled
  <2>1. new.dueIn = NULL \/ new.dueIn = 0
    BY <1>1, <1>2 DEF Rescheduled
  <2> QED BY <2>1, DueNowReaches
<1>3. CASE enabled /\ read.enabled /\ f # read.frequency
            /\ read.lastRunAgo # NULL
  <2>1. new.dueIn = NextRun(f, read.lastRunAgo)
    BY <1>1, <1>3 DEF Rescheduled
  <2>2. NextRun(f, read.lastRunAgo) <= f
    BY <1>1, <1>3, NextRunType
  <2> QED BY <1>1, <1>3, <2>1, <2>2 DEF NeverRan, InReach
<1>4. CASE enabled /\ read.enabled
            /\ (f = read.frequency \/ read.lastRunAgo = NULL)
  <2>1. new.dueIn = read.dueIn
    BY <1>1, <1>4 DEF Rescheduled
  <2> QED BY <1>1, <1>4, <2>1 DEF NeverRan, InReach
<1> QED BY <1>1, <1>2, <1>3, <1>4

LEMMA FirstRequest ==
  ASSUME TypeOK, FirstInv, NEW q \in Request,
         Get(q) \/ Save(q) \/ SetDueNow(q)
  PROVE  /\ FirstInv'
         /\ InReach(search) /\ ~InReach(search') =>
              /\ call[q].op = "update" /\ call'[q] = NoCall
              /\ ~InReach(call[q].read)
<1>0. NeverRan(NoCall.read)
  BY DueNowReaches DEF NoCall, NoSearch
<1>1. CASE Get(q)
  BY <1>1 DEF Get, FirstInv, TypeOK
<1>2. CASE Save(q)
  <2>1. PICK enabled \in BOOLEAN, f \in Intervals :
          search' = [call[q].read EXCEPT
            !.enabled = enabled, !.frequency = f,
            !.dueIn = Rescheduled(call[q].read, enabled, f)]
    BY <1>2 DEF Save
  <2>2. call[q].read \in Rows /\ NeverRan(call[q].read)
    BY DEF TypeOK, Calls, FirstInv
  <2>3. NeverRan(search') /\ (InReach(call[q].read) => InReach(search'))
    <3>1. search' = Saved(call[q].read, enabled, f)
      BY <2>1 DEF Saved
    <3> QED BY <2>2, <3>1, SavedReaches
  <2>4. \A p \in Request : call'[p] = call[p] \/ call'[p] = NoCall
    BY <1>2 DEF Save, TypeOK
  <2>5. call[q].op = "update" /\ call'[q] = NoCall
    BY <1>2 DEF Save, TypeOK
  <2> QED BY <1>0, <2>3, <2>4, <2>5 DEF FirstInv
<1>3. CASE SetDueNow(q)
  <2>1. search' = search \/ search'.dueIn = 0
    BY <1>3 DEF SetDueNow, TypeOK, Rows
  <2>2. \A p \in Request : call'[p] = call[p] \/ call'[p] = NoCall
    BY <1>3 DEF SetDueNow, TypeOK
  <2> QED BY <1>0, <2>1, <2>2, DueNowReaches DEF FirstInv
<1> QED BY <1>1, <1>2, <1>3

LEMMA FirstTick ==
  ASSUME TypeOK, FirstInv, Tick
  PROVE  FirstInv' /\ (InReach(search) => InReach(search'))
<1>1. \A q \in Request : call[q].read \in Rows
                          /\ call'[q].read = Passed(call[q].read)
  BY DEF Tick, TypeOK, Calls
<1>2. search \in Rows /\ search' = Passed(search)
  BY DEF Tick, TypeOK
<1> QED BY <1>1, <1>2, PassedReaches DEF FirstInv

(* A next run comes to lie further away than the frequency says only when  *)
(* a run that was listed with another frequency ends, or an update writes  *)
(* back a row that was read after that (NextRunInReach, an action          *)
(* property).                                                              *)
THEOREM Reachable == Spec => NextRunInReach
<1> DEFINE Step ==
       InReach(search) /\ ~InReach(search') =>
         \/ \E s \in Scheduler :
              /\ Running(s) /\ ~Running(s)'
              /\ run[s].frequency # search.frequency
         \/ \E q \in Request :
              /\ call[q].op = "update" /\ call'[q] = NoCall
              /\ ~InReach(call[q].read)
<1>1. Init => FirstInv
  BY DueNowReaches DEF Init, FirstInv, NoCall, NoSearch
<1>2. TypeOK /\ FirstInv /\ [Next]_vars => FirstInv' /\ Step
  <2> SUFFICES ASSUME TypeOK, FirstInv, [Next]_vars
               PROVE  FirstInv' /\ Step
    OBVIOUS
  <2>1. CASE \E s \in Scheduler : Work(s) \/ LoseRun(s)
    BY <2>1, FirstScheduler
  <2>2. CASE Create
    <3>1. search'.dueIn = NULL \/ search'.dueIn = 0
      BY <2>2 DEF Create
    <3>2. call' = call
      BY <2>2 DEF Create
    <3> QED BY <3>1, <3>2, DueNowReaches DEF FirstInv
  <2>3. CASE \E q \in Request : Get(q) \/ Save(q) \/ SetDueNow(q)
    BY <2>3, FirstRequest
  <2>4. CASE Delete
    BY <2>4 DEF Delete, FirstInv, NeverRan, InReach, TypeOK, Rows
  <2>5. CASE Tick
    BY <2>5, FirstTick
  <2>6. CASE UNCHANGED vars
    BY <2>6 DEF vars, FirstInv
  <2> QED BY <2>1, <2>2, <2>3, <2>4, <2>5, <2>6 DEF Next
<1>3. TypeOK /\ FirstInv /\ [Next]_vars => [Step]_vars
  BY <1>2
<1> QED BY <1>1, <1>2, <1>3, TypeCorrect, PTL DEF Spec, NextRunInReach
=============================================================================
