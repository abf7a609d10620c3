--------------------------- MODULE SearchSchedule ---------------------------
(***************************************************************************)
(* The schedule of one saved search: the job_searches row, the schedulers  *)
(* of the worker processes that claim its runs, and the API requests that  *)
(* change it.  Both sides read the row first and write it later with no    *)
(* lock in between.  A scheduler writes only next_run_at and last_run_at;  *)
(* an update writes the whole row back as it read it, with its change.     *)
(*                                                                         *)
(* Searches share nothing but the schedulers' time, so one row is enough.  *)
(* Time is relative, as in RetryPolicy; a frequency is its interval.       *)
(***************************************************************************)
EXTENDS Integers

CONSTANTS
  Scheduler,    \* scheduler loops, one for each worker process
  Request,      \* API requests that can be under way at once
  Intervals,    \* the frequencies, as intervals in ticks
  NULL,         \* SQL NULL
  RunTimeout,   \* Config.RunTimeout, in ticks
  RunBound,     \* longest time from the claim of a run to its MarkRun
  MaxWrites,    \* bound: changes asked for through the API
  MaxLost       \* bound: runs that end without a MarkRun

ASSUME IntervalAssumption == Intervals \subseteq Nat \ {0} /\ Intervals # {}
ASSUME RunAssumption ==
  /\ NULL \notin Int
  /\ RunTimeout \in Nat \ {0} /\ RunBound \in Nat
ASSUME BoundAssumption == MaxWrites \in Nat /\ MaxLost \in Nat

(* Config.RunTimeout is meant to be longer than any run; by default it is  *)
(* half of the shortest interval.                                          *)
RunsEndInTime ==
  /\ RunBound < RunTimeout
  /\ \A i \in Intervals : 2 * RunTimeout <= i

VARIABLES
  search,  \* the job_searches row
  run,     \* the run each scheduler is at
  call,    \* the API request each handler is in
  writes,  \* changes asked for so far
  lost,    \* runs lost so far
  asked    \* history: the user wants a run that no scheduler claimed yet

vars == <<search, run, call, writes, lost, asked>>

(* A wait that is over may lie in the past by as much as any time since a  *)
(* run that is told apart.                                                 *)
Agos == UNION {0..n : n \in Intervals \union {RunBound}}
Waits ==
  UNION {UNION {(-a)..n : a \in Agos} : n \in Intervals \union {RunTimeout}}

Rows ==
  [state: {"absent", "live", "deleted"}, enabled: BOOLEAN,
   frequency: Intervals, lastRunAgo: {NULL} \union Agos,
   dueIn: {NULL} \union Waits]

(* alone: no API write since the claim *)
Runs ==
  [phase: {"idle", "seen", "running"}, frequency: Intervals, age: 0..RunBound,
   alone: BOOLEAN]

Calls == [op: {"none", "update", "runNow"}, read: Rows]

Live == search.state = "live"
Running(s) == run[s].phase = "running"

NoSearch ==
  [state |-> "absent", enabled |-> FALSE,
   frequency |-> CHOOSE f \in Intervals : TRUE,
   lastRunAgo |-> NULL, dueIn |-> NULL]
Idle ==
  [phase |-> "idle", frequency |-> NoSearch.frequency, age |-> 0,
   alone |-> FALSE]
NoCall == [op |-> "none", read |-> NoSearch]

-----------------------------------------------------------------------------
(* Variants of the definitions below, as a slip in the code would make     *)
(* them; PROJECT.json names the property each one breaks.                  *)

StillDueUnchecked(row) == row.state = "live" /\ row.enabled
LeaseDropped(row) == [row EXCEPT !.dueIn = NULL]
EnabledUnscheduled(row, enabled, frequency) ==
  IF enabled THEN row.dueIn ELSE NULL
FrequencyIgnored(row, enabled, frequency) ==
  CASE ~enabled -> NULL
    [] enabled /\ ~row.enabled -> 0
    [] OTHER -> row.dueIn

-----------------------------------------------------------------------------
(* The scheduler.                                                          *)

(* An interval after a run that began so long ago: perhaps in the past.    *)
NextRun(interval, ago) == interval - ago

Due(row) ==
  row.state = "live" /\ row.enabled /\ row.dueIn # NULL /\ row.dueIn <= 0

(* Tick lists the due searches first and runs them as its concurrency      *)
(* allows, so the copy it runs from may be old by then.                    *)
SeeDue(s) ==
  /\ run[s].phase = "idle"
  /\ Due(search)
  /\ run' = [run EXCEPT ![s] =
       [@ EXCEPT !.phase = "seen", !.frequency = search.frequency]]
  /\ UNCHANGED <<search, call, writes, lost, asked>>

(* What the claim asks of the row, whatever was seen.                      *)
StillDue(row) == Due(row)

Leased(row) == [row EXCEPT !.dueIn = RunTimeout]

(* One conditional UPDATE: the run is this scheduler's if the search is    *)
(* still due, and else another's.                                          *)
ClaimRun(s) ==
  /\ run[s].phase = "seen"
  /\ \/ /\ StillDue(search)
        /\ search' = Leased(search)
        /\ run' = [run EXCEPT ![s] =
             [@ EXCEPT !.phase = "running", !.age = 0, !.alone = TRUE]]
        /\ asked' = FALSE
     \/ /\ ~StillDue(search)
        /\ run' = [run EXCEPT ![s] = Idle]
        /\ UNCHANGED <<search, asked>>
  /\ UNCHANGED <<call, writes, lost>>

Marked(row, r) ==
  [row EXCEPT !.lastRunAgo = r.age,
              !.dueIn = IF row.enabled THEN NextRun(r.frequency, r.age)
                        ELSE NULL]

(* The portals answered or failed; the run is recorded unless the search   *)
(* was deleted.                                                            *)
MarkRun(s) ==
  /\ Running(s)
  /\ search' = IF Live THEN Marked(search, run[s]) ELSE search
  /\ run' = [run EXCEPT ![s] = Idle]
  /\ UNCHANGED <<call, writes, lost, asked>>

(* A shutdown or a crash in the middle of a run, or a MarkRun that fails:  *)
(* the lease is left to expire.                                            *)
LoseRun(s) ==
  /\ Running(s)
  /\ lost < MaxLost
  /\ lost' = lost + 1
  /\ run' = [run EXCEPT ![s] = Idle]
  /\ UNCHANGED <<search, call, writes, asked>>

-----------------------------------------------------------------------------
(* The API.                                                                *)

Disturbed == [s \in Scheduler |-> [run[s] EXCEPT !.alone = FALSE]]

Create ==
  /\ search.state = "absent"
  /\ \E enabled \in BOOLEAN, f \in Intervals :
       /\ search' = [state |-> "live", enabled |-> enabled, frequency |-> f,
                     lastRunAgo |-> NULL,
                     dueIn |-> IF enabled THEN 0 ELSE NULL]
       /\ asked' = enabled
  /\ UNCHANGED <<run, call, writes, lost>>

(* Update and RunNow begin by reading the row.                             *)
Get(q) ==
  /\ call[q].op = "none"
  /\ Live
  /\ writes < MaxWrites
  /\ \E op \in {"update", "runNow"} :
       /\ op = "runNow" => search.enabled
       /\ call' = [call EXCEPT ![q] = [op |-> op, read |-> search]]
  /\ writes' = writes + 1
  /\ UNCHANGED <<search, run, lost, asked>>

Rescheduled(row, enabled, frequency) ==
  CASE ~enabled -> NULL
    [] enabled /\ ~row.enabled -> 0
    [] enabled /\ row.enabled /\ frequency # row.frequency
         /\ row.lastRunAgo # NULL -> NextRun(frequency, row.lastRunAgo)
    [] OTHER -> row.dueIn

(* Save writes every column of the row that was read.  When its UPDATE     *)
(* matches nothing, because the search was deleted meanwhile, GORM inserts *)
(* the row, and over a soft-deleted one replaces every column.             *)
Save(q) ==
  /\ call[q].op = "update"
  /\ \E enabled \in BOOLEAN, f \in Intervals :
       LET read == call[q].read
       IN  /\ search' = [read EXCEPT
                !.enabled = enabled, !.frequency = f,
                !.dueIn = Rescheduled(read, enabled, f)]
           /\ asked' = (enabled /\ (asked \/ ~read.enabled))
  /\ run' = Disturbed
  /\ call' = [call EXCEPT ![q] = NoCall]
  /\ UNCHANGED <<writes, lost>>

(* RunNow writes next_run_at alone, and only to a search that is there.    *)
SetDueNow(q) ==
  /\ call[q].op = "runNow"
  /\ \/ /\ Live
        /\ search' = [search EXCEPT !.dueIn = 0]
        /\ asked' = search.enabled
     \/ /\ ~Live
        /\ UNCHANGED <<search, asked>>
  /\ run' = Disturbed
  /\ call' = [call EXCEPT ![q] = NoCall]
  /\ UNCHANGED <<writes, lost>>

(* Deletion of the search, or of the account it belongs to.                *)
Delete ==
  /\ Live
  /\ search' = [search EXCEPT !.state = "deleted"]
  /\ asked' = FALSE
  /\ run' = Disturbed
  /\ UNCHANGED <<call, writes, lost>>

-----------------------------------------------------------------------------
(* How long a search has been due makes no difference, so that stops.      *)
Sooner(wait) == IF wait = NULL \/ wait <= 0 THEN wait ELSE wait - 1
Later(ago) == IF ago # NULL /\ ago + 1 \in Agos THEN ago + 1 ELSE ago
Passed(row) ==
  [row EXCEPT !.dueIn = Sooner(@), !.lastRunAgo = Later(@)]

(* One tick of the clock, for the row and for every copy of it.            *)
Tick ==
  /\ \A s \in Scheduler : Running(s) => run[s].age < RunBound
  /\ search' = Passed(search)
  /\ run' = [s \in Scheduler |->
       IF Running(s) THEN [run[s] EXCEPT !.age = @ + 1] ELSE run[s]]
  /\ call' = [q \in Request |-> [call[q] EXCEPT !.read = Passed(@)]]
  /\ UNCHANGED <<writes, lost, asked>>

Init ==
  /\ search = NoSearch
  /\ run = [s \in Scheduler |-> Idle]
  /\ call = [q \in Request |-> NoCall]
  /\ writes = 0
  /\ lost = 0
  /\ asked = FALSE

Work(s) == SeeDue(s) \/ ClaimRun(s) \/ MarkRun(s)

Next ==
  \/ \E s \in Scheduler : Work(s) \/ LoseRun(s)
  \/ Create
  \/ \E q \in Request : Get(q) \/ Save(q) \/ SetDueNow(q)
  \/ Delete
  \/ Tick

Spec == Init /\ [][Next]_vars

(* Every scheduler ticks again after SchedulerInterval and its runs end,   *)
(* and the clock advances.  Requests, crashes and shutdowns owe nothing.   *)
Fairness == WF_vars(Tick) /\ \A s \in Scheduler : WF_vars(Work(s))

FairSpec == Spec /\ Fairness

-----------------------------------------------------------------------------
(* Properties.                                                             *)

TypeOK ==
  /\ search \in Rows
  /\ run \in [Scheduler -> Runs]
  /\ call \in [Request -> Calls]
  /\ writes \in 0..MaxWrites
  /\ lost \in 0..MaxLost
  /\ asked \in BOOLEAN

(* However reads and writes of schedulers and requests interleave, a       *)
(* search that is enabled has a next run: nothing else would ever pick it  *)
(* up again.                                                               *)
EnabledIsScheduled == Live /\ search.enabled => search.dueIn # NULL

ScheduleInv == TypeOK /\ EnabledIsScheduled

(* Two schedulers run the search at once only if the API wrote to it after *)
(* one of them claimed its run: between themselves each run happens once.  *)
OneRunUnlessAsked ==
  \A s, t \in Scheduler :
    Running(s) /\ Running(t) /\ run[s].alone /\ run[t].alone => s = t

(* An enabled search is run again and again, through lost runs and races   *)
(* with requests, as long as those are finitely many.                      *)
EnabledSearchRuns ==
  Live /\ search.enabled ~>
    (\E s \in Scheduler : Running(s)) \/ ~Live \/ ~search.enabled

(* The next run is no further away than the frequency says, or the lease.  *)
InReach(row) ==
  row.enabled /\ row.dueIn # NULL =>
    row.dueIn <= row.frequency \/ row.dueIn <= RunTimeout

(* A next run comes to lie further away than the frequency says in one way *)
(* only: an update changes the frequency while a run goes on, and that run *)
(* ends with the interval it was listed with (pipeline.go:347,             *)
(* jobsearches.go:169-176).  Another update may later write back a row it  *)
(* read meanwhile.                                                         *)
NextRunInReach ==
  [][InReach(search) /\ ~InReach(search') =>
       \/ \E s \in Scheduler :
            /\ Running(s) /\ ~Running(s)'
            /\ run[s].frequency # search.frequency
       \/ \E q \in Request :
            /\ call[q].op = "update" /\ call'[q] = NoCall
            /\ ~InReach(call[q].read)]_vars

(* A search made due by the user (RunNow) is due until a scheduler takes   *)
(* the run.                                                                *)
AskedRunKept == asked /\ Live /\ search.enabled => Due(search)

(* "Deletes one of the current user's job searches.  It stops running      *)
(* immediately": a deleted search does not come back.                      *)
DeletedIsFinal ==
  [][search.state = "deleted" => search'.state = "deleted"]_vars
=============================================================================
