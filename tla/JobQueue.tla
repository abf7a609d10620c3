------------------------------ MODULE JobQueue ------------------------------
(***************************************************************************)
(* The embedding half of the pipeline (internal/pipeline): the jobs table, *)
(* which is also the work queue, and the embed workers that take rows from *)
(* it.  A worker claims one row in a single statement, works on the copy   *)
(* that statement returned with no lock held (fetch the description if it  *)
(* is missing, then embed it), and writes the outcome afterwards with an   *)
(* UPDATE that names the row and checks nothing else.                      *)
(***************************************************************************)
EXTENDS RetryPolicy

CONSTANTS
  Job,           \* postings, one row each: (provider, job_id) is unique
  Worker,        \* embed loops, over every worker process
  Text           \* descriptions a portal can give; NULL is the empty one

ASSUME TextAssumption == NULL \notin Text

VARIABLES
  jobs,       \* the jobs table
  step,       \* the EmbedOne call each worker is in
  lost,       \* claims lost so far: the process died or the write failed
  cancelled   \* steps cancelled by a shutdown so far

vars == <<jobs, step, lost, cancelled>>

Status == {"absent", "new", "described", "processing", "embedded", "failed"}
Phase == {"idle", "fetching", "embedding", "recording"}
Outcome == {"none", "embedded", "error", "permanent", "cancelled"}

Rows ==
  [status: Status, claimedAgo: Ages,
   attempts: Nat, dueIn: {NULL} \union 0..MaxBackoff,
   detail: {NULL} \union Text, embedding: {NULL} \union Text,
   lastError: {"", "transient", "permanent"}]

Steps ==
  [phase: Phase, job: {NULL} \union Job, attempts: Nat,
   detail: {NULL} \union Text, fetched: BOOLEAN, age: 0..StepBound,
   outcome: Outcome]

NoRow ==
  [status |-> "absent", claimedAgo |-> NULL, attempts |-> 0, dueIn |-> NULL,
   detail |-> NULL, embedding |-> NULL, lastError |-> ""]

Idle ==
  [phase |-> "idle", job |-> NULL, attempts |-> 0, detail |-> NULL,
   fetched |-> FALSE, age |-> 0, outcome |-> "none"]

Busy(w) == step[w].phase # "idle"

-----------------------------------------------------------------------------
(* Variants of the definitions below, as a slip in the code would make     *)
(* them; PROJECT.json names the property each one breaks.                  *)

ReadyUnlessFailed(row) == row.status \notin {"absent", "processing", "failed"}
NeedsDetailsAlways(detail) == TRUE
ClaimedKeepingClock(row) ==
  [row EXCEPT !.status = "processing", !.attempts = @ + 1,
              !.claimedAgo = IF @ = NULL THEN 0 ELSE @]
KeptWithoutDetail(row, s) == [row EXCEPT !.claimedAgo = NULL]

-----------------------------------------------------------------------------
(* The claim.                                                              *)

Ready(row) == row.status \in {"new", "described"}

Claimable(row) ==
  \/ Ready(row) /\ Due(row)
  \/ row.status = "processing" /\ Stale(row)

(* ORDER BY next_attempt_at NULLS FIRST: a row that never failed goes      *)
(* before one that waits for a retry.  How overdue a retry is is not kept, *)
(* so the order among retries is left open.                                *)
FirstToClaim(j) ==
  /\ Claimable(jobs[j])
  /\ jobs[j].dueIn # NULL =>
       \A k \in Job : Claimable(jobs[k]) => jobs[k].dueIn # NULL

NeedsDetails(detail) == detail = NULL

(* The row after a claim, and the step the claim starts: the worker keeps  *)
(* a copy of the claimed row.                                              *)
Claimed(row) ==
  [row EXCEPT !.status = "processing", !.claimedAgo = 0, !.attempts = @ + 1]

Started(j, row) ==
  [phase |-> IF NeedsDetails(row.detail) THEN "fetching" ELSE "embedding",
   job |-> j, attempts |-> row.attempts, detail |-> row.detail,
   fetched |-> FALSE, age |-> 0, outcome |-> "none"]

(* One UPDATE ... RETURNING.  FOR UPDATE SKIP LOCKED makes simultaneous    *)
(* claims take different rows, as if one came after the other.             *)
Claim(w) ==
  /\ ~Busy(w)
  /\ \E j \in Job :
       /\ FirstToClaim(j)
       /\ jobs' = [jobs EXCEPT ![j] = Claimed(@)]
       /\ step' = [step EXCEPT ![w] = Started(j, Claimed(jobs[j]))]
  /\ UNCHANGED <<lost, cancelled>>

-----------------------------------------------------------------------------
(* The slow work, on the worker's own copy.                                *)

Described(s, text) ==
  [s EXCEPT !.phase = "embedding", !.detail = text, !.fetched = TRUE]

Finished(s, outcome) ==
  [s EXCEPT !.phase = "recording", !.outcome = outcome]

FinishWork(w, outcome) ==
  step' = [step EXCEPT ![w] = Finished(@, outcome)]

(* Fetcher.Details: a description, an error, or an answer without text,    *)
(* which no retry can mend.                                                *)
FetchDetails(w) ==
  /\ step[w].phase = "fetching"
  /\ \/ \E t \in Text : step' = [step EXCEPT ![w] = Described(@, t)]
     \/ \E outcome \in {"error", "permanent"} : FinishWork(w, outcome)
  /\ UNCHANGED <<jobs, lost, cancelled>>

CreateEmbedding(w) ==
  /\ step[w].phase = "embedding"
  /\ \E outcome \in {"embedded", "error"} : FinishWork(w, outcome)
  /\ UNCHANGED <<jobs, lost, cancelled>>

(* The shutdown grace ran out while the step was running, or after it      *)
(* failed and before its outcome was chosen.  A finished embedding is kept.*)
Cancel(w) ==
  /\ Busy(w) /\ step[w].outcome \notin {"embedded", "cancelled"}
  /\ cancelled < MaxCancelled
  /\ cancelled' = cancelled + 1
  /\ FinishWork(w, "cancelled")
  /\ UNCHANGED <<jobs, lost>>

-----------------------------------------------------------------------------
(* The outcome.                                                            *)

ReadyStatus(s) == IF s.detail # NULL THEN "described" ELSE "new"

ApplyFailure(row, s) ==
  LET gone == s.outcome = "permanent" \/ Exhausted(s.attempts)
      error == IF s.outcome = "permanent" THEN "permanent" ELSE "transient"
  IN  IF gone
      THEN [row EXCEPT !.status = "failed", !.dueIn = NULL,
                       !.lastError = error]
      ELSE [row EXCEPT !.status = ReadyStatus(s),
                       !.dueIn = Backoff(s.attempts), !.lastError = error]

(* The row after the worker in state s wrote its outcome over it.  A       *)
(* fetched description is stored even if embedding it failed.              *)
Kept(row, s) ==
  [row EXCEPT !.claimedAgo = NULL,
              !.detail = IF s.fetched THEN s.detail ELSE @]

Recorded(row, s) ==
  CASE s.outcome = "embedded" ->
         [Kept(row, s) EXCEPT !.status = "embedded", !.embedding = s.detail,
                              !.dueIn = NULL, !.lastError = ""]
    [] s.outcome = "cancelled" ->
         [Kept(row, s) EXCEPT !.status = ReadyStatus(s),
                              !.attempts = s.attempts - 1]
    [] OTHER -> ApplyFailure(Kept(row, s), s)

(* UPDATE jobs SET ... WHERE id = ?: nothing asks whether the row is still *)
(* this worker's.                                                          *)
Record(w) ==
  /\ step[w].phase = "recording"
  /\ jobs' = [jobs EXCEPT ![step[w].job] = Recorded(@, step[w])]
  /\ step' = [step EXCEPT ![w] = Idle]
  /\ UNCHANGED <<lost, cancelled>>

(* The process dies and is started again, or the write of the outcome      *)
(* fails: the row stays processing, and nobody remembers the claim.        *)
Lose(w) ==
  /\ Busy(w)
  /\ lost < MaxLost
  /\ lost' = lost + 1
  /\ step' = [step EXCEPT ![w] = Idle]
  /\ UNCHANGED <<jobs, cancelled>>

-----------------------------------------------------------------------------
(* A search run found a posting that is not stored yet (jobs.Upsert); a    *)
(* posting that is stored keeps its row as it is.                          *)
Discover(j) ==
  /\ jobs[j].status = "absent"
  /\ jobs' = [jobs EXCEPT ![j].status = "new"]
  /\ UNCHANGED <<step, lost, cancelled>>

Aged(s) == IF s.phase = "idle" THEN s ELSE [s EXCEPT !.age = @ + 1]

(* One tick of the clock.  A step may not outlast StepBound.               *)
Tick ==
  /\ \A w \in Worker : Busy(w) => step[w].age < StepBound
  /\ jobs' = [j \in Job |->
       [jobs[j] EXCEPT !.claimedAgo = Older(@), !.dueIn = Sooner(@)]]
  /\ step' = [w \in Worker |-> Aged(step[w])]
  /\ UNCHANGED <<lost, cancelled>>

-----------------------------------------------------------------------------
Init ==
  /\ jobs = [j \in Job |-> NoRow]
  /\ step = [w \in Worker |-> Idle]
  /\ lost = 0
  /\ cancelled = 0

Work(w) == Claim(w) \/ FetchDetails(w) \/ CreateEmbedding(w) \/ Record(w)

Next ==
  \/ \E j \in Job : Discover(j)
  \/ \E w \in Worker : Work(w) \/ Cancel(w) \/ Lose(w)
  \/ Tick

Spec == Init /\ [][Next]_vars

(* Every loop polls again after PollInterval, every call it makes has a    *)
(* timeout, and the clock advances.  Discoveries, crashes and shutdowns    *)
(* are never owed.                                                         *)
Fairness == WF_vars(Tick) /\ \A w \in Worker : WF_vars(Work(w))

FairSpec == Spec /\ Fairness

-----------------------------------------------------------------------------
(* Properties.                                                             *)

TypeOK ==
  /\ jobs \in [Job -> Rows]
  /\ step \in [Worker -> Steps]
  /\ lost \in 0..MaxLost
  /\ cancelled \in 0..MaxCancelled

(* No two workers are ever in a step for the same job: the claim and the   *)
(* stale timeout together act as a lock, though no lock is held.  It is    *)
(* what the rest rests on, because the outcome is written unfenced.        *)
ClaimExclusion ==
  \A v, w \in Worker :
    Busy(v) /\ Busy(w) /\ step[v].job = step[w].job => v = w

(* While a worker is in a step its row stays as it claimed it, so an       *)
(* outcome computed from the copy fits the row it overwrites: the attempt  *)
(* count it subtracts from or compares is the row's, and a description it  *)
(* fetched fills a blank.                                                  *)
ClaimUndisturbed ==
  \A w \in Worker : Busy(w) =>
    LET s == step[w]
        row == jobs[s.job]
    IN  /\ row.status = "processing"
        /\ row.claimedAgo = s.age
        /\ row.attempts = s.attempts
        /\ row.detail = IF s.fetched THEN NULL ELSE s.detail

(* A stored vector is the vector of the description stored beside it, and  *)
(* a job is embedded only with a vector: matching reads both.              *)
EmbeddingMatchesDetail ==
  \A j \in Job :
    /\ jobs[j].embedding # NULL => jobs[j].embedding = jobs[j].detail
    /\ jobs[j].status = "embedded" => jobs[j].embedding # NULL

(* An embedded job stays embedded: a search result waits for that status,  *)
(* so an outcome that arrives late must not take it back.                  *)
EmbeddedIsFinal ==
  [][\A j \in Job : jobs[j].status = "embedded" =>
       jobs'[j].status = "embedded"]_vars

(* A description is fetched once: what is stored is never replaced, even   *)
(* by the outcome of a step that started before it was stored.             *)
DescriptionKept ==
  [][\A j \in Job : jobs[j].detail # NULL =>
       jobs'[j].detail = jobs[j].detail]_vars

(* Every posting found is embedded or given up on in the end, through      *)
(* retries, crashes and shutdowns, as long as those are finitely many.     *)
JobSettles ==
  \A j \in Job : jobs[j].status # "absent" ~>
                   jobs[j].status \in {"embedded", "failed"}

-----------------------------------------------------------------------------
(* The promise: JobLifecycle, with the claims counted that have ended.     *)

Held(j) == \E w \in Worker : Busy(w) /\ step[w].job = j

StageOf(row) ==
  CASE row.status = "absent" -> "absent"
    [] row.status = "embedded" -> "embedded"
    [] row.status = "failed" /\ row.lastError = "permanent" -> "rejected"
    [] row.status = "failed" /\ row.lastError # "permanent" -> "exhausted"
    [] OTHER -> "open"

stage == [j \in Job |-> StageOf(jobs[j])]
charged == [j \in Job |->
  IF Held(j) THEN jobs[j].attempts - 1 ELSE jobs[j].attempts]

Lifecycle == INSTANCE JobLifecycle WITH
  stage <- stage, charged <- charged, lost <- lost

(* Each job goes through the lifecycle exactly once, and its attempts      *)
(* column counts the claims that ended other than by a shutdown.           *)
ImplementsLifecycle == Lifecycle!Spec
=============================================================================
