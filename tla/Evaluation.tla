----------------------------- MODULE Evaluation -----------------------------
(***************************************************************************)
(* The evaluation half of the pipeline for one user: the search results of *)
(* their saved searches, which are the evaluate loops' queue, the          *)
(* evaluations stored for them, and the user who uploads and deletes CVs,  *)
(* asks for a re-evaluation and deletes the account meanwhile.             *)
(*                                                                         *)
(* A worker claims a result in one statement, picks the user's newest CV   *)
(* and asks the LLM with no lock held, and writes the outcome in one       *)
(* transaction that first locks the result and writes nothing when it is   *)
(* gone.  Account deletion locks the searches and the results before it    *)
(* deletes anything, so each of the two is one action.                     *)
(***************************************************************************)
EXTENDS RetryPolicy

CONSTANTS
  Result,       \* search results: (search, job) is unique
  Worker,       \* evaluate loops, over every worker process
  Score,        \* overall scores the LLM can give
  NoCVRetry,    \* Config.NoCVRetry, in ticks
  MaxUploads,   \* bound: CVs uploaded; a CV is its place in upload order
  MaxRequests   \* bound: re-evaluations asked for

ASSUME ScoreAssumption ==
  /\ 0 \in Score
  /\ NULL \notin Score /\ NULL \notin [completed: BOOLEAN, score: Score]
ASSUME UserAssumption ==
  NoCVRetry \in Nat /\ MaxUploads \in Nat /\ MaxRequests \in Nat

VARIABLES
  results,     \* search_results
  evaluations, \* evaluations, one per (result, CV)
  embedded,    \* results whose job is embedded
  uploading,   \* uploads begun whose CV is not stored yet
  uploaded,    \* CVs stored so far
  live,        \* CVs that are not deleted
  account,     \* "open" or "deleted"
  requests,    \* re-evaluations asked for so far
  step,        \* the EvaluateOne call each worker is in
  lost,        \* claims lost so far: the process died or the write failed
  cancelled    \* steps cancelled by a shutdown so far

userVars == <<uploading, uploaded, live, account, requests>>
faultVars == <<lost, cancelled>>
vars == <<results, evaluations, embedded, userVars, step, faultVars>>

CV == 1..MaxUploads
Status == {"absent", "pending", "processing", "done", "failed"}
Phase == {"idle", "selecting", "matching", "recording"}
Outcome == {"none", "scored", "error", "noCV", "cancelled"}
Evaluations == [completed: BOOLEAN, score: Score]

Rows ==
  [status: Status, claimedAgo: Ages, attempts: Nat,
   dueIn: {NULL} \union 0..MaxBackoff \union 0..NoCVRetry,
   evaluation: {NULL} \union CV, score: {NULL} \union Score]

Steps ==
  [phase: Phase, result: {NULL} \union Result, attempts: Nat,
   cv: {NULL} \union CV, score: Score, age: 0..StepBound, outcome: Outcome]

NoRow ==
  [status |-> "absent", claimedAgo |-> NULL, attempts |-> 0, dueIn |-> NULL,
   evaluation |-> NULL, score |-> NULL]

NoEvaluations == [r \in Result |-> [c \in CV |-> NULL]]

Idle ==
  [phase |-> "idle", result |-> NULL, attempts |-> 0, cv |-> NULL,
   score |-> 0, age |-> 0, outcome |-> "none"]

Busy(w) == step[w].phase # "idle"

-----------------------------------------------------------------------------
(* Variants of the definitions below, as a slip in the code would make     *)
(* them; PROJECT.json names the property each one breaks.                  *)

CopiedAlways(evaluation) == evaluation.score
RequeueableAlways(row) == row.status # "absent"
GoneNever(s) == FALSE
RequeuedWithTries(row) ==
  [row EXCEPT !.status = "pending", !.dueIn = NULL, !.claimedAgo = NULL]

-----------------------------------------------------------------------------
(* A search run stores a result (upsertSearchResult): only while the       *)
(* search is there, and a result that is stored keeps its state.           *)
AddResult(r) ==
  /\ account = "open"
  /\ results[r].status = "absent"
  /\ results' = [results EXCEPT ![r].status = "pending"]
  /\ UNCHANGED <<evaluations, embedded, userVars, step, faultVars>>

(* The other half of the pipeline is done with the result's job.           *)
EmbedJob(r) ==
  /\ r \notin embedded
  /\ embedded' = embedded \union {r}
  /\ UNCHANGED <<results, evaluations, userVars, step, faultVars>>

-----------------------------------------------------------------------------
(* The claim.                                                              *)

Claimable(r) ==
  /\ r \in embedded
  /\ \/ results[r].status = "pending" /\ Due(results[r])
     \/ results[r].status = "processing" /\ Stale(results[r])

(* ORDER BY next_attempt_at NULLS FIRST; how overdue a retry is is not     *)
(* kept, so the order among retries is left open.                          *)
FirstToClaim(r) ==
  /\ Claimable(r)
  /\ results[r].dueIn # NULL =>
       \A q \in Result : Claimable(q) => results[q].dueIn # NULL

Claimed(row) ==
  [row EXCEPT !.status = "processing", !.claimedAgo = 0, !.attempts = @ + 1]

Started(r, row) ==
  [Idle EXCEPT !.phase = "selecting", !.result = r, !.attempts = row.attempts]

Claim(w) ==
  /\ ~Busy(w)
  /\ \E r \in Result :
       /\ FirstToClaim(r)
       /\ results' = [results EXCEPT ![r] = Claimed(@)]
       /\ step' = [step EXCEPT ![w] = Started(r, Claimed(results[r]))]
  /\ UNCHANGED <<evaluations, embedded, userVars, faultVars>>

-----------------------------------------------------------------------------
(* The slow work.                                                          *)

Chosen(s, cv) == [s EXCEPT !.phase = "matching", !.cv = cv]

Finished(s, outcome) ==
  [s EXCEPT !.phase = "recording", !.outcome = outcome]

Newest(c) == c \in live /\ \A d \in live : d <= c

(* The job is read back and the newest CV picked; either query may fail.   *)
SelectCV(w) ==
  /\ step[w].phase = "selecting"
  /\ \/ \E c \in CV : Newest(c) /\ step' = [step EXCEPT ![w] = Chosen(@, c)]
     \/ /\ live = {}
        /\ step' = [step EXCEPT ![w] = Finished(@, "noCV")]
     \/ step' = [step EXCEPT ![w] = Finished(@, "error")]
  /\ UNCHANGED <<results, evaluations, embedded, userVars, faultVars>>

(* The matcher reads the CV's text, which fails if the CV was deleted just *)
(* now, and asks the LLM, which may fail or answer what cannot be decoded. *)
(* A CV deleted after its text was read is matched all the same.           *)
MatchJob(w) ==
  /\ step[w].phase = "matching"
  /\ \/ \E s \in Score :
          step' = [step EXCEPT
                     ![w] = [Finished(@, "scored") EXCEPT !.score = s]]
     \/ step' = [step EXCEPT ![w] = Finished(@, "error")]
  /\ UNCHANGED <<results, evaluations, embedded, userVars, faultVars>>

(* The shutdown grace ran out before there was a response.                 *)
Cancel(w) ==
  /\ Busy(w) /\ step[w].outcome \notin {"scored", "cancelled"}
  /\ cancelled < MaxCancelled
  /\ cancelled' = cancelled + 1
  /\ step' = [step EXCEPT ![w] = Finished(@, "cancelled")]
  /\ UNCHANGED <<results, evaluations, embedded, userVars, lost>>

-----------------------------------------------------------------------------
(* The outcome.                                                            *)

(* The evaluation a step stores: the response, or the failure to get one.  *)
Judgement(s) ==
  [completed |-> s.outcome = "scored",
   score |-> IF s.outcome = "scored" THEN s.score ELSE 0]

(* search_results.overall_score: null unless the evaluation completed.     *)
CopiedScore(evaluation) ==
  IF evaluation.completed THEN evaluation.score ELSE NULL

ApplyFailure(row, attempts) ==
  IF Exhausted(attempts)
  THEN [row EXCEPT !.status = "failed", !.dueIn = NULL]
  ELSE [row EXCEPT !.status = "pending", !.dueIn = Backoff(attempts)]

Settled(row, s) ==
  LET free == [row EXCEPT !.claimedAgo = NULL]
      released ==
        [free EXCEPT !.status = "pending", !.attempts = s.attempts - 1]
  IN  CASE s.outcome = "cancelled" -> released
        [] s.outcome = "noCV" -> [released EXCEPT !.dueIn = NoCVRetry]
        [] s.outcome = "scored" ->
             [free EXCEPT !.status = "done", !.dueIn = NULL]
        [] OTHER -> ApplyFailure(free, s.attempts)

(* A step that got as far as asking the matcher stores an evaluation, and  *)
(* makes it the result's current one, whatever came of it.                 *)
Recorded(row, s) ==
  IF s.cv = NULL
  THEN Settled(row, s)
  ELSE [Settled(row, s) EXCEPT !.evaluation = s.cv,
                               !.score = CopiedScore(Judgement(s))]

Saved(s) ==
  IF s.cv = NULL
  THEN evaluations
  ELSE [evaluations EXCEPT ![s.result][s.cv] = Judgement(s)]

(* lockSearchResult: the row is gone once the account is deleted.          *)
Gone(s) == results[s.result].status = "absent"

Record(w) ==
  /\ step[w].phase = "recording"
  /\ \/ /\ Gone(step[w])
        /\ UNCHANGED <<results, evaluations>>
     \/ /\ ~Gone(step[w])
        /\ results' = [results EXCEPT ![step[w].result] = Recorded(@, step[w])]
        /\ evaluations' = Saved(step[w])
  /\ step' = [step EXCEPT ![w] = Idle]
  /\ UNCHANGED <<embedded, userVars, faultVars>>

(* The process dies and is started again, or the transaction fails.        *)
Lose(w) ==
  /\ Busy(w)
  /\ lost < MaxLost
  /\ lost' = lost + 1
  /\ step' = [step EXCEPT ![w] = Idle]
  /\ UNCHANGED <<results, evaluations, embedded, userVars, cancelled>>

-----------------------------------------------------------------------------
(* The user, through the API.                                              *)

(* An upload passes the session check and then reads the file and embeds   *)
(* its text before it stores the CV; nothing looks at the account again.   *)
BeginUpload ==
  /\ account = "open"
  /\ uploaded + uploading < MaxUploads
  /\ uploading' = uploading + 1
  /\ UNCHANGED <<results, evaluations, embedded, uploaded, live, account,
                 requests, step, faultVars>>

(* The CV's row is stored before its sections are made of it, and stays    *)
(* when that fails.                                                        *)
StoreCV ==
  /\ uploading > 0
  /\ uploading' = uploading - 1
  /\ uploaded' = uploaded + 1
  /\ live' = live \union {uploaded + 1}
  /\ UNCHANGED <<results, evaluations, embedded, account, requests, step,
                 faultVars>>

DeleteCV(c) ==
  /\ account = "open"
  /\ c \in live
  /\ live' = live \ {c}
  /\ UNCHANGED <<results, evaluations, embedded, uploading, uploaded, account,
                 requests, step, faultVars>>

(* A result that is settled, or waits for its next attempt, can be queued  *)
(* again; the rest are in progress.                                        *)
Requeueable(row) ==
  \/ row.status \in {"done", "failed"}
  \/ row.status = "pending" /\ ~Due(row)

Requeued(row) ==
  [row EXCEPT !.status = "pending", !.attempts = 0, !.dueIn = NULL,
              !.claimedAgo = NULL]

ReEvaluate(r) ==
  /\ requests < MaxRequests
  /\ Requeueable(results[r])
  /\ results' = [results EXCEPT ![r] = Requeued(@)]
  /\ requests' = requests + 1
  /\ UNCHANGED <<evaluations, embedded, uploading, uploaded, live, account,
                 step, faultVars>>

DeleteAccount ==
  /\ account = "open"
  /\ account' = "deleted"
  /\ results' = [r \in Result |-> NoRow]
  /\ evaluations' = NoEvaluations
  /\ live' = {}
  /\ UNCHANGED <<embedded, uploading, uploaded, requests, step, faultVars>>

-----------------------------------------------------------------------------
Aged(s) == IF s.phase = "idle" THEN s ELSE [s EXCEPT !.age = @ + 1]

(* One tick of the clock.  A step may not outlast StepBound.               *)
Tick ==
  /\ \A w \in Worker : Busy(w) => step[w].age < StepBound
  /\ results' = [r \in Result |->
       [results[r] EXCEPT !.claimedAgo = Older(@), !.dueIn = Sooner(@)]]
  /\ step' = [w \in Worker |-> Aged(step[w])]
  /\ UNCHANGED <<evaluations, embedded, userVars, faultVars>>

Init ==
  /\ results = [r \in Result |-> NoRow]
  /\ evaluations = NoEvaluations
  /\ embedded = {}
  /\ uploading = 0 /\ uploaded = 0 /\ live = {}
  /\ account = "open"
  /\ requests = 0
  /\ step = [w \in Worker |-> Idle]
  /\ lost = 0
  /\ cancelled = 0

Work(w) == Claim(w) \/ SelectCV(w) \/ MatchJob(w) \/ Record(w)

User ==
  \/ BeginUpload
  \/ StoreCV
  \/ \E c \in CV : DeleteCV(c)
  \/ \E r \in Result : ReEvaluate(r)
  \/ DeleteAccount

Next ==
  \/ \E r \in Result : AddResult(r) \/ EmbedJob(r)
  \/ \E w \in Worker : Work(w) \/ Cancel(w) \/ Lose(w)
  \/ User
  \/ Tick

Spec == Init /\ [][Next]_vars

(* As in JobQueue: the loops poll, their calls time out, the clock runs.   *)
(* The user, crashes and shutdowns owe nothing.                            *)
Fairness == WF_vars(Tick) /\ \A w \in Worker : WF_vars(Work(w))

FairSpec == Spec /\ Fairness

-----------------------------------------------------------------------------
(* Properties.                                                             *)

TypeOK ==
  /\ results \in [Result -> Rows]
  /\ evaluations \in [Result -> [CV -> {NULL} \union Evaluations]]
  /\ embedded \in SUBSET Result
  /\ uploading \in 0..MaxUploads /\ uploaded \in 0..MaxUploads
  /\ live \in SUBSET CV
  /\ account \in {"open", "deleted"}
  /\ requests \in 0..MaxRequests
  /\ step \in [Worker -> Steps]
  /\ lost \in 0..MaxLost
  /\ cancelled \in 0..MaxCancelled

(* One result is evaluated by one worker at a time, whatever the user asks *)
(* for meanwhile: a second evaluation would pay for the LLM again, and its *)
(* outcome would be written over the first.                                *)
OneEvaluator ==
  \A v, w \in Worker :
    Busy(v) /\ Busy(w) /\ step[v].result = step[w].result => v = w

(* The results list filters and sorts by a copy of the current             *)
(* evaluation's score: it is that evaluation's, there is none while the    *)
(* evaluation failed, and a result is done only with a completed one.      *)
ScoreIsCurrent ==
  \A r \in Result :
    LET row == results[r]
    IN  /\ row.evaluation = NULL => row.score = NULL
        /\ row.evaluation # NULL =>
             /\ evaluations[r][row.evaluation] # NULL
             /\ row.score = LET e == evaluations[r][row.evaluation]
                            IN  IF e.completed THEN e.score ELSE NULL
        /\ row.status = "done" => row.score # NULL

(* No worker brings back the results or evaluations of a deleted account.  *)
DeletedStaysDeleted ==
  account = "deleted" =>
    /\ \A r \in Result : results[r].status = "absent"
    /\ evaluations = NoEvaluations

(* A result's current evaluation moves to an older CV only when the newer  *)
(* one was deleted: no outcome of a slow step undoes what a step that saw  *)
(* the newer CV wrote.                                                     *)
NewerCVPrevails ==
  [][\A r \in Result :
       LET old == results[r].evaluation
           new == results'[r].evaluation
       IN  old # NULL /\ new # NULL /\ new < old => old \notin live]_vars

(* A queued result is evaluated or given up in the end, unless the user    *)
(* has no CV, through retries, crashes, shutdowns and requests to try      *)
(* again, as long as those are finitely many.                              *)
EvaluationSettles ==
  \A r \in Result :
    results[r].status = "pending" /\ r \in embedded ~>
      results[r].status \in {"done", "failed", "absent"} \/ live = {}

(* "A result being re-evaluated keeps its previous one meanwhile", and     *)
(* with it its score: what a result that is still queued shows stays.      *)
ScoreKeptMeanwhile ==
  [][\A r \in Result :
       /\ results[r].score # NULL
       /\ results'[r].status \in {"pending", "processing"}
       => results'[r].score # NULL]_vars

-----------------------------------------------------------------------------
(* The promise: ResultLifecycle, with the claims counted that have ended.  *)

Held(r) == \E w \in Worker : Busy(w) /\ step[w].result = r

stage == [r \in Result |->
  IF results[r].status \in {"pending", "processing"} THEN "queued"
  ELSE results[r].status]
charged == [r \in Result |->
  IF results[r].status # "absent" /\ Held(r) THEN results[r].attempts - 1
  ELSE results[r].attempts]
shown == [r \in Result |-> results[r].score]

Lifecycle == INSTANCE ResultLifecycle WITH
  stage <- stage, charged <- charged, shown <- shown,
  account <- account, lost <- lost

(* Each result goes through the lifecycle: in particular a shutdown and a  *)
(* missing CV cost it no attempt, and it fails only after MaxAttempts      *)
(* tries since the user last asked.                                        *)
ImplementsLifecycle == Lifecycle!Spec
=============================================================================
