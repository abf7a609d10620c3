--------------------------- MODULE JobQueue_proofs ---------------------------
(***************************************************************************)
(* Proofs about JobQueue, for any number of jobs and workers and any       *)
(* timeouts.  Type correctness needs no premise.  Everything else holds    *)
(* under StepsEndInTime and follows from one inductive invariant: a busy   *)
(* worker's row is processing with a claim exactly as old as its step, so  *)
(* while the step is within StepBound the row is not stale and nobody      *)
(* else can claim it.                                                      *)
(***************************************************************************)
EXTENDS JobQueue, TLAPS

-----------------------------------------------------------------------------
(* The delay before another attempt, and the clock.                        *)

(* A delay is capped, so it is a legal next attempt.                       *)
LEMMA BackoffType ==
  ASSUME NEW n \in Nat
  PROVE  Backoff(n) \in 0..MaxBackoff
BY TimeAssumption DEF Backoff

LEMMA OlderType ==
  ASSUME NEW age \in Ages
  PROVE  Older(age) \in Ages
BY TimeAssumption DEF Older, Ages

LEMMA SoonerType ==
  ASSUME NEW bound \in Nat, NEW wait \in {NULL} \union 0..bound
  PROVE  Sooner(wait) \in {NULL} \union 0..bound
BY TimeAssumption DEF Sooner

LEMMA AgesFacts == NULL \in Ages /\ 0 \in Ages
BY TimeAssumption DEF Ages

(* A busy worker has a job, has counted an attempt, and has an outcome     *)
(* exactly when it is about to record one.                                 *)
StepInv ==
  \A w \in Worker : Busy(w) =>
    /\ step[w].job \in Job
    /\ step[w].attempts \in Nat \ {0}
    /\ step[w].phase = "recording" <=> step[w].outcome # "none"
    /\ step[w].phase = "fetching" => ~step[w].fetched /\ step[w].detail = NULL
    /\ step[w].phase = "embedding" => step[w].detail # NULL
    /\ step[w].outcome = "embedded" => step[w].detail # NULL
    /\ step[w].fetched => step[w].detail # NULL

Typing == TypeOK /\ StepInv

(* What a worker writes is a row again.                                    *)
LEMMA KeptType ==
  ASSUME NEW row \in Rows, NEW s \in Steps
  PROVE  Kept(row, s) \in Rows
BY AgesFacts DEF Kept, Rows, Steps

LEMMA ApplyFailureType ==
  ASSUME NEW row \in Rows, NEW s \in Steps
  PROVE  ApplyFailure(row, s) \in Rows
<1>1. ReadyStatus(s) \in Status /\ "failed" \in Status
  BY DEF ReadyStatus, Status
<1>2. Backoff(s.attempts) \in 0..MaxBackoff
  BY BackoffType DEF Steps
<1> QED BY <1>1, <1>2 DEF ApplyFailure, Rows

LEMMA RecordedType ==
  ASSUME NEW row \in Rows, NEW s \in Steps,
         s.phase = "recording", s.outcome # "none",
         s.attempts \in Nat \ {0}
  PROVE  Recorded(row, s) \in Rows
<1>1. Kept(row, s) \in Rows
  BY KeptType
<1>2. ReadyStatus(s) \in Status /\ "embedded" \in Status
  BY DEF ReadyStatus, Status
<1>3. ApplyFailure(Kept(row, s), s) \in Rows
  BY <1>1, ApplyFailureType
<1>4. s.attempts - 1 \in Nat /\ s.detail \in {NULL} \union Text
  BY DEF Steps
<1>5. CASE s.outcome = "embedded"
  BY <1>1, <1>2, <1>4, <1>5 DEF Recorded, Rows
<1>6. CASE s.outcome = "cancelled"
  BY <1>1, <1>2, <1>4, <1>6 DEF Recorded, Rows
<1>7. CASE s.outcome \notin {"embedded", "cancelled"}
  BY <1>3, <1>7 DEF Recorded
<1> QED BY <1>5, <1>6, <1>7

LEMMA ClaimedType ==
  ASSUME NEW row \in Rows
  PROVE  Claimed(row) \in Rows
<1>1. 0 \in Ages
  BY AgesFacts
<1>2. row.attempts + 1 \in Nat
  <2>1. row.attempts \in Nat
    BY DEF Rows
  <2> QED BY <2>1
<1>3. "processing" \in Status
  BY DEF Status
<1> QED BY <1>1, <1>2, <1>3 DEF Claimed, Rows

LEMMA StartedType ==
  ASSUME NEW j \in Job, NEW row \in Rows
  PROVE  Started(j, row) \in Steps
<1> DEFINE phase == IF NeedsDetails(row.detail)
                    THEN "fetching" ELSE "embedding"
<1>1. phase \in Phase /\ "none" \in Outcome
  BY DEF Phase, Outcome
<1>2. 0 \in 0..StepBound
  BY TimeAssumption
<1>3. row.attempts \in Nat /\ row.detail \in {NULL} \union Text
  BY DEF Rows
<1>4. Started(j, row) =
        [phase |-> phase, job |-> j, attempts |-> row.attempts,
         detail |-> row.detail, fetched |-> FALSE, age |-> 0,
         outcome |-> "none"]
  BY DEF Started
<1> HIDE DEF phase
<1> QED BY <1>1, <1>2, <1>3, <1>4 DEF Steps

LEMMA DescribedType ==
  ASSUME NEW s \in Steps, NEW text \in Text
  PROVE  Described(s, text) \in Steps
BY DEF Described, Steps, Phase

LEMMA FinishedType ==
  ASSUME NEW s \in Steps, NEW outcome \in Outcome
  PROVE  Finished(s, outcome) \in Steps
BY DEF Finished, Steps, Phase

LEMMA NoRowType == NoRow \in Rows
BY AgesFacts DEF NoRow, Rows, Status

LEMMA IdleStep == Idle \in Steps /\ Idle.phase = "idle"
BY TimeAssumption DEF Idle, Steps, Phase, Outcome

LEMMA TypingInit == Init => Typing
<1> SUFFICES ASSUME Init PROVE Typing
  OBVIOUS
<1>1. jobs \in [Job -> Rows] /\ step \in [Worker -> Steps]
  BY NoRowType, IdleStep DEF Init
<1>2. lost \in 0..MaxLost /\ cancelled \in 0..MaxCancelled
  BY CountAssumption DEF Init
<1>3. StepInv
  BY IdleStep DEF Init, StepInv, Busy
<1> QED BY <1>1, <1>2, <1>3 DEF Typing, TypeOK

LEMMA ClaimTyping ==
  ASSUME Typing, NEW w \in Worker, Claim(w)
  PROVE  Typing'
<1>1. PICK j \in Job :
        /\ jobs' = [jobs EXCEPT ![j] = Claimed(@)]
        /\ step' = [step EXCEPT ![w] = Started(j, Claimed(jobs[j]))]
  BY DEF Claim
<1>2. Claimed(jobs[j]) \in Rows
  BY ClaimedType DEF Typing, TypeOK
<1>3. jobs' \in [Job -> Rows]
  BY <1>1, <1>2 DEF Typing, TypeOK
<1>4. step' \in [Worker -> Steps]
  BY <1>1, <1>2, StartedType DEF Typing, TypeOK
<1>5. StepInv'
  <2>1. Claimed(jobs[j]).attempts \in Nat \ {0}
    <3>1. jobs[j] \in Rows /\ jobs[j].attempts \in Nat
      BY DEF Typing, TypeOK, Rows
    <3>2. Claimed(jobs[j]).attempts = jobs[j].attempts + 1
      BY <3>1 DEF Claimed, Rows
    <3> QED BY <3>1, <3>2
  <2>2. ASSUME NEW v \in Worker, v # w PROVE step'[v] = step[v]
    BY <1>1, <2>2 DEF Typing, TypeOK
  <2>3. step'[w] = Started(j, Claimed(jobs[j]))
    BY <1>1 DEF Typing, TypeOK
  <2> QED BY <2>1, <2>2, <2>3
          DEF Typing, StepInv, Busy, Started, NeedsDetails
<1> QED BY <1>3, <1>4, <1>5 DEF Typing, TypeOK, Claim

LEMMA FetchTyping ==
  ASSUME Typing, NEW w \in Worker, FetchDetails(w)
  PROVE  Typing'
<1>1. step[w] \in Steps
  BY DEF Typing, TypeOK
<1>2. CASE \E t \in Text : step' = [step EXCEPT ![w] = Described(@, t)]
  <2>1. PICK t \in Text : step' = [step EXCEPT ![w] = Described(@, t)]
    BY <1>2
  <2>2. step' \in [Worker -> Steps]
    BY <1>1, <2>1, DescribedType DEF Typing, TypeOK
  <2>3. StepInv'
    BY <1>1, <2>1, TextAssumption
       DEF FetchDetails, Described, Typing, TypeOK, StepInv, Busy, Steps
  <2> QED BY <2>2, <2>3 DEF FetchDetails, Typing, TypeOK
<1>3. CASE \E outcome \in {"error", "permanent"} : FinishWork(w, outcome)
  <2>1. PICK outcome \in {"error", "permanent"} : FinishWork(w, outcome)
    BY <1>3
  <2>2. step' \in [Worker -> Steps]
    BY <1>1, <2>1, FinishedType DEF Typing, TypeOK, FinishWork, Outcome
  <2>3. StepInv'
    BY <1>1, <2>1
       DEF FetchDetails, FinishWork, Finished, Typing, TypeOK, StepInv, Busy,
           Steps
  <2> QED BY <2>2, <2>3 DEF FetchDetails, Typing, TypeOK
<1> QED BY <1>2, <1>3 DEF FetchDetails

LEMMA EmbeddingTyping ==
  ASSUME Typing, NEW w \in Worker, CreateEmbedding(w)
  PROVE  Typing'
<1>1. step[w] \in Steps
  BY DEF Typing, TypeOK
<1>2. PICK outcome \in {"embedded", "error"} : FinishWork(w, outcome)
  BY DEF CreateEmbedding
<1>3. step' \in [Worker -> Steps]
  BY <1>1, <1>2, FinishedType DEF Typing, TypeOK, FinishWork, Outcome
<1>4. StepInv'
  BY <1>1, <1>2
     DEF CreateEmbedding, FinishWork, Finished, Typing, TypeOK, StepInv,
         Busy, Steps
<1> QED BY <1>3, <1>4 DEF CreateEmbedding, Typing, TypeOK

LEMMA CancelTyping ==
  ASSUME Typing, NEW w \in Worker, Cancel(w)
  PROVE  Typing'
<1>1. step[w] \in Steps
  BY DEF Typing, TypeOK
<1>2. step' \in [Worker -> Steps]
  BY <1>1, FinishedType DEF Cancel, Typing, TypeOK, FinishWork, Outcome
<1>3. StepInv'
  BY <1>1
     DEF Cancel, FinishWork, Finished, Typing, TypeOK, StepInv, Busy, Steps
<1>4. cancelled' \in 0..MaxCancelled
  BY CountAssumption DEF Cancel, Typing, TypeOK
<1> QED BY <1>2, <1>3, <1>4 DEF Cancel, Typing, TypeOK

LEMMA EndTyping ==
  ASSUME Typing, NEW w \in Worker, Record(w) \/ Lose(w)
  PROVE  Typing'
<1>1. step' = [step EXCEPT ![w] = Idle]
  BY DEF Record, Lose
<1>2. step' \in [Worker -> Steps]
  BY <1>1, IdleStep DEF Typing, TypeOK
<1>3. StepInv'
  BY <1>1, IdleStep DEF Typing, TypeOK, StepInv, Busy
<1>4. CASE Record(w)
  <2>1. step[w] \in Steps /\ step[w].job \in Job
    BY <1>4 DEF Record, Typing, TypeOK, StepInv, Busy
  <2>2. Recorded(jobs[step[w].job], step[w]) \in Rows
    BY <1>4, <2>1, RecordedType DEF Record, Typing, TypeOK, StepInv, Busy
  <2>3. jobs' \in [Job -> Rows]
    BY <1>4, <2>1, <2>2 DEF Record, Typing, TypeOK
  <2> QED BY <1>2, <1>3, <1>4, <2>3 DEF Record, Typing, TypeOK
<1>5. CASE Lose(w)
  <2>1. lost' \in 0..MaxLost
    BY <1>5, CountAssumption DEF Lose, Typing, TypeOK
  <2> QED BY <1>2, <1>3, <1>5, <2>1 DEF Lose, Typing, TypeOK
<1> QED BY <1>4, <1>5

LEMMA DiscoverTyping ==
  ASSUME Typing, NEW j \in Job, Discover(j)
  PROVE  Typing'
<1>1. jobs' \in [Job -> Rows]
  <2>1. jobs \in [Job -> Rows] /\ jobs[j] \in Rows
    BY DEF Typing, TypeOK
  <2>2. [jobs[j] EXCEPT !.status = "new"] \in Rows
    BY <2>1 DEF Rows, Status
  <2>3. jobs' = [jobs EXCEPT ![j] = [jobs[j] EXCEPT !.status = "new"]]
    BY DEF Discover
  <2> QED BY <2>1, <2>2, <2>3
<1>2. step' = step /\ lost' = lost /\ cancelled' = cancelled
  BY DEF Discover
<1>3. TypeOK'
  BY <1>1, <1>2 DEF Typing, TypeOK
<1>4. StepInv'
  BY <1>2 DEF Typing, StepInv, Busy
<1> QED BY <1>3, <1>4 DEF Typing

LEMMA TickTyping ==
  ASSUME Typing, Tick
  PROVE  Typing'
<1>1. ASSUME NEW j \in Job
      PROVE  [jobs[j] EXCEPT !.claimedAgo = Older(@), !.dueIn = Sooner(@)]
               \in Rows
  BY OlderType, SoonerType, TimeAssumption DEF Typing, TypeOK, Rows
<1>2. jobs' \in [Job -> Rows]
  BY <1>1 DEF Tick
<1>3. ASSUME NEW w \in Worker
      PROVE  Aged(step[w]) \in Steps
  <2>1. step[w] \in Steps
    BY DEF Typing, TypeOK
  <2>2. CASE step[w].phase = "idle"
    BY <2>1, <2>2 DEF Aged
  <2>3. CASE step[w].phase # "idle"
    <3>1. step[w].age + 1 \in 0..StepBound
      <4>1. step[w].age \in 0..StepBound /\ step[w].age < StepBound
        BY <2>1, <2>3 DEF Tick, Busy, Steps
      <4> QED BY <4>1, TimeAssumption
    <3>2. Aged(step[w]) = [step[w] EXCEPT !.age = step[w].age + 1]
      BY <2>1, <2>3 DEF Aged, Steps
    <3> QED BY <2>1, <3>1, <3>2 DEF Steps
  <2> QED BY <2>2, <2>3
<1>4. step' \in [Worker -> Steps]
  BY <1>3 DEF Tick
<1>5. StepInv'
  <2>1. ASSUME NEW w \in Worker
        PROVE  step'[w] = Aged(step[w]) /\ step[w] \in Steps
    BY DEF Tick, Typing, TypeOK
  <2>2. ASSUME NEW w \in Worker
        PROVE  /\ step'[w].phase = step[w].phase
               /\ step'[w].job = step[w].job
               /\ step'[w].attempts = step[w].attempts
               /\ step'[w].detail = step[w].detail
               /\ step'[w].fetched = step[w].fetched
               /\ step'[w].outcome = step[w].outcome
    BY <2>1 DEF Aged, Steps
  <2> QED BY <2>2 DEF Typing, StepInv, Busy
<1> QED BY <1>2, <1>4, <1>5 DEF Tick, Typing, TypeOK

LEMMA TypingNext == Typing /\ [Next]_vars => Typing'
<1> SUFFICES ASSUME Typing, [Next]_vars PROVE Typing'
  OBVIOUS
<1>1. ASSUME NEW j \in Job, Discover(j) PROVE Typing'
  BY <1>1, DiscoverTyping
<1>2. ASSUME NEW w \in Worker, Work(w) \/ Cancel(w) \/ Lose(w) PROVE Typing'
  BY <1>2, ClaimTyping, FetchTyping, EmbeddingTyping, CancelTyping, EndTyping
     DEF Work
<1>3. CASE Tick
  BY <1>3, TickTyping
<1>4. CASE UNCHANGED vars
  BY <1>4 DEF vars, Typing, TypeOK, StepInv, Busy
<1> QED BY <1>1, <1>2, <1>3, <1>4 DEF Next

(* Every reachable state is well-typed, whatever the timeouts: a release   *)
(* never takes an attempt count below zero, and no retry waits longer than *)
(* MaxBackoff.                                                             *)
THEOREM TypeCorrect == Spec => []TypeOK
<1>1. Typing => TypeOK
  BY DEF Typing
<1> QED BY <1>1, TypingInit, TypingNext, PTL DEF Spec

-----------------------------------------------------------------------------
(* The claim as a lock.                                                    *)

IInv ==
  /\ Typing
  /\ ClaimExclusion
  /\ ClaimUndisturbed
  /\ EmbeddingMatchesDetail

(* The heart of the argument: a row whose worker is still in its step is   *)
(* processing and not yet stale.                                           *)
LEMMA HeldNotClaimable ==
  ASSUME IInv, StepsEndInTime, NEW w \in Worker, Busy(w)
  PROVE  ~Claimable(jobs[step[w].job])
<1>1. jobs[step[w].job].status = "processing"
  BY DEF IInv, ClaimUndisturbed
<1>2. jobs[step[w].job].claimedAgo = step[w].age
  BY DEF IInv, ClaimUndisturbed
<1>3. step[w].age \in 0..StepBound
  BY DEF IInv, Typing, TypeOK, Steps
<1>4. ~(step[w].age > StaleTimeout)
  BY <1>3, TimeAssumption DEF StepsEndInTime
<1> QED BY <1>1, <1>2, <1>4 DEF Claimable, Ready, Stale

LEMMA InvInit == Init => IInv
<1> SUFFICES ASSUME Init PROVE IInv
  OBVIOUS
<1>1. \A w \in Worker : ~Busy(w)
  BY DEF Init, Busy, Idle
<1>2. EmbeddingMatchesDetail
  BY DEF Init, EmbeddingMatchesDetail, NoRow
<1> QED BY <1>1, <1>2, TypingInit DEF IInv, ClaimExclusion, ClaimUndisturbed

LEMMA ClaimInv ==
  ASSUME IInv, StepsEndInTime, NEW w \in Worker, Claim(w)
  PROVE  IInv'
<1>1. PICK j \in Job :
        /\ Claimable(jobs[j])
        /\ jobs' = [jobs EXCEPT ![j] = Claimed(@)]
        /\ step' = [step EXCEPT ![w] = Started(j, Claimed(jobs[j]))]
  BY DEF Claim, FirstToClaim
<1>2. Typing'
  BY ClaimTyping DEF IInv
<1>3. ASSUME NEW v \in Worker, Busy(v) PROVE step[v].job # j
  BY <1>1, <1>3, HeldNotClaimable
<1>4. /\ step'[w] = Started(j, Claimed(jobs[j]))
      /\ \A v \in Worker : v # w => step'[v] = step[v]
      /\ jobs'[j] = Claimed(jobs[j])
      /\ \A k \in Job : k # j => jobs'[k] = jobs[k]
  BY <1>1 DEF IInv, Typing, TypeOK
<1>5. jobs[j] \in Rows
  BY DEF IInv, Typing, TypeOK
<1>6. /\ Claimed(jobs[j]).status = "processing"
      /\ Claimed(jobs[j]).claimedAgo = 0
      /\ Claimed(jobs[j]).detail = jobs[j].detail
      /\ Claimed(jobs[j]).embedding = jobs[j].embedding
  BY <1>5 DEF Claimed, Rows
<1>7. /\ step'[w].job = j
      /\ step'[w].age = 0
      /\ step'[w].attempts = Claimed(jobs[j]).attempts
      /\ step'[w].detail = Claimed(jobs[j]).detail
      /\ step'[w].fetched = FALSE
  BY <1>4 DEF Started
<1>8. ClaimExclusion'
  BY <1>3, <1>4, <1>7 DEF IInv, ClaimExclusion, Busy
<1>9. ClaimUndisturbed'
  <2> SUFFICES ASSUME NEW v \in Worker, Busy(v)'
               PROVE  LET s == step'[v]
                          row == jobs'[s.job]
                      IN  /\ row.status = "processing"
                          /\ row.claimedAgo = s.age
                          /\ row.attempts = s.attempts
                          /\ row.detail = IF s.fetched THEN NULL ELSE s.detail
    BY DEF ClaimUndisturbed
  <2>1. CASE v = w
    BY <2>1, <1>4, <1>6, <1>7
  <2>2. CASE v # w
    <3>1. Busy(v) /\ step'[v] = step[v]
      BY <2>2, <1>4 DEF Busy
    <3>2. jobs'[step[v].job] = jobs[step[v].job]
      BY <3>1, <1>3, <1>4 DEF IInv, Typing, StepInv
    <3> QED BY <3>1, <3>2 DEF IInv, ClaimUndisturbed
  <2> QED BY <2>1, <2>2
<1>10. EmbeddingMatchesDetail'
  BY <1>4, <1>6 DEF IInv, EmbeddingMatchesDetail
<1> QED BY <1>2, <1>8, <1>9, <1>10 DEF IInv

(* The slow work touches no row, and changes of the worker's copy only     *)
(* what it fetched.                                                        *)
LEMMA WorkInv ==
  ASSUME IInv, NEW w \in Worker,
         FetchDetails(w) \/ CreateEmbedding(w) \/ Cancel(w)
  PROVE  IInv'
<1>1. Typing'
  BY FetchTyping, EmbeddingTyping, CancelTyping DEF IInv
<1>2. jobs' = jobs
  BY DEF FetchDetails, CreateEmbedding, Cancel
<1>3. step[w] \in Steps /\ Busy(w)
  BY DEF IInv, Typing, TypeOK, FetchDetails, CreateEmbedding, Cancel, Busy
<1>4. \A v \in Worker : v # w => step'[v] = step[v]
  BY DEF FetchDetails, CreateEmbedding, Cancel, FinishWork, IInv, Typing,
         TypeOK
<1>5. /\ step'[w].job = step[w].job
      /\ step'[w].age = step[w].age
      /\ step'[w].attempts = step[w].attempts
      /\ \/ /\ step'[w].fetched = step[w].fetched
            /\ step'[w].detail = step[w].detail
         \/ /\ step'[w].fetched
            /\ ~step[w].fetched /\ step[w].detail = NULL
  <2>1. CASE FetchDetails(w)
    <3>1. ~step[w].fetched /\ step[w].detail = NULL
      BY <1>3, <2>1 DEF FetchDetails, IInv, Typing, StepInv
    <3>2. CASE \E t \in Text : step' = [step EXCEPT ![w] = Described(@, t)]
      BY <1>3, <3>1, <3>2 DEF Described, Steps, IInv, Typing, TypeOK
    <3>3. CASE \E outcome \in {"error", "permanent"} : FinishWork(w, outcome)
      BY <1>3, <3>3 DEF FinishWork, Finished, Steps, IInv, Typing, TypeOK
    <3> QED BY <2>1, <3>2, <3>3 DEF FetchDetails
  <2>2. CASE CreateEmbedding(w) \/ Cancel(w)
    <3>1. PICK outcome : step' = [step EXCEPT ![w] = Finished(@, outcome)]
      BY <2>2 DEF CreateEmbedding, Cancel, FinishWork
    <3>2. step'[w] = Finished(step[w], outcome)
      BY <3>1 DEF IInv, Typing, TypeOK
    <3> QED BY <1>3, <3>2 DEF Finished, Steps
  <2> QED BY <2>1, <2>2
<1>6. ASSUME NEW v \in Worker, Busy(v)'
      PROVE  Busy(v) /\ step'[v].job = step[v].job
  BY <1>3, <1>4, <1>5, <1>6 DEF Busy
<1>7. ClaimExclusion'
  BY <1>6 DEF IInv, ClaimExclusion
<1>8. ClaimUndisturbed'
  <2>1. ASSUME NEW v \in Worker, Busy(v)', v # w
        PROVE  Busy(v) /\ step'[v] = step[v]
    BY <1>4, <2>1 DEF Busy
  <2> QED BY <1>2, <1>3, <1>5, <2>1 DEF IInv, ClaimUndisturbed
<1>9. EmbeddingMatchesDetail'
  BY <1>2 DEF IInv, EmbeddingMatchesDetail
<1> QED BY <1>1, <1>7, <1>8, <1>9 DEF IInv

(* The row a worker in state s writes over the row it claimed.             *)
LEMMA RecordedRow ==
  ASSUME NEW row \in Rows, NEW s \in Steps,
         s.outcome = "embedded" => s.detail # NULL,
         row.detail = IF s.fetched THEN NULL ELSE s.detail,
         row.embedding # NULL => row.embedding = row.detail
  PROVE  LET new == Recorded(row, s)
         IN  /\ new.detail = s.detail
             /\ new.embedding # NULL => new.embedding = new.detail
             /\ new.status = "embedded" <=> s.outcome = "embedded"
             /\ new.status = "embedded" => new.embedding # NULL
             /\ row.detail # NULL => new.detail = row.detail
<1> DEFINE kept == Kept(row, s)
<1>1. kept \in Rows
  BY KeptType
<1>2. kept.detail = s.detail /\ kept.embedding = row.embedding
  BY DEF Kept, Rows, Steps
<1>3. ReadyStatus(s) # "embedded"
  BY DEF ReadyStatus
<1> HIDE DEF kept
<1>4. CASE s.outcome = "embedded"
  <2>1. Recorded(row, s) = [kept EXCEPT !.status = "embedded",
              !.embedding = s.detail, !.dueIn = NULL, !.lastError = ""]
    BY <1>4 DEF Recorded, kept
  <2> QED BY <1>1, <1>2, <1>4, <2>1 DEF Rows
<1>5. CASE s.outcome = "cancelled"
  <2>1. Recorded(row, s) = [kept EXCEPT !.status = ReadyStatus(s),
                                        !.attempts = s.attempts - 1]
    BY <1>5 DEF Recorded, kept
  <2> QED BY <1>1, <1>2, <1>3, <1>5, <2>1 DEF Rows
<1>6. CASE s.outcome \notin {"embedded", "cancelled"}
  <2>1. Recorded(row, s) = ApplyFailure(kept, s)
    BY <1>6 DEF Recorded, kept
  <2>2. /\ ApplyFailure(kept, s).detail = kept.detail
        /\ ApplyFailure(kept, s).embedding = kept.embedding
        /\ ApplyFailure(kept, s).status \in {"failed", ReadyStatus(s)}
    BY <1>1 DEF ApplyFailure, Rows
  <2> QED BY <1>2, <1>3, <1>6, <2>1, <2>2
<1> QED BY <1>4, <1>5, <1>6

LEMMA RecordInv ==
  ASSUME IInv, NEW w \in Worker, Record(w)
  PROVE  /\ IInv'
         /\ jobs[step[w].job].status # "embedded"
         /\ jobs[step[w].job].detail # NULL =>
              jobs'[step[w].job].detail = jobs[step[w].job].detail
<1> DEFINE job == step[w].job
<1>1. Typing'
  BY EndTyping DEF IInv
<1>2. /\ Busy(w) /\ job \in Job /\ step[w] \in Steps /\ jobs[job] \in Rows
      /\ step[w].outcome = "embedded" => step[w].detail # NULL
  BY DEF Record, Busy, IInv, Typing, TypeOK, StepInv
<1>3. /\ jobs[job].status = "processing"
      /\ jobs[job].detail = IF step[w].fetched THEN NULL ELSE step[w].detail
  BY <1>2 DEF IInv, ClaimUndisturbed
<1>4. jobs[job].embedding # NULL => jobs[job].embedding = jobs[job].detail
  BY <1>2 DEF IInv, EmbeddingMatchesDetail
<1>5. /\ jobs'[job] = Recorded(jobs[job], step[w])
      /\ \A k \in Job : k # job => jobs'[k] = jobs[k]
      /\ step'[w] = Idle
      /\ \A v \in Worker : v # w => step'[v] = step[v]
  BY <1>2 DEF Record, IInv, Typing, TypeOK
<1>6. /\ jobs'[job].embedding # NULL =>
             jobs'[job].embedding = jobs'[job].detail
      /\ jobs'[job].status = "embedded" => jobs'[job].embedding # NULL
      /\ jobs[job].detail # NULL => jobs'[job].detail = jobs[job].detail
  BY <1>2, <1>3, <1>4, <1>5, RecordedRow
<1>7. ASSUME NEW v \in Worker, Busy(v)'
      PROVE  /\ v # w /\ Busy(v) /\ step'[v] = step[v]
             /\ step[v].job # job
             /\ jobs'[step[v].job] = jobs[step[v].job]
  <2>1. v # w
    BY <1>5, <1>7, IdleStep DEF Busy
  <2>2. Busy(v) /\ step'[v] = step[v]
    BY <1>5, <1>7, <2>1 DEF Busy
  <2>3. step[v].job \in Job /\ step[v].job # job
    BY <1>2, <2>1, <2>2 DEF IInv, ClaimExclusion, Typing, StepInv
  <2> QED BY <1>5, <2>1, <2>2, <2>3
<1>8. ClaimExclusion'
  BY <1>7 DEF IInv, ClaimExclusion
<1>9. ClaimUndisturbed'
  BY <1>7 DEF IInv, ClaimUndisturbed
<1>10. EmbeddingMatchesDetail'
  BY <1>5, <1>6 DEF IInv, EmbeddingMatchesDetail
<1> QED BY <1>1, <1>3, <1>6, <1>8, <1>9, <1>10 DEF IInv

LEMMA LoseInv ==
  ASSUME IInv, NEW w \in Worker, Lose(w)
  PROVE  IInv'
<1>1. Typing'
  BY EndTyping DEF IInv
<1>2. ASSUME NEW v \in Worker, Busy(v)'
      PROVE  Busy(v) /\ step'[v] = step[v]
  BY <1>2, IdleStep DEF Lose, Busy, IInv, Typing, TypeOK
<1>3. jobs' = jobs
  BY DEF Lose
<1> QED BY <1>1, <1>2, <1>3
        DEF IInv, ClaimExclusion, ClaimUndisturbed, EmbeddingMatchesDetail

LEMMA DiscoverInv ==
  ASSUME IInv, NEW j \in Job, Discover(j)
  PROVE  IInv'
<1>1. Typing'
  BY DiscoverTyping DEF IInv
<1>2. step' = step
  BY DEF Discover
<1>3. /\ jobs'[j].status = "new"
      /\ jobs'[j].detail = jobs[j].detail
      /\ jobs'[j].embedding = jobs[j].embedding
      /\ \A k \in Job : k # j => jobs'[k] = jobs[k]
  BY DEF Discover, IInv, Typing, TypeOK, Rows
<1>4. ASSUME NEW v \in Worker, Busy(v)
      PROVE  step[v].job \in Job /\ step[v].job # j
  BY <1>4 DEF Discover, IInv, ClaimUndisturbed, Typing, StepInv
<1> QED BY <1>1, <1>2, <1>3, <1>4
        DEF IInv, ClaimExclusion, ClaimUndisturbed, EmbeddingMatchesDetail,
            Busy

LEMMA TickInv ==
  ASSUME IInv, StepsEndInTime, Tick
  PROVE  IInv'
<1>1. Typing'
  BY TickTyping DEF IInv
<1>2. ASSUME NEW j \in Job
      PROVE  /\ jobs'[j].status = jobs[j].status
             /\ jobs'[j].attempts = jobs[j].attempts
             /\ jobs'[j].detail = jobs[j].detail
             /\ jobs'[j].embedding = jobs[j].embedding
             /\ jobs'[j].claimedAgo = Older(jobs[j].claimedAgo)
  BY DEF Tick, IInv, Typing, TypeOK, Rows
<1>3. ASSUME NEW w \in Worker
      PROVE  step'[w] = Aged(step[w]) /\ step[w] \in Steps
  BY DEF Tick, IInv, Typing, TypeOK
<1>4. ASSUME NEW w \in Worker, Busy(w)'
      PROVE  /\ Busy(w)
             /\ step'[w] = [step[w] EXCEPT !.age = @ + 1]
             /\ step'[w].age = step[w].age + 1
             /\ step[w].age \in Nat /\ step[w].age <= StaleTimeout
  <2>1. Busy(w)
    BY <1>3, <1>4 DEF Busy, Aged
  <2>2. step'[w] = [step[w] EXCEPT !.age = @ + 1]
    BY <1>3, <2>1 DEF Busy, Aged
  <2>3. step[w].age \in 0..StepBound
    BY <1>3 DEF Steps
  <2> QED BY <1>3, <2>1, <2>2, <2>3, TimeAssumption
          DEF StepsEndInTime, Steps
<1>5. ClaimExclusion'
  BY <1>3, <1>4 DEF IInv, ClaimExclusion, Steps
<1>6. ClaimUndisturbed'
  <2> SUFFICES ASSUME NEW w \in Worker, Busy(w)'
               PROVE  LET s == step'[w]
                          row == jobs'[s.job]
                      IN  /\ row.status = "processing"
                          /\ row.claimedAgo = s.age
                          /\ row.attempts = s.attempts
                          /\ row.detail = IF s.fetched THEN NULL ELSE s.detail
    BY DEF ClaimUndisturbed
  <2> DEFINE job == step[w].job
  <2>1. /\ step'[w].job = job
        /\ step'[w].attempts = step[w].attempts
        /\ step'[w].detail = step[w].detail
        /\ step'[w].fetched = step[w].fetched
    BY <1>3, <1>4 DEF Steps
  <2>2. /\ job \in Job
        /\ jobs[job].status = "processing"
        /\ jobs[job].claimedAgo = step[w].age
        /\ jobs[job].attempts = step[w].attempts
        /\ jobs[job].detail = IF step[w].fetched THEN NULL ELSE step[w].detail
    BY <1>4 DEF IInv, ClaimUndisturbed, Typing, StepInv
  <2>3. Older(step[w].age) = step'[w].age
    <3>1. /\ step'[w].age = step[w].age + 1
          /\ step[w].age \in Nat /\ step[w].age <= StaleTimeout
      BY <1>4
    <3>2. step[w].age \in 0..StaleTimeout
      BY <3>1, TimeAssumption
    <3> QED BY <3>1, <3>2 DEF Older
  <2> QED BY <1>2, <2>1, <2>2, <2>3
<1>7. EmbeddingMatchesDetail'
  BY <1>2 DEF IInv, EmbeddingMatchesDetail
<1> QED BY <1>1, <1>5, <1>6, <1>7 DEF IInv

LEMMA InvNext ==
  ASSUME StepsEndInTime
  PROVE  IInv /\ [Next]_vars => IInv'
<1> SUFFICES ASSUME IInv, [Next]_vars PROVE IInv'
  OBVIOUS
<1>1. ASSUME NEW j \in Job, Discover(j) PROVE IInv'
  BY <1>1, DiscoverInv
<1>2. ASSUME NEW w \in Worker, Work(w) \/ Cancel(w) \/ Lose(w) PROVE IInv'
  BY <1>2, ClaimInv, WorkInv, RecordInv, LoseInv DEF Work
<1>3. CASE Tick
  BY <1>3, TickInv
<1>4. CASE UNCHANGED vars
  BY <1>4, TypingNext DEF vars, IInv, ClaimExclusion, ClaimUndisturbed,
                          EmbeddingMatchesDetail, Busy
<1> QED BY <1>1, <1>2, <1>3, <1>4 DEF Next

LEMMA Invariance ==
  ASSUME StepsEndInTime
  PROVE  Spec => []IInv
BY InvInit, InvNext, PTL DEF Spec

(* As long as no step outlasts the stale timeout, no two workers are ever  *)
(* in a step for the same job, however many of them there are, crash or    *)
(* are shut down.                                                          *)
THEOREM Exclusion ==
  ASSUME StepsEndInTime
  PROVE  Spec => []ClaimExclusion
<1>1. IInv => ClaimExclusion
  BY DEF IInv
<1> QED BY <1>1, Invariance, PTL

(* In the same regime the row a worker writes its outcome over is still    *)
(* the row it claimed.                                                     *)
THEOREM Undisturbed ==
  ASSUME StepsEndInTime
  PROVE  Spec => []ClaimUndisturbed
<1>1. IInv => ClaimUndisturbed
  BY DEF IInv
<1> QED BY <1>1, Invariance, PTL

(* In the same regime a stored vector belongs to the stored description.   *)
THEOREM Matching ==
  ASSUME StepsEndInTime
  PROVE  Spec => []EmbeddingMatchesDetail
<1>1. IInv => EmbeddingMatchesDetail
  BY DEF IInv
<1> QED BY <1>1, Invariance, PTL

-----------------------------------------------------------------------------
(* What no step may do.                                                    *)

LEMMA StepKeeps ==
  ASSUME IInv, StepsEndInTime, [Next]_vars, NEW j \in Job
  PROVE  /\ jobs[j].status = "embedded" => jobs'[j].status = "embedded"
         /\ jobs[j].detail # NULL => jobs'[j].detail = jobs[j].detail
<1>1. ASSUME NEW k \in Job, Discover(k)
      PROVE  /\ jobs[j].status = "embedded" => jobs'[j].status = "embedded"
             /\ jobs'[j].detail = jobs[j].detail
  BY <1>1 DEF Discover, IInv, Typing, TypeOK, Rows
<1>2. ASSUME NEW w \in Worker, Claim(w)
      PROVE  /\ jobs[j].status = "embedded" => jobs'[j].status = "embedded"
             /\ jobs'[j].detail = jobs[j].detail
  <2>1. PICK k \in Job : /\ Claimable(jobs[k])
                         /\ jobs' = [jobs EXCEPT ![k] = Claimed(@)]
    BY <1>2 DEF Claim, FirstToClaim
  <2>2. jobs[k].status # "embedded"
    BY <2>1 DEF Claimable, Ready
  <2>3. Claimed(jobs[k]).detail = jobs[k].detail
    BY DEF Claimed, IInv, Typing, TypeOK, Rows
  <2> QED BY <2>1, <2>2, <2>3 DEF IInv, Typing, TypeOK
<1>3. ASSUME NEW w \in Worker, Record(w)
      PROVE  /\ jobs[j].status = "embedded" => jobs'[j].status = "embedded"
             /\ jobs[j].detail # NULL => jobs'[j].detail = jobs[j].detail
  <2>1. j # step[w].job => jobs'[j] = jobs[j]
    BY <1>3 DEF Record, IInv, Typing, TypeOK
  <2> QED BY <1>3, <2>1, RecordInv
<1>4. ASSUME NEW w \in Worker,
             FetchDetails(w) \/ CreateEmbedding(w) \/ Cancel(w) \/ Lose(w)
      PROVE  jobs' = jobs
  BY <1>4 DEF FetchDetails, CreateEmbedding, Cancel, Lose
<1>5. CASE Tick
  BY <1>5 DEF Tick, IInv, Typing, TypeOK, Rows
<1>6. CASE UNCHANGED vars
  BY <1>6 DEF vars
<1> QED BY <1>1, <1>2, <1>3, <1>4, <1>5, <1>6 DEF Next, Work

(* An embedded job is never taken back: not by a late outcome, a retry or  *)
(* a reclaim.                                                              *)
THEOREM Finality ==
  ASSUME StepsEndInTime
  PROVE  Spec => EmbeddedIsFinal
<1>1. IInv /\ [Next]_vars =>
        [\A j \in Job : jobs[j].status = "embedded" =>
           jobs'[j].status = "embedded"]_vars
  BY StepKeeps
<1> QED BY <1>1, Invariance, PTL DEF Spec, EmbeddedIsFinal

(* A stored description is never replaced.                                 *)
THEOREM DescriptionsKept ==
  ASSUME StepsEndInTime
  PROVE  Spec => DescriptionKept
<1>1. IInv /\ [Next]_vars =>
        [\A j \in Job : jobs[j].detail # NULL =>
           jobs'[j].detail = jobs[j].detail]_vars
  BY StepKeeps
<1> QED BY <1>1, Invariance, PTL DEF Spec, DescriptionKept

-----------------------------------------------------------------------------
(* The queue implements JobLifecycle.                                      *)

ChargedOf(j) == IF Held(j) THEN jobs[j].attempts - 1 ELSE jobs[j].attempts

(* A step that keeps every job's stage and charge, and loses no claim, is  *)
(* one the lifecycle does not see.                                         *)
LEMMA Stutter ==
  ASSUME \A j \in Job : StageOf(jobs'[j]) = StageOf(jobs[j]),
         \A j \in Job : ChargedOf(j)' = ChargedOf(j),
         lost' = lost
  PROVE  UNCHANGED Lifecycle!lifecycle
<1>1. stage' = stage
  BY DEF stage
<1>2. charged' = charged
  BY DEF charged, ChargedOf
<1> QED BY <1>1, <1>2 DEF Lifecycle!lifecycle

(* A step that only concerns job j.                                        *)
LEMMA OneJob ==
  ASSUME NEW j \in Job,
         \A k \in Job : k # j => /\ StageOf(jobs'[k]) = StageOf(jobs[k])
                                 /\ ChargedOf(k)' = ChargedOf(k)
  PROVE  /\ stage' = [stage EXCEPT ![j] = StageOf(jobs'[j])]
         /\ charged' = [charged EXCEPT ![j] = ChargedOf(j)']
         /\ stage[j] = StageOf(jobs[j]) /\ charged[j] = ChargedOf(j)
BY DEF stage, charged, ChargedOf

LEMMA LifecycleInit == Init => Lifecycle!Init
<1> SUFFICES ASSUME Init PROVE Lifecycle!Init
  OBVIOUS
<1>1. stage = [j \in Job |-> "absent"]
  BY DEF Init, stage, StageOf, NoRow
<1>2. charged = [j \in Job |-> 0]
  BY DEF Init, charged, Held, Busy, Idle, NoRow
<1> QED BY <1>1, <1>2 DEF Init, Lifecycle!Init

LEMMA ClaimStutters ==
  ASSUME IInv, StepsEndInTime, NEW w \in Worker, Claim(w)
  PROVE  UNCHANGED Lifecycle!lifecycle
<1>1. PICK j \in Job :
        /\ Claimable(jobs[j])
        /\ jobs' = [jobs EXCEPT ![j] = Claimed(@)]
        /\ step' = [step EXCEPT ![w] = Started(j, Claimed(jobs[j]))]
  BY DEF Claim, FirstToClaim
<1>2. jobs[j] \in Rows /\ jobs[j].attempts \in Nat /\ ~Busy(w)
  BY DEF IInv, Typing, TypeOK, Rows, Claim
<1>3. /\ Claimed(jobs[j]).status = "processing"
      /\ Claimed(jobs[j]).attempts = jobs[j].attempts + 1
  BY <1>2 DEF Claimed, Rows
<1>4. /\ step'[w] = Started(j, Claimed(jobs[j]))
      /\ \A v \in Worker : v # w => step'[v] = step[v]
      /\ jobs'[j] = Claimed(jobs[j])
      /\ \A k \in Job : k # j => jobs'[k] = jobs[k]
  BY <1>1 DEF IInv, Typing, TypeOK
<1>5. Busy(w)' /\ step'[w].job = j
  BY <1>4 DEF Busy, Started
<1>6. ~Held(j) /\ Held(j)'
  BY <1>1, <1>5, HeldNotClaimable DEF Held
<1>7. \A k \in Job : k # j => (Held(k)' <=> Held(k))
  BY <1>2, <1>4, <1>5 DEF Held, Busy
<1>8. StageOf(jobs'[j]) = StageOf(jobs[j])
  BY <1>1, <1>3, <1>4 DEF StageOf, Claimable, Ready
<1>9. ChargedOf(j)' = ChargedOf(j)
  BY <1>2, <1>3, <1>4, <1>6 DEF ChargedOf
<1> QED BY <1>4, <1>7, <1>8, <1>9, Stutter DEF ChargedOf, Claim

LEMMA WorkStutters ==
  ASSUME IInv, NEW w \in Worker,
         FetchDetails(w) \/ CreateEmbedding(w) \/ Cancel(w)
  PROVE  UNCHANGED Lifecycle!lifecycle
<1>1. jobs' = jobs /\ lost' = lost
  BY DEF FetchDetails, CreateEmbedding, Cancel
<1>2. /\ Busy(w) /\ Busy(w)' /\ step'[w].job = step[w].job
      /\ \A v \in Worker : v # w => step'[v] = step[v]
  <2>1. PICK s : /\ step' = [step EXCEPT ![w] = s]
                 /\ \/ \E t : s = Described(step[w], t)
                    \/ \E outcome : s = Finished(step[w], outcome)
    BY DEF FetchDetails, CreateEmbedding, Cancel, FinishWork
  <2>2. step'[w] = s /\ step[w] \in Steps
    BY <2>1 DEF IInv, Typing, TypeOK
  <2>3. s.phase # "idle" /\ s.job = step[w].job
    BY <2>1, <2>2 DEF Described, Finished, Steps
  <2>4. Busy(w)
    BY DEF FetchDetails, CreateEmbedding, Cancel, Busy
  <2> QED BY <2>1, <2>2, <2>3, <2>4 DEF Busy, IInv, Typing, TypeOK
<1>3. \A k \in Job : Held(k)' <=> Held(k)
  BY <1>2 DEF Held, Busy
<1> QED BY <1>1, <1>3, Stutter DEF ChargedOf

LEMMA TickStutters ==
  ASSUME IInv, Tick
  PROVE  UNCHANGED Lifecycle!lifecycle
<1>1. ASSUME NEW j \in Job
      PROVE  /\ jobs'[j].status = jobs[j].status
             /\ jobs'[j].attempts = jobs[j].attempts
             /\ jobs'[j].lastError = jobs[j].lastError
  BY DEF Tick, IInv, Typing, TypeOK, Rows
<1>2. ASSUME NEW w \in Worker
      PROVE  /\ step'[w].phase = step[w].phase
             /\ step'[w].job = step[w].job
  <2>1. step'[w] = Aged(step[w]) /\ step[w] \in Steps
    BY DEF Tick, IInv, Typing, TypeOK
  <2> QED BY <2>1 DEF Aged, Steps
<1>3. \A j \in Job : Held(j)' <=> Held(j)
  BY <1>2 DEF Held, Busy
<1>4. \A j \in Job : StageOf(jobs'[j]) = StageOf(jobs[j])
  BY <1>1 DEF StageOf
<1>5. \A j \in Job : ChargedOf(j)' = ChargedOf(j)
  BY <1>1, <1>3 DEF ChargedOf
<1> QED BY <1>4, <1>5, Stutter DEF Tick

LEMMA DiscoverRefines ==
  ASSUME IInv, NEW j \in Job, Discover(j)
  PROVE  Lifecycle!Discover(j)
<1>1. /\ jobs[j].status = "absent" /\ jobs'[j].status = "new"
      /\ jobs'[j].attempts = jobs[j].attempts
      /\ \A k \in Job : k # j => jobs'[k] = jobs[k]
      /\ step' = step /\ lost' = lost
  BY DEF Discover, IInv, Typing, TypeOK, Rows
<1>2. \A k \in Job : Held(k)' <=> Held(k)
  BY <1>1 DEF Held, Busy
<1>3. \A k \in Job : ChargedOf(k)' = ChargedOf(k)
  BY <1>1, <1>2 DEF ChargedOf
<1>4. StageOf(jobs[j]) = "absent" /\ StageOf(jobs'[j]) = "open"
  BY <1>1 DEF StageOf
<1>5. stage[j] = "absent" /\ stage' = [stage EXCEPT ![j] = "open"]
  BY <1>1, <1>3, <1>4, OneJob
<1>6. charged' = charged
  BY <1>3 DEF charged, ChargedOf
<1> QED BY <1>1, <1>5, <1>6 DEF Lifecycle!Discover

(* The end of a step frees its job, and leaves every other job alone.      *)
LEMMA EndFrees ==
  ASSUME IInv, NEW w \in Worker, Record(w) \/ Lose(w),
         NEW j, j = step[w].job
  PROVE  /\ j \in Job /\ Held(j) /\ ~Held(j)'
         /\ StageOf(jobs[j]) = "open"
         /\ jobs[j].attempts = step[w].attempts
         /\ step[w].attempts \in Nat \ {0}
         /\ \A k \in Job : k # j =>
              /\ StageOf(jobs'[k]) = StageOf(jobs[k])
              /\ ChargedOf(k)' = ChargedOf(k)
<1>1. Busy(w)
  BY DEF Record, Lose, Busy
<1>2. step'[w] = Idle /\ \A v \in Worker : v # w => step'[v] = step[v]
  BY DEF Record, Lose, IInv, Typing, TypeOK
<1>3. ~Busy(w)'
  BY <1>2, IdleStep DEF Busy
<1>4. \A k \in Job : k # j => jobs'[k] = jobs[k]
  BY DEF Record, Lose, IInv, Typing, TypeOK
<1>5. ~Held(j)'
  BY <1>1, <1>2, <1>3 DEF Held, Busy, IInv, ClaimExclusion
<1>6. \A k \in Job : k # j => (Held(k)' <=> Held(k))
  BY <1>1, <1>2, <1>3 DEF Held, Busy
<1>7. /\ jobs[j].status = "processing"
      /\ jobs[j].attempts = step[w].attempts
      /\ j \in Job /\ step[w].attempts \in Nat \ {0}
  BY <1>1 DEF IInv, ClaimUndisturbed, Typing, StepInv
<1>8. StageOf(jobs[j]) = "open"
  BY <1>7 DEF StageOf
<1>9. \A k \in Job : k # j => ChargedOf(k)' = ChargedOf(k)
  BY <1>4, <1>6 DEF ChargedOf
<1> QED BY <1>1, <1>4, <1>5, <1>7, <1>8, <1>9 DEF Held

LEMMA LoseRefines ==
  ASSUME IInv, NEW w \in Worker, Lose(w)
  PROVE  \E j \in Job : Lifecycle!LoseTry(j)
<1>1. PICK j : j = step[w].job
  OBVIOUS
<1>2. /\ j \in Job /\ Held(j) /\ ~Held(j)' /\ StageOf(jobs[j]) = "open"
      /\ jobs[j].attempts \in Nat
      /\ \A k \in Job : k # j => /\ StageOf(jobs'[k]) = StageOf(jobs[k])
                                 /\ ChargedOf(k)' = ChargedOf(k)
  BY <1>1, EndFrees
<1>3. jobs' = jobs
  BY DEF Lose
<1>4. ChargedOf(j)' = ChargedOf(j) + 1
  BY <1>2, <1>3 DEF ChargedOf
<1>5. /\ stage[j] = "open"
      /\ charged' = [charged EXCEPT ![j] = charged[j] + 1]
  BY <1>2, <1>4, OneJob
<1>6. stage' = stage
  BY <1>3 DEF stage
<1> QED BY <1>2, <1>5, <1>6 DEF Lose, Lifecycle!LoseTry, Lifecycle!ChargeTry

(* How the recorded row is read by the lifecycle.                          *)
LEMMA RecordedStage ==
  ASSUME NEW row \in Rows, NEW s \in Steps, row.attempts = s.attempts,
         s.outcome # "none"
  PROVE  LET new == Recorded(row, s)
         IN  \/ /\ s.outcome = "cancelled"
                /\ StageOf(new) = "open" /\ new.attempts = s.attempts - 1
             \/ /\ StageOf(new) \in {"embedded", "rejected"}
                /\ new.attempts = s.attempts
             \/ /\ StageOf(new) = "exhausted" /\ s.attempts >= MaxAttempts
                /\ new.attempts = s.attempts
             \/ /\ StageOf(new) = "open" /\ ~(s.attempts >= MaxAttempts)
                /\ new.attempts = s.attempts
<1> DEFINE kept == Kept(row, s)
<1>1. kept \in Rows
  BY KeptType
<1>2. kept.attempts = s.attempts
  BY DEF Kept, Rows
<1>3. ReadyStatus(s) \in {"new", "described"}
  BY DEF ReadyStatus
<1> HIDE DEF kept
<1>4. CASE s.outcome = "embedded"
  <2>1. Recorded(row, s) = [kept EXCEPT !.status = "embedded",
              !.embedding = s.detail, !.dueIn = NULL, !.lastError = ""]
    BY <1>4 DEF Recorded, kept
  <2>2. /\ Recorded(row, s).status = "embedded"
        /\ Recorded(row, s).attempts = s.attempts
    BY <1>1, <1>2, <2>1 DEF Rows
  <2> QED BY <2>2 DEF StageOf
<1>5. CASE s.outcome = "cancelled"
  <2>1. Recorded(row, s) = [kept EXCEPT !.status = ReadyStatus(s),
                                        !.attempts = s.attempts - 1]
    BY <1>5 DEF Recorded, kept
  <2>2. /\ Recorded(row, s).status \in {"new", "described"}
        /\ Recorded(row, s).attempts = s.attempts - 1
    BY <1>1, <1>3, <2>1 DEF Rows
  <2> QED BY <1>5, <2>2 DEF StageOf
<1>6. CASE s.outcome \notin {"embedded", "cancelled"}
  <2>1. Recorded(row, s) = ApplyFailure(kept, s)
    BY <1>6 DEF Recorded, kept
  <2>2. CASE s.outcome = "permanent"
    <3>1. /\ Recorded(row, s).status = "failed"
          /\ Recorded(row, s).lastError = "permanent"
          /\ Recorded(row, s).attempts = s.attempts
      BY <1>1, <1>2, <2>1, <2>2 DEF ApplyFailure, Rows
    <3> QED BY <3>1 DEF StageOf
  <2>3. CASE s.outcome # "permanent" /\ s.attempts >= MaxAttempts
    <3>1. /\ Recorded(row, s).status = "failed"
          /\ Recorded(row, s).lastError = "transient"
          /\ Recorded(row, s).attempts = s.attempts
      BY <1>1, <1>2, <2>1, <2>3 DEF ApplyFailure, Exhausted, Rows
    <3> QED BY <2>3, <3>1 DEF StageOf
  <2>4. CASE s.outcome # "permanent" /\ ~(s.attempts >= MaxAttempts)
    <3>1. /\ Recorded(row, s).status \in {"new", "described"}
          /\ Recorded(row, s).attempts = s.attempts
      BY <1>1, <1>2, <1>3, <2>1, <2>4 DEF ApplyFailure, Exhausted, Rows
    <3> QED BY <2>4, <3>1 DEF StageOf
  <2> QED BY <2>2, <2>3, <2>4
<1> QED BY <1>4, <1>5, <1>6

LEMMA RecordRefines ==
  ASSUME IInv, NEW w \in Worker, Record(w)
  PROVE  Lifecycle!Next \/ UNCHANGED Lifecycle!lifecycle
<1>1. PICK j, n, new : /\ j = step[w].job /\ n = step[w].attempts
                       /\ new = Recorded(jobs[j], step[w])
  OBVIOUS
<1>2. /\ j \in Job /\ StageOf(jobs[j]) = "open" /\ Held(j) /\ ~Held(j)'
      /\ jobs[j].attempts = n /\ n \in Nat \ {0}
      /\ \A k \in Job : k # j => /\ StageOf(jobs'[k]) = StageOf(jobs[k])
                                 /\ ChargedOf(k)' = ChargedOf(k)
  BY <1>1, EndFrees
<1>3. /\ jobs[j] \in Rows /\ step[w] \in Steps
      /\ step[w].outcome # "none" /\ lost' = lost
  BY <1>2 DEF Record, IInv, Typing, TypeOK, StepInv, Busy
<1>4. jobs'[j] = new
  BY <1>1, <1>2 DEF Record, IInv, Typing, TypeOK
<1>5. ChargedOf(j) = n - 1 /\ ChargedOf(j)' = new.attempts
  BY <1>2, <1>4 DEF ChargedOf
<1>6. /\ stage' = [stage EXCEPT ![j] = StageOf(new)] /\ stage[j] = "open"
      /\ charged' = [charged EXCEPT ![j] = new.attempts]
      /\ charged[j] = n - 1
  BY <1>2, <1>4, <1>5, OneJob
<1>7. \/ StageOf(new) = "open" /\ new.attempts = n - 1
      \/ /\ new.attempts = n
         /\ \/ StageOf(new) \in {"embedded", "rejected"}
            \/ StageOf(new) = "exhausted" /\ n >= MaxAttempts
            \/ StageOf(new) = "open" /\ ~(n >= MaxAttempts)
  BY <1>1, <1>2, <1>3, RecordedStage
<1>8. CASE StageOf(new) = "open" /\ new.attempts = n - 1
  <2>1. \A k \in Job : /\ StageOf(jobs'[k]) = StageOf(jobs[k])
                       /\ ChargedOf(k)' = ChargedOf(k)
    BY <1>2, <1>4, <1>5, <1>8
  <2> QED BY <1>3, <2>1, Stutter
<1>9. CASE new.attempts = n
  <2>1. Lifecycle!ChargeTry(j)
    <3>1. charged[j] + 1 = n
      BY <1>2, <1>6
    <3>2. charged' = [charged EXCEPT ![j] = charged[j] + 1]
      BY <1>6, <1>9, <3>1
    <3> QED BY <1>6, <3>2 DEF Lifecycle!ChargeTry
  <2>2. CASE \/ StageOf(new) \in {"embedded", "rejected"}
             \/ StageOf(new) = "exhausted" /\ n >= MaxAttempts
    <3>1. Lifecycle!Settle(j, StageOf(new))
      BY <1>2, <1>3, <1>6, <2>1, <2>2 DEF Lifecycle!Settle
    <3> QED BY <1>2, <2>2, <3>1 DEF Lifecycle!Next
  <2>3. CASE StageOf(new) = "open" /\ ~(n >= MaxAttempts)
    <3>1. stage' = stage
      BY <1>6, <2>3 DEF stage
    <3>2. Lifecycle!Retry(j)
      BY <1>2, <1>3, <1>6, <2>1, <2>3, <3>1, CountAssumption
         DEF Lifecycle!Retry
    <3> QED BY <1>2, <3>2 DEF Lifecycle!Next
  <2> QED BY <1>2, <1>7, <1>9, <2>2, <2>3
<1> QED BY <1>7, <1>8, <1>9

LEMMA NextRefines ==
  ASSUME StepsEndInTime
  PROVE  IInv /\ [Next]_vars => [Lifecycle!Next]_(Lifecycle!lifecycle)
<1> SUFFICES ASSUME IInv, [Next]_vars
             PROVE  Lifecycle!Next \/ UNCHANGED Lifecycle!lifecycle
  OBVIOUS
<1>1. ASSUME NEW j \in Job, Discover(j) PROVE Lifecycle!Next
  BY <1>1, DiscoverRefines DEF Lifecycle!Next
<1>2. ASSUME NEW w \in Worker, Work(w) \/ Cancel(w) \/ Lose(w)
      PROVE  Lifecycle!Next \/ UNCHANGED Lifecycle!lifecycle
  <2>1. CASE Lose(w)
    BY <2>1, LoseRefines DEF Lifecycle!Next
  <2> QED BY <1>2, <2>1, ClaimStutters, WorkStutters, RecordRefines DEF Work
<1>3. CASE Tick
  BY <1>3, TickStutters
<1>4. CASE UNCHANGED vars
  <2>1. \A j \in Job : Held(j)' <=> Held(j)
    BY <1>4 DEF vars, Held, Busy
  <2>2. \A j \in Job : ChargedOf(j)' = ChargedOf(j)
    BY <1>4, <2>1 DEF vars, ChargedOf
  <2> QED BY <1>4, <2>2, Stutter DEF vars
<1> QED BY <1>1, <1>2, <1>3, <1>4 DEF Next

(* Claims, copies, unfenced writes, crashes and shutdowns together         *)
(* implement the lifecycle: each job is settled once, a failing one is     *)
(* given up on exactly when its charged tries reach MaxAttempts, and a     *)
(* shutdown is never charged.                                              *)
THEOREM Refinement ==
  ASSUME StepsEndInTime
  PROVE  Spec => ImplementsLifecycle
BY LifecycleInit, NextRefines, Invariance, PTL
   DEF Spec, ImplementsLifecycle, Lifecycle!Spec
=============================================================================
