-------------------------- MODULE Evaluation_proofs --------------------------
(***************************************************************************)
(* Proofs about Evaluation, for any results, workers, scores and bounds.   *)
(* Its types, the score shown with a result and the finality of an         *)
(* account's deletion need no premise on time, because the outcome is      *)
(* written in one transaction that looks whether its row is still there.   *)
(***************************************************************************)
EXTENDS Evaluation, TLAPS

-----------------------------------------------------------------------------
(* The delay before another attempt, and the clock.                        *)

(* A delay is capped, so it is a legal next attempt.                       *)
LEMMA BackoffType ==
  ASSUME NEW n \in Nat
  PROVE  Backoff(n) \in 0..MaxBackoff
BY TimeAssumption DEF Backoff

LEMMA OlderType ==
  ASSUME NEW age \in Ages
  PROVE  Older(age) \in Ages
BY TimeAssumption DEF Older, Ages

LEMMA SoonerType ==
  ASSUME NEW bound \in Nat, NEW wait \in {NULL} \union 0..bound
  PROVE  Sooner(wait) \in {NULL} \union 0..bound
BY TimeAssumption DEF Sooner

LEMMA AgesFacts == NULL \in Ages /\ 0 \in Ages
BY TimeAssumption DEF Ages

(* A busy worker has a result and has counted an attempt; it has a CV once *)
(* it matches, and an outcome exactly when it is about to record one.      *)
StepInv ==
  \A w \in Worker : Busy(w) =>
    /\ step[w].result \in Result
    /\ step[w].attempts \in Nat \ {0}
    /\ step[w].phase = "recording" <=> step[w].outcome # "none"
    /\ step[w].phase = "matching" => step[w].cv # NULL
    /\ step[w].outcome = "scored" => step[w].cv # NULL

Typing ==
  /\ TypeOK
  /\ StepInv
  /\ uploaded + uploading <= MaxUploads

-----------------------------------------------------------------------------
(* What the operators return.                                              *)

LEMMA CVFacts == CV \subseteq Nat \ {0} /\ NULL \notin CV
BY UserAssumption, TimeAssumption DEF CV

LEMMA NoRowType == NoRow \in Rows
BY AgesFacts DEF NoRow, Rows, Status

LEMMA IdleStep == Idle \in Steps /\ Idle.phase = "idle"
<1>1. 0 \in 0..StepBound
  BY TimeAssumption
<1>2. "idle" \in Phase /\ "none" \in Outcome
  BY DEF Phase, Outcome
<1> QED BY <1>1, <1>2, ScoreAssumption DEF Idle, Steps

LEMMA ClaimedType ==
  ASSUME NEW row \in Rows
  PROVE  /\ Claimed(row) \in Rows
         /\ Claimed(row).attempts \in Nat \ {0}
         /\ Claimed(row).attempts = row.attempts + 1
         /\ Claimed(row).status = "processing"
         /\ Claimed(row).claimedAgo = 0
         /\ Claimed(row).evaluation = row.evaluation
         /\ Claimed(row).score = row.score
<1>1. row.attempts \in Nat
  BY DEF Rows
<1>2. row.attempts + 1 \in Nat \ {0}
  BY <1>1
<1>3. 0 \in Ages /\ "processing" \in Status
  BY AgesFacts DEF Status
<1> QED BY <1>2, <1>3 DEF Claimed, Rows

LEMMA StartedType ==
  ASSUME NEW r \in Result, NEW row \in Rows
  PROVE  /\ Started(r, row) \in Steps
         /\ Started(r, row).phase = "selecting"
         /\ Started(r, row).result = r
         /\ Started(r, row).attempts = row.attempts
         /\ Started(r, row).cv = NULL
         /\ Started(r, row).age = 0
         /\ Started(r, row).outcome = "none"
<1>1. "selecting" \in Phase /\ row.attempts \in Nat
  BY DEF Phase, Rows
<1>2. Idle.cv = NULL /\ Idle.age = 0 /\ Idle.outcome = "none"
  BY DEF Idle
<1> QED BY <1>1, <1>2, IdleStep DEF Started, Steps

(* Choosing a CV changes nothing else of a step.                           *)
LEMMA ChosenType ==
  ASSUME NEW s \in Steps, NEW c \in CV
  PROVE  /\ Chosen(s, c) \in Steps
         /\ Chosen(s, c).phase = "matching"
         /\ Chosen(s, c).result = s.result
         /\ Chosen(s, c).attempts = s.attempts
         /\ Chosen(s, c).cv = c
         /\ Chosen(s, c).age = s.age
         /\ Chosen(s, c).outcome = s.outcome
BY DEF Chosen, Steps, Phase

LEMMA JudgementType ==
  ASSUME NEW s \in Steps
  PROVE  /\ Judgement(s) \in Evaluations
         /\ Judgement(s) # NULL
         /\ Judgement(s).completed <=> s.outcome = "scored"
         /\ CopiedScore(Judgement(s)) \in {NULL} \union Score
<1>1. s.score \in Score /\ 0 \in Score
  BY ScoreAssumption DEF Steps
<1>2. Judgement(s) \in Evaluations
  BY <1>1 DEF Judgement, Evaluations
<1>3. Judgement(s) # NULL
  BY <1>2, ScoreAssumption DEF Evaluations
<1> QED BY <1>1, <1>2, <1>3 DEF Judgement, CopiedScore

(* The row of a step's outcome: what it was except for the queue's columns *)
(* and, if a CV was matched, the current evaluation and its score.         *)
LEMMA SettledType ==
  ASSUME NEW row \in Rows, NEW s \in Steps, s.attempts \in Nat \ {0}
  PROVE  /\ Settled(row, s) \in Rows
         /\ Settled(row, s).evaluation = row.evaluation
         /\ Settled(row, s).score = row.score
         /\ Settled(row, s).status \in {"pending", "done", "failed"}
         /\ Settled(row, s).status = "done" => s.outcome = "scored"
<1> DEFINE free == [row EXCEPT !.claimedAgo = NULL]
           released ==
             [free EXCEPT !.status = "pending", !.attempts = s.attempts - 1]
<1>1. /\ free \in Rows
      /\ free.evaluation = row.evaluation /\ free.score = row.score
  BY AgesFacts DEF Rows
<1>2. s.attempts - 1 \in Nat
  BY DEF Steps
<1>3. {"pending", "done", "failed"} \subseteq Status
  BY DEF Status
<1>4. NoCVRetry \in 0..NoCVRetry /\ Backoff(s.attempts) \in 0..MaxBackoff
  BY UserAssumption, BackoffType
<1> HIDE DEF free
<1>5. CASE s.outcome = "cancelled"
  <2>1. Settled(row, s) = released
    BY <1>5 DEF Settled, free
  <2> QED BY <1>1, <1>2, <1>3, <2>1 DEF Rows
<1>6. CASE s.outcome = "noCV"
  <2>1. Settled(row, s) = [released EXCEPT !.dueIn = NoCVRetry]
    BY <1>6 DEF Settled, free
  <2> QED BY <1>1, <1>2, <1>3, <1>4, <2>1 DEF Rows
<1>7. CASE s.outcome = "scored"
  <2>1. Settled(row, s) = [free EXCEPT !.status = "done", !.dueIn = NULL]
    BY <1>7 DEF Settled, free
  <2> QED BY <1>1, <1>3, <1>7, <2>1 DEF Rows
<1>8. CASE s.outcome \notin {"cancelled", "noCV", "scored"}
  <2>1. Settled(row, s) = ApplyFailure(free, s.attempts)
    BY <1>8 DEF Settled, free
  <2> QED BY <1>1, <1>3, <1>4, <2>1 DEF ApplyFailure, Rows
<1> QED BY <1>5, <1>6, <1>7, <1>8

LEMMA RecordedType ==
  ASSUME NEW row \in Rows, NEW s \in Steps, s.attempts \in Nat \ {0}
  PROVE  /\ Recorded(row, s) \in Rows
         /\ Recorded(row, s).status \in {"pending", "done", "failed"}
         /\ Recorded(row, s).status = "done" => s.outcome = "scored"
         /\ Recorded(row, s).evaluation =
              IF s.cv = NULL THEN row.evaluation ELSE s.cv
         /\ Recorded(row, s).score =
              IF s.cv = NULL THEN row.score ELSE CopiedScore(Judgement(s))
<1>1. /\ Settled(row, s) \in Rows
      /\ s.cv \in {NULL} \union CV
      /\ CopiedScore(Judgement(s)) \in {NULL} \union Score
  BY SettledType, JudgementType DEF Steps
<1>2. CASE s.cv = NULL
  BY <1>2, SettledType DEF Recorded
<1>3. CASE s.cv # NULL
  <2> DEFINE settled == Settled(row, s)
             copied == CopiedScore(Judgement(s))
  <2>1. Recorded(row, s) =
          [settled EXCEPT !.evaluation = s.cv, !.score = copied]
    BY <1>3 DEF Recorded
  <2>2. /\ settled.status \in {"pending", "done", "failed"}
        /\ settled.status = "done" => s.outcome = "scored"
    BY SettledType
  <2>3. settled \in Rows /\ copied \in {NULL} \union Score
    BY <1>1
  <2> HIDE DEF settled, copied
  <2>4. /\ Recorded(row, s) \in Rows
        /\ Recorded(row, s).status = settled.status
        /\ Recorded(row, s).evaluation = s.cv
        /\ Recorded(row, s).score = copied
    BY <1>1, <2>1, <2>3 DEF Rows
  <2> QED BY <1>3, <2>2, <2>4 DEF copied
<1> QED BY <1>2, <1>3

(* A tick ages a claim and brings a retry nearer, and leaves the rest.     *)
LEMMA TickedType ==
  ASSUME NEW row \in Rows
  PROVE  LET ticked ==
               [row EXCEPT !.claimedAgo = Older(@), !.dueIn = Sooner(@)]
         IN  /\ ticked \in Rows
             /\ ticked.status = row.status
             /\ ticked.attempts = row.attempts
             /\ ticked.evaluation = row.evaluation
             /\ ticked.score = row.score
             /\ ticked.claimedAgo = Older(row.claimedAgo)
<1>1. Older(row.claimedAgo) \in Ages
  BY OlderType DEF Rows
<1>2. Sooner(row.dueIn) \in {NULL} \union 0..MaxBackoff \union 0..NoCVRetry
  BY SoonerType, TimeAssumption, UserAssumption DEF Rows
<1> QED BY <1>1, <1>2 DEF Rows

LEMMA AgedType ==
  ASSUME NEW s \in Steps, s.phase # "idle" => s.age < StepBound
  PROVE  /\ Aged(s) \in Steps
         /\ Aged(s).phase = s.phase
         /\ Aged(s).result = s.result
         /\ Aged(s).attempts = s.attempts
         /\ Aged(s).cv = s.cv
         /\ Aged(s).outcome = s.outcome
         /\ s.phase # "idle" => Aged(s).age = s.age + 1
<1>1. s.age \in 0..StepBound
  BY DEF Steps
<1>2. s.phase # "idle" => s.age + 1 \in 0..StepBound
  BY <1>1, TimeAssumption
<1> QED BY <1>2 DEF Aged, Steps

-----------------------------------------------------------------------------
(* Typing is inductive.                                                    *)

LEMMA NoEvaluationsType ==
  NoEvaluations \in [Result -> [CV -> {NULL} \union Evaluations]]
BY DEF NoEvaluations

LEMMA TypingInit == Init => Typing
<1> SUFFICES ASSUME Init PROVE Typing
  OBVIOUS
<1>1. /\ results \in [Result -> Rows]
      /\ step \in [Worker -> Steps]
      /\ evaluations \in [Result -> [CV -> {NULL} \union Evaluations]]
  BY NoRowType, IdleStep, NoEvaluationsType DEF Init
<1>2. /\ 0 \in 0..MaxUploads /\ 0 \in 0..MaxRequests
      /\ 0 \in 0..MaxLost /\ 0 \in 0..MaxCancelled
  BY UserAssumption, CountAssumption
<1>3. StepInv
  BY IdleStep DEF Init, StepInv, Busy
<1>4. uploaded + uploading <= MaxUploads
  BY UserAssumption DEF Init
<1> QED BY <1>1, <1>2, <1>3, <1>4 DEF Init, Typing, TypeOK

(* A worker's moves, for every worker: the rest stay as they are.          *)
LEMMA ClaimTyping ==
  ASSUME Typing, NEW w \in Worker, Claim(w)
  PROVE  Typing'
<1>1. PICK r \in Result :
        /\ results' = [results EXCEPT ![r] = Claimed(@)]
        /\ step' = [step EXCEPT ![w] = Started(r, Claimed(results[r]))]
  BY DEF Claim
<1>2. /\ Claimed(results[r]) \in Rows
      /\ Claimed(results[r]).attempts \in Nat \ {0}
  BY ClaimedType DEF Typing, TypeOK
<1>3. results' \in [Result -> Rows]
  BY <1>1, <1>2 DEF Typing, TypeOK
<1>4. step' \in [Worker -> Steps]
  BY <1>1, <1>2, StartedType DEF Typing, TypeOK
<1>5. StepInv'
  <2>1. ASSUME NEW v \in Worker, v # w PROVE step'[v] = step[v]
    BY <1>1, <2>1 DEF Typing, TypeOK
  <2>2. step'[w] = Started(r, Claimed(results[r]))
    BY <1>1 DEF Typing, TypeOK
  <2>3. /\ step'[w].phase = "selecting" /\ step'[w].result = r
        /\ step'[w].attempts \in Nat \ {0}
        /\ step'[w].outcome = "none"
    BY <1>2, <2>2, StartedType
  <2> QED BY <2>1, <2>3 DEF Typing, StepInv, Busy
<1> QED BY <1>3, <1>4, <1>5
        DEF Typing, TypeOK, Claim, userVars, faultVars

(* What SelectCV, MatchJob and Cancel do to the worker's step, and that    *)
(* they touch no row and no evaluation.                                    *)
LEMMA MovedStep ==
  ASSUME Typing, NEW w \in Worker, SelectCV(w) \/ MatchJob(w) \/ Cancel(w)
  PROVE  /\ UNCHANGED <<results, evaluations, embedded, userVars>>
         /\ Busy(w) /\ Busy(w)'
         /\ step' \in [Worker -> Steps]
         /\ \A v \in Worker : v # w => step'[v] = step[v]
         /\ step'[w].result = step[w].result
         /\ step'[w].attempts = step[w].attempts
         /\ step'[w].age = step[w].age
         /\ step'[w].phase = "recording" <=> step'[w].outcome # "none"
         /\ step'[w].phase = "matching" => step'[w].cv # NULL
         /\ step'[w].outcome = "scored" => step'[w].cv # NULL
         /\ step'[w].cv # step[w].cv =>
              step'[w].cv \in CV /\ Newest(step'[w].cv)
<1>1. step[w] \in Steps /\ step[w].score \in Score
  BY DEF Typing, TypeOK, Steps
<1>2. UNCHANGED <<results, evaluations, embedded, userVars>>
  BY DEF SelectCV, MatchJob, Cancel, userVars
<1>3. Busy(w)
  BY DEF SelectCV, MatchJob, Cancel, Busy
<1>4. CASE \E c \in CV :
              /\ step[w].phase = "selecting"
              /\ Newest(c)
              /\ step' = [step EXCEPT ![w] = Chosen(@, c)]
  <2>1. PICK c \in CV : /\ step[w].phase = "selecting"
                        /\ Newest(c)
                        /\ step' = [step EXCEPT ![w] = Chosen(@, c)]
    BY <1>4
  <2>2. step'[w] = Chosen(step[w], c)
    BY <2>1 DEF Typing, TypeOK
  <2>3. step[w].outcome = "none"
    BY <1>3, <2>1 DEF Typing, StepInv
  <2>4. c # NULL
    BY CVFacts
  <2>5. step' \in [Worker -> Steps]
    BY <1>1, <2>1, ChosenType DEF Typing, TypeOK
  <2>6. \A v \in Worker : v # w => step'[v] = step[v]
    BY <2>1 DEF Typing, TypeOK
  <2> QED BY <1>1, <1>2, <1>3, <2>1, <2>2, <2>3, <2>4, <2>5, <2>6, ChosenType
          DEF Busy
<1>5. CASE \E outcome \in Outcome \ {"none"}, sc \in Score :
              /\ outcome = "scored" => step[w].cv # NULL
              /\ \E t \in {Finished(step[w], outcome),
                           [Finished(step[w], outcome) EXCEPT !.score = sc]} :
                   step' = [step EXCEPT ![w] = t]
  <2>1. PICK outcome \in Outcome \ {"none"}, sc \in Score :
              /\ outcome = "scored" => step[w].cv # NULL
              /\ \E t \in {Finished(step[w], outcome),
                           [Finished(step[w], outcome) EXCEPT !.score = sc]} :
                   step' = [step EXCEPT ![w] = t]
    BY <1>5
  <2>2. PICK t \in {Finished(step[w], outcome),
                    [Finished(step[w], outcome) EXCEPT !.score = sc]} :
                   step' = [step EXCEPT ![w] = t]
    BY <2>1
  <2>3. /\ t \in Steps /\ t.phase = "recording"
        /\ t.result = step[w].result /\ t.attempts = step[w].attempts
        /\ t.cv = step[w].cv /\ t.age = step[w].age /\ t.outcome = outcome
    BY <1>1 DEF Finished, Steps, Phase
  <2>4. step'[w] = t /\ \A v \in Worker : v # w => step'[v] = step[v]
    BY <2>2 DEF Typing, TypeOK
  <2>5. step' \in [Worker -> Steps]
    BY <2>2, <2>3 DEF Typing, TypeOK
  <2> QED BY <1>2, <1>3, <2>1, <2>3, <2>4, <2>5 DEF Busy
<1>6. CASE SelectCV(w) /\ ~\E c \in CV :
              /\ step[w].phase = "selecting"
              /\ Newest(c)
              /\ step' = [step EXCEPT ![w] = Chosen(@, c)]
  <2>1. \E outcome \in {"noCV", "error"} :
           step' = [step EXCEPT ![w] = Finished(@, outcome)]
    BY <1>6 DEF SelectCV
  <2> QED BY <1>1, <1>5, <2>1 DEF Outcome
<1>7. CASE MatchJob(w)
  <2>1. step[w].cv # NULL
    BY <1>3, <1>7 DEF MatchJob, Typing, StepInv
  <2> QED BY <1>1, <1>5, <1>7, <2>1 DEF MatchJob, Outcome
<1>8. CASE Cancel(w)
  BY <1>1, <1>5, <1>8 DEF Cancel, Outcome
<1> QED BY <1>4, <1>6, <1>7, <1>8 DEF SelectCV

LEMMA MoveTyping ==
  ASSUME Typing, NEW w \in Worker, SelectCV(w) \/ MatchJob(w) \/ Cancel(w)
  PROVE  Typing'
<1>1. StepInv'
  <2> SUFFICES ASSUME NEW v \in Worker, Busy(v)'
               PROVE  /\ step'[v].result \in Result
                      /\ step'[v].attempts \in Nat \ {0}
                      /\ step'[v].phase = "recording" <=>
                           step'[v].outcome # "none"
                      /\ step'[v].phase = "matching" => step'[v].cv # NULL
                      /\ step'[v].outcome = "scored" => step'[v].cv # NULL
    BY DEF StepInv
  <2>1. CASE v = w
    BY <2>1, MovedStep DEF Typing, StepInv
  <2>2. CASE v # w
    BY <2>2, MovedStep DEF Typing, StepInv, Busy
  <2> QED BY <2>1, <2>2
<1>2. cancelled' \in 0..MaxCancelled /\ lost' \in 0..MaxLost
  BY CountAssumption
     DEF SelectCV, MatchJob, Cancel, faultVars, Typing, TypeOK
<1> QED BY <1>1, <1>2, MovedStep DEF Typing, TypeOK, userVars

LEMMA EndTyping ==
  ASSUME Typing, NEW w \in Worker, Record(w) \/ Lose(w)
  PROVE  Typing'
<1>1. step' = [step EXCEPT ![w] = Idle]
  BY DEF Record, Lose
<1>2. step' \in [Worker -> Steps] /\ StepInv'
  BY <1>1, IdleStep DEF Typing, TypeOK, StepInv, Busy
<1>3. CASE Record(w)
  <2>1. /\ step[w] \in Steps /\ step[w].result \in Result
        /\ step[w].attempts \in Nat \ {0}
    BY <1>3 DEF Record, Typing, TypeOK, StepInv, Busy
  <2>2. Recorded(results[step[w].result], step[w]) \in Rows
    BY <2>1, RecordedType DEF Typing, TypeOK
  <2>3. results' \in [Result -> Rows]
    BY <1>3, <2>1, <2>2 DEF Record, Typing, TypeOK
  <2>4. Saved(step[w]) \in [Result -> [CV -> {NULL} \union Evaluations]]
    BY <2>1, JudgementType DEF Saved, Typing, TypeOK
  <2> QED BY <1>2, <1>3, <2>3, <2>4
          DEF Record, Typing, TypeOK, userVars, faultVars
<1>4. CASE Lose(w)
  <2>1. lost' \in 0..MaxLost
    BY <1>4, CountAssumption DEF Lose, Typing, TypeOK
  <2> QED BY <1>2, <1>4, <2>1 DEF Lose, Typing, TypeOK, userVars
<1> QED BY <1>3, <1>4

LEMMA ArrivalTyping ==
  ASSUME Typing, NEW r \in Result, AddResult(r) \/ EmbedJob(r)
  PROVE  Typing'
<1>1. results' \in [Result -> Rows]
  <2>1. results[r] \in Rows /\ "pending" \in Status
    BY DEF Typing, TypeOK, Status
  <2>2. [results[r] EXCEPT !.status = "pending"] \in Rows
    BY <2>1 DEF Rows
  <2>3. CASE AddResult(r)
    BY <2>2, <2>3 DEF AddResult, Typing, TypeOK
  <2>4. CASE EmbedJob(r)
    BY <2>4 DEF EmbedJob, Typing, TypeOK
  <2> QED BY <2>3, <2>4
<1> QED BY <1>1
        DEF AddResult, EmbedJob, Typing, TypeOK, StepInv, Busy, userVars,
            faultVars

LEMMA UserTyping ==
  ASSUME Typing, User
  PROVE  Typing'
<1>1. step' = step /\ StepInv'
  BY DEF User, BeginUpload, StoreCV, DeleteCV, ReEvaluate, DeleteAccount,
         Typing, StepInv, Busy
<1>2. CASE BeginUpload
  BY <1>1, <1>2, UserAssumption
     DEF BeginUpload, Typing, TypeOK, faultVars
<1>3. CASE StoreCV
  <2>1. /\ uploading' \in 0..MaxUploads /\ uploaded' \in 0..MaxUploads
        /\ uploaded' + uploading' <= MaxUploads
        /\ uploaded + 1 \in CV
    BY <1>3, UserAssumption DEF StoreCV, Typing, TypeOK, CV
  <2> QED BY <1>1, <1>3, <2>1 DEF StoreCV, Typing, TypeOK, faultVars
<1>4. CASE \E c \in CV : DeleteCV(c)
  BY <1>1, <1>4 DEF DeleteCV, Typing, TypeOK, faultVars
<1>5. CASE \E r \in Result : ReEvaluate(r)
  <2>1. PICK r \in Result : ReEvaluate(r)
    BY <1>5
  <2>2. Requeued(results[r]) \in Rows
    <3>1. results[r] \in Rows
      BY DEF Typing, TypeOK
    <3> QED BY <3>1, AgesFacts DEF Requeued, Rows, Status
  <2>3. requests' \in 0..MaxRequests
    BY <2>1, UserAssumption DEF ReEvaluate, Typing, TypeOK
  <2> QED BY <1>1, <2>1, <2>2, <2>3 DEF ReEvaluate, Typing, TypeOK, faultVars
<1>6. CASE DeleteAccount
  BY <1>1, <1>6, NoRowType, NoEvaluationsType
     DEF DeleteAccount, Typing, TypeOK, faultVars
<1> QED BY <1>2, <1>3, <1>4, <1>5, <1>6 DEF User

(* The clock changes ages, and nothing of what a row or a step holds.      *)
LEMMA TickedState ==
  ASSUME Typing, Tick
  PROVE  /\ results' \in [Result -> Rows]
         /\ step' \in [Worker -> Steps]
         /\ \A r \in Result :
              /\ results'[r].status = results[r].status
              /\ results'[r].attempts = results[r].attempts
              /\ results'[r].evaluation = results[r].evaluation
              /\ results'[r].score = results[r].score
              /\ results'[r].claimedAgo = Older(results[r].claimedAgo)
         /\ \A w \in Worker :
              /\ Busy(w)' <=> Busy(w)
              /\ step'[w].phase = step[w].phase
              /\ step'[w].result = step[w].result
              /\ step'[w].attempts = step[w].attempts
              /\ step'[w].cv = step[w].cv
              /\ step'[w].outcome = step[w].outcome
              /\ Busy(w) => step'[w].age = step[w].age + 1
<1>1. ASSUME NEW r \in Result
      PROVE  results[r] \in Rows
             /\ results'[r] = [results[r] EXCEPT !.claimedAgo = Older(@),
                                                 !.dueIn = Sooner(@)]
  BY DEF Tick, Typing, TypeOK
<1>2. ASSUME NEW w \in Worker
      PROVE  /\ step[w] \in Steps /\ step'[w] = Aged(step[w])
             /\ step[w].phase # "idle" => step[w].age < StepBound
  BY DEF Tick, Typing, TypeOK, Busy
<1>3. results' \in [Result -> Rows] /\ step' \in [Worker -> Steps]
  BY <1>1, <1>2, TickedType, AgedType DEF Tick
<1>4. ASSUME NEW r \in Result
      PROVE  /\ results'[r].status = results[r].status
             /\ results'[r].attempts = results[r].attempts
             /\ results'[r].evaluation = results[r].evaluation
             /\ results'[r].score = results[r].score
             /\ results'[r].claimedAgo = Older(results[r].claimedAgo)
  BY <1>1, TickedType
<1>5. ASSUME NEW w \in Worker
      PROVE  /\ Busy(w)' <=> Busy(w)
             /\ step'[w].phase = step[w].phase
             /\ step'[w].result = step[w].result
             /\ step'[w].attempts = step[w].attempts
             /\ step'[w].cv = step[w].cv
             /\ step'[w].outcome = step[w].outcome
             /\ Busy(w) => step'[w].age = step[w].age + 1
  BY <1>2, AgedType DEF Busy
<1> QED BY <1>3, <1>4, <1>5

LEMMA TickTyping ==
  ASSUME Typing, Tick
  PROVE  Typing'
<1>1. StepInv'
  BY TickedState DEF Typing, StepInv
<1> QED BY <1>1, TickedState DEF Tick, Typing, TypeOK, userVars, faultVars

LEMMA TypingNext == Typing /\ [Next]_vars => Typing'
<1> SUFFICES ASSUME Typing, [Next]_vars PROVE Typing'
  OBVIOUS
<1>1. ASSUME NEW r \in Result, AddResult(r) \/ EmbedJob(r) PROVE Typing'
  BY <1>1, ArrivalTyping
<1>2. ASSUME NEW w \in Worker, Work(w) \/ Cancel(w) \/ Lose(w) PROVE Typing'
  BY <1>2, ClaimTyping, MoveTyping, EndTyping DEF Work
<1>3. CASE User
  BY <1>3, UserTyping
<1>4. CASE Tick
  BY <1>4, TickTyping
<1>5. CASE UNCHANGED vars
  BY <1>5
     DEF vars, userVars, faultVars, Typing, TypeOK, StepInv, Busy
<1> QED BY <1>1, <1>2, <1>3, <1>4, <1>5 DEF Next

(* Every reachable state is well-typed, whatever the timeouts.             *)
THEOREM TypeCorrect == Spec => []TypeOK
<1>1. Typing => TypeOK
  BY DEF Typing
<1> QED BY <1>1, TypingInit, TypingNext, PTL DEF Spec

-----------------------------------------------------------------------------
(* Evaluations and what results show of them change only with an outcome   *)
(* and with the account.                                                   *)

Writes(w) == Record(w) /\ ~Gone(step[w])

LEMMA QuietStep ==
  ASSUME Typing, [Next]_vars, ~DeleteAccount, \A w \in Worker : ~Writes(w)
  PROVE  /\ evaluations' = evaluations /\ account' = account
         /\ \A r \in Result :
              /\ results'[r].evaluation = results[r].evaluation
              /\ results'[r].score = results[r].score
              /\ results'[r].status = "done" => results[r].status = "done"
<1>1. CASE results' = results
  <2>1. evaluations' = evaluations /\ account' = account
    BY <1>1
       DEF Next, Work, User, Claim, SelectCV, MatchJob, Cancel, Record, Lose,
           Writes, AddResult, EmbedJob, BeginUpload, StoreCV, DeleteCV,
           ReEvaluate, Tick, vars, userVars
  <2> QED BY <1>1, <2>1
<1>2. ASSUME NEW w \in Worker, Claim(w)
      PROVE  \A r \in Result :
               /\ results'[r].evaluation = results[r].evaluation
               /\ results'[r].score = results[r].score
               /\ results'[r].status = "done" => results[r].status = "done"
  <2>1. PICK q \in Result : results' = [results EXCEPT ![q] = Claimed(@)]
    BY <1>2 DEF Claim
  <2> QED BY <2>1, ClaimedType DEF Typing, TypeOK
<1>3. ASSUME NEW q \in Result, AddResult(q) \/ ReEvaluate(q)
      PROVE  \A r \in Result :
               /\ results'[r].evaluation = results[r].evaluation
               /\ results'[r].score = results[r].score
               /\ results'[r].status = "done" => results[r].status = "done"
  <2>1. results[q] \in Rows
    BY DEF Typing, TypeOK
  <2>2. \A r \in Result : r # q => results'[r] = results[r]
    BY <1>3 DEF AddResult, ReEvaluate, Typing, TypeOK
  <2>3. \/ results'[q] = [results[q] EXCEPT !.status = "pending"]
        \/ results'[q] = Requeued(results[q])
    BY <1>3 DEF AddResult, ReEvaluate, Typing, TypeOK
  <2>4. /\ results'[q].evaluation = results[q].evaluation
        /\ results'[q].score = results[q].score
        /\ results'[q].status = "pending"
    BY <2>1, <2>3 DEF Requeued, Rows
  <2> QED BY <2>2, <2>4
<1>4. CASE Tick
  BY <1>4, TickedState DEF Tick, userVars
<1>5. CASE \E w \in Worker : Claim(w)
  BY <1>2, <1>5 DEF Claim, userVars
<1>6. CASE \E q \in Result : AddResult(q) \/ ReEvaluate(q)
  BY <1>3, <1>6 DEF AddResult, ReEvaluate, userVars
<1> QED BY <1>1, <1>4, <1>5, <1>6
        DEF Next, Work, User, SelectCV, MatchJob, Cancel, Record, Lose,
            Writes, EmbedJob, BeginUpload, StoreCV, DeleteCV, vars

(* What an outcome that is written leaves.                                 *)
LEMMA WrittenState ==
  ASSUME Typing, NEW w \in Worker, Writes(w)
  PROVE  LET s == step[w]
             row == results[s.result]
             new == results'[s.result]
         IN  /\ s \in Steps /\ s.result \in Result /\ Busy(w)
             /\ row \in Rows /\ row.status # "absent"
             /\ new.status \in {"pending", "done", "failed"}
             /\ new.status = "done" => s.outcome = "scored" /\ s.cv # NULL
             /\ new.evaluation = IF s.cv = NULL THEN row.evaluation ELSE s.cv
             /\ new.score = IF s.cv = NULL THEN row.score
                            ELSE CopiedScore(Judgement(s))
             /\ \A r \in Result : r # s.result => results'[r] = results[r]
             /\ evaluations' = Saved(s)
             /\ account' = account /\ live' = live /\ uploaded' = uploaded
             /\ step'[w] = Idle
             /\ \A v \in Worker : v # w => step'[v] = step[v]
<1>1. /\ step[w] \in Steps /\ step[w].result \in Result /\ Busy(w)
      /\ step[w].attempts \in Nat \ {0}
      /\ step[w].outcome = "scored" => step[w].cv # NULL
      /\ results[step[w].result] \in Rows
  BY DEF Writes, Record, Busy, Typing, TypeOK, StepInv
<1>2. /\ results'[step[w].result] =
           Recorded(results[step[w].result], step[w])
      /\ \A r \in Result : r # step[w].result => results'[r] = results[r]
      /\ evaluations' = Saved(step[w])
      /\ UNCHANGED userVars
      /\ step'[w] = Idle
      /\ \A v \in Worker : v # w => step'[v] = step[v]
      /\ results[step[w].result].status # "absent"
  BY <1>1 DEF Writes, Gone, Record, Typing, TypeOK
<1> QED BY <1>1, <1>2, RecordedType DEF userVars

-----------------------------------------------------------------------------
(* The score a result shows.                                               *)

LEMMA ScoresNext ==
  ASSUME Typing, ScoreIsCurrent, [Next]_vars
  PROVE  ScoreIsCurrent'
<1>1. CASE DeleteAccount
  BY <1>1 DEF DeleteAccount, ScoreIsCurrent, NoRow
<1>2. CASE ~DeleteAccount /\ \A w \in Worker : ~Writes(w)
  BY <1>2, QuietStep DEF ScoreIsCurrent
<1>3. ASSUME NEW w \in Worker, Writes(w)
      PROVE  ScoreIsCurrent'
  <2> DEFINE s == step[w]
  <2> SUFFICES ASSUME NEW r \in Result
      PROVE  LET row == results'[r]
             IN  /\ row.evaluation = NULL => row.score = NULL
                 /\ row.evaluation # NULL =>
                      /\ evaluations'[r][row.evaluation] # NULL
                      /\ row.score =
                           LET e == evaluations'[r][row.evaluation]
                           IN  IF e.completed THEN e.score ELSE NULL
                 /\ row.status = "done" => row.score # NULL
    BY DEF ScoreIsCurrent
  <2>1. /\ s \in Steps /\ s.result \in Result
        /\ evaluations \in [Result -> [CV -> {NULL} \union Evaluations]]
        /\ s.cv \in {NULL} \union CV
    BY <1>3, WrittenState DEF Typing, TypeOK, Steps
  <2>2. CASE r # s.result
    <3>1. results'[r] = results[r] /\ evaluations'[r] = evaluations[r]
      BY <1>3, <2>1, <2>2, WrittenState DEF Saved
    <3> QED BY <3>1 DEF ScoreIsCurrent
  <2>3. CASE r = s.result /\ s.cv = NULL
    <3>1. /\ results'[r].evaluation = results[r].evaluation
          /\ results'[r].score = results[r].score
          /\ results'[r].status # "done"
          /\ evaluations' = evaluations
      BY <1>3, <2>3, WrittenState DEF Saved
    <3> QED BY <3>1 DEF ScoreIsCurrent
  <2>4. CASE r = s.result /\ s.cv # NULL
    <3>1. evaluations'[r][s.cv] = Judgement(s)
      <4>1. evaluations' = [evaluations EXCEPT ![r][s.cv] = Judgement(s)]
        BY <1>3, <2>4, WrittenState DEF Saved
      <4>2. s.cv \in CV /\ evaluations[r] \in [CV -> {NULL} \union Evaluations]
        BY <2>1, <2>4
      <4> HIDE DEF s
      <4> QED BY <2>1, <4>1, <4>2
    <3>2. /\ results'[r].evaluation = s.cv
          /\ results'[r].score = CopiedScore(Judgement(s))
          /\ results'[r].status = "done" => s.outcome = "scored"
      BY <1>3, <2>4, WrittenState
    <3>3. Judgement(s) # NULL
      BY <2>1, JudgementType
    <3>4. s.outcome = "scored" => CopiedScore(Judgement(s)) # NULL
      BY <2>1, ScoreAssumption DEF Judgement, CopiedScore, Steps
    <3> QED BY <2>4, <3>1, <3>2, <3>3, <3>4 DEF CopiedScore
  <2> QED BY <2>2, <2>3, <2>4
<1> QED BY <1>1, <1>2, <1>3

(* The score by which results are filtered and sorted is that of their     *)
(* current evaluation (ScoreIsCurrent, an invariant), whatever the         *)
(* timeouts: even two steps for one result would each write the pair.      *)
THEOREM Scores == Spec => []ScoreIsCurrent
<1>1. Init => ScoreIsCurrent
  BY DEF Init, ScoreIsCurrent, NoRow
<1>2. Spec => []Typing
  BY TypingInit, TypingNext, PTL DEF Spec
<1> QED BY <1>1, <1>2, ScoresNext, PTL DEF Spec

-----------------------------------------------------------------------------
(* The deletion of the account.                                            *)

LEMMA DeletedNext ==
  ASSUME Typing, DeletedStaysDeleted, [Next]_vars
  PROVE  DeletedStaysDeleted'
<1>1. CASE DeleteAccount
  BY <1>1 DEF DeleteAccount, DeletedStaysDeleted, NoRow
<1>2. CASE ~DeleteAccount /\ account = "open"
  BY <1>2, QuietStep, WrittenState DEF DeletedStaysDeleted
<1>3. CASE ~DeleteAccount /\ account = "deleted"
  <2>1. \A r \in Result : results[r].status = "absent"
    BY <1>3 DEF DeletedStaysDeleted
  <2>2. \A w \in Worker : ~Writes(w)
    BY <2>1, WrittenState
  <2>3. evaluations' = evaluations /\ account' = account
    BY <1>3, <2>2, QuietStep
  <2>4. \A w \in Worker : ~Claim(w)
    BY <2>1 DEF Claim, FirstToClaim, Claimable
  <2>5. \A r \in Result : ~AddResult(r) /\ ~ReEvaluate(r)
    BY <1>3, <2>1 DEF AddResult, ReEvaluate, Requeueable
  <2>6. CASE Tick
    BY <1>3, <2>1, <2>3, <2>6, TickedState DEF DeletedStaysDeleted
  <2>7. CASE ~Tick
    <3>1. results' = results
      BY <1>3, <2>2, <2>4, <2>5, <2>7
         DEF Next, Work, User, SelectCV, MatchJob, Cancel, Record, Lose,
             Writes, EmbedJob, BeginUpload, StoreCV, DeleteCV, vars
    <3> QED BY <1>3, <2>3, <3>1 DEF DeletedStaysDeleted
  <2> QED BY <2>6, <2>7
<1> QED BY <1>1, <1>2, <1>3 DEF Typing, TypeOK

(* A step under way when the account is deleted brings nothing of it back  *)
(* (DeletedStaysDeleted, an invariant), whatever the timeouts.             *)
THEOREM StaysDeleted == Spec => []DeletedStaysDeleted
<1>1. Init => DeletedStaysDeleted
  BY DEF Init, DeletedStaysDeleted
<1>2. Spec => []Typing
  BY TypingInit, TypingNext, PTL DEF Spec
<1> QED BY <1>1, <1>2, DeletedNext, PTL DEF Spec

-----------------------------------------------------------------------------
(* The claim as a lock.  The row of a busy worker is as it claimed it, and *)
(* its claim as old as the step, so it is not stale while the step lasts;  *)
(* or it is gone with its account, and does not come back.                 *)

Undisturbed ==
  \A w \in Worker : Busy(w) =>
    LET row == results[step[w].result]
    IN  \/ row.status = "absent" /\ account = "deleted"
        \/ /\ row.status = "processing"
           /\ row.claimedAgo = step[w].age
           /\ row.attempts = step[w].attempts

Lock == Typing /\ OneEvaluator /\ Undisturbed

LEMMA HeldNotClaimable ==
  ASSUME Lock, StepsEndInTime, NEW w \in Worker, Busy(w)
  PROVE  ~Claimable(step[w].result)
<1>1. step[w].age \in 0..StepBound
  BY DEF Lock, Typing, TypeOK, Steps
<1>2. ~(step[w].age > StaleTimeout)
  BY <1>1, TimeAssumption DEF StepsEndInTime
<1> QED BY <1>2 DEF Lock, Undisturbed, Claimable, Stale

LEMMA ClaimLock ==
  ASSUME Lock, StepsEndInTime, NEW w \in Worker, Claim(w)
  PROVE  Lock'
<1>1. PICK r \in Result :
        /\ Claimable(r)
        /\ results' = [results EXCEPT ![r] = Claimed(@)]
        /\ step' = [step EXCEPT ![w] = Started(r, Claimed(results[r]))]
  BY DEF Claim, FirstToClaim
<1>2. Typing' /\ account' = account
  BY ClaimTyping DEF Lock, Claim, userVars
<1>3. ASSUME NEW v \in Worker, Busy(v)
      PROVE  step[v].result # r /\ step[v].result \in Result
  BY <1>1, <1>3, HeldNotClaimable DEF Lock, Typing, StepInv
<1>4. /\ step'[w] = Started(r, Claimed(results[r]))
      /\ \A v \in Worker : v # w => step'[v] = step[v]
      /\ results'[r] = Claimed(results[r])
      /\ \A q \in Result : q # r => results'[q] = results[q]
      /\ results[r] \in Rows
  BY <1>1 DEF Lock, Typing, TypeOK
<1>5. /\ results'[r].status = "processing" /\ results'[r].claimedAgo = 0
      /\ step'[w].result = r /\ step'[w].age = 0
      /\ step'[w].attempts = results'[r].attempts
  BY <1>4, ClaimedType, StartedType
<1>6. OneEvaluator'
  BY <1>3, <1>4, <1>5 DEF Lock, OneEvaluator, Busy
<1>7. Undisturbed'
  BY <1>2, <1>3, <1>4, <1>5 DEF Lock, Undisturbed, Busy
<1> QED BY <1>2, <1>6, <1>7 DEF Lock

(* The slow work, an outcome and a loss leave the rows of the other        *)
(* workers alone.                                                          *)
LEMMA MoveLock ==
  ASSUME Lock, NEW w \in Worker, SelectCV(w) \/ MatchJob(w) \/ Cancel(w)
  PROVE  Lock'
<1>1. Typing' /\ results' = results /\ account' = account
  BY MoveTyping, MovedStep DEF Lock, userVars
<1>2. ASSUME NEW v \in Worker, Busy(v)'
      PROVE  /\ Busy(v) /\ step'[v].result = step[v].result
             /\ step'[v].age = step[v].age
             /\ step'[v].attempts = step[v].attempts
  <2>1. CASE v = w
    BY <2>1, MovedStep DEF Lock
  <2>2. CASE v # w
    BY <1>2, <2>2, MovedStep DEF Lock, Busy
  <2> QED BY <2>1, <2>2
<1> QED BY <1>1, <1>2 DEF Lock, OneEvaluator, Undisturbed

LEMMA EndLock ==
  ASSUME Lock, NEW w \in Worker, Record(w) \/ Lose(w)
  PROVE  Lock'
<1>1. Typing' /\ account' = account
  BY EndTyping DEF Lock, Record, Lose, userVars
<1>2. ASSUME NEW v \in Worker, Busy(v)'
      PROVE  Busy(v) /\ v # w /\ step'[v] = step[v]
  BY <1>2, IdleStep DEF Lock, Typing, TypeOK, Record, Lose, Busy
<1>3. ASSUME NEW v \in Worker, Busy(v)'
      PROVE  results'[step[v].result] = results[step[v].result]
  <2>1. CASE Writes(w)
    <3>1. /\ Busy(v) /\ v # w /\ Busy(w)
          /\ step[v].result \in Result
      BY <1>2, <1>3, <2>1, WrittenState DEF Lock, Typing, StepInv
    <3>2. step[v].result # step[w].result
      BY <3>1 DEF Lock, OneEvaluator
    <3> QED BY <2>1, <3>1, <3>2, WrittenState DEF Lock
  <2>2. CASE ~Writes(w)
    BY <2>2 DEF Record, Lose, Writes
  <2> QED BY <2>1, <2>2
<1> QED BY <1>1, <1>2, <1>3 DEF Lock, OneEvaluator, Undisturbed

(* No new result takes the place of a row that went while it was held, and *)
(* a row that is held cannot be queued again.                              *)
LEMMA OthersLock ==
  ASSUME Lock,
         User \/ \E r \in Result : AddResult(r) \/ EmbedJob(r)
  PROVE  Lock'
<1>1. Typing' /\ step' = step
  BY UserTyping, ArrivalTyping
     DEF Lock, User, BeginUpload, StoreCV, DeleteCV, ReEvaluate,
         DeleteAccount, AddResult, EmbedJob
<1>2. OneEvaluator'
  BY <1>1 DEF Lock, OneEvaluator, Busy
<1>3. CASE DeleteAccount
  <2>1. Undisturbed'
    BY <1>1, <1>3
       DEF DeleteAccount, Lock, Typing, StepInv, Undisturbed, Busy, NoRow
  <2> QED BY <1>1, <1>2, <2>1 DEF Lock
<1>4. ASSUME NEW r \in Result, AddResult(r) \/ ReEvaluate(r)
      PROVE  Undisturbed'
  <2>1. \A v \in Worker : Busy(v) => step[v].result # r
    BY <1>4 DEF Lock, Undisturbed, AddResult, ReEvaluate, Requeueable
  <2>2. /\ \A q \in Result : q # r => results'[q] = results[q]
        /\ account' = account
    BY <1>4 DEF AddResult, ReEvaluate, Lock, Typing, TypeOK, userVars
  <2> QED BY <1>1, <2>1, <2>2 DEF Lock, Undisturbed, Busy, Typing, StepInv
<1>5. CASE results' = results /\ account' = account
  <2>1. Undisturbed'
    BY <1>1, <1>5 DEF Lock, Undisturbed, Busy
  <2> QED BY <1>1, <1>2, <2>1 DEF Lock
<1> QED BY <1>1, <1>2, <1>3, <1>4, <1>5
        DEF Lock, User, BeginUpload, StoreCV, DeleteCV, EmbedJob, userVars

LEMMA TickLock ==
  ASSUME Lock, StepsEndInTime, Tick
  PROVE  Lock'
<1>1. Typing' /\ account' = account
  BY TickTyping DEF Lock, Tick, userVars
<1>2. OneEvaluator'
  BY TickedState DEF Lock, OneEvaluator
<1>3. Undisturbed'
  <2> SUFFICES ASSUME NEW w \in Worker, Busy(w)'
      PROVE  LET row == results'[step'[w].result]
             IN  \/ row.status = "absent" /\ account' = "deleted"
                 \/ /\ row.status = "processing"
                    /\ row.claimedAgo = step'[w].age
                    /\ row.attempts = step'[w].attempts
    BY DEF Undisturbed
  <2>1. /\ Busy(w) /\ step[w].result \in Result
        /\ step'[w].result = step[w].result
        /\ step'[w].attempts = step[w].attempts
        /\ step'[w].age = step[w].age + 1
    BY TickedState DEF Lock, Typing, StepInv
  <2>2. step[w].age \in 0..StaleTimeout
    <3>1. step[w].age \in 0..StepBound /\ step[w].age < StepBound
      BY <2>1 DEF Tick, Lock, Typing, TypeOK, Steps
    <3> QED BY <3>1, TimeAssumption DEF StepsEndInTime
  <2>3. results[step[w].result].claimedAgo = step[w].age =>
          results'[step[w].result].claimedAgo = step[w].age + 1
    BY <2>1, <2>2, TickedState DEF Lock, Older
  <2> QED BY <1>1, <2>1, <2>3, TickedState DEF Lock, Undisturbed
<1> QED BY <1>1, <1>2, <1>3 DEF Lock

LEMMA LockInit == Init => Lock
BY TypingInit, IdleStep
   DEF Init, Lock, OneEvaluator, Undisturbed, Busy

LEMMA LockNext ==
  ASSUME StepsEndInTime, Lock, [Next]_vars
  PROVE  Lock'
<1>1. ASSUME NEW w \in Worker, Work(w) \/ Cancel(w) \/ Lose(w) PROVE Lock'
  BY <1>1, ClaimLock, MoveLock, EndLock DEF Work
<1>2. CASE UNCHANGED vars
  BY <1>2, TypingNext
     DEF Lock, OneEvaluator, Undisturbed, Busy, vars, userVars
<1> QED BY <1>1, <1>2, OthersLock, TickLock DEF Next

(* With steps that end in time, a result is evaluated by one worker at a   *)
(* time (OneEvaluator, an invariant), whatever the user asks for.          *)
THEOREM Exclusion ==
  ASSUME StepsEndInTime
  PROVE  Spec => []OneEvaluator
<1>1. Lock => OneEvaluator
  BY DEF Lock
<1> QED BY <1>1, LockInit, LockNext, PTL DEF Spec

-----------------------------------------------------------------------------
(* The CV a result's current evaluation is of.  CVs are numbered as they   *)
(* were stored, so one that is stored later is newer than any evaluated    *)
(* so far; and a worker that chose an older CV than the one evaluated      *)
(* chose it after that one was deleted.                                    *)

CVsKnown ==
  /\ \A c \in live : c <= uploaded
  /\ \A r \in Result :
       results[r].evaluation # NULL => results[r].evaluation <= uploaded
  /\ \A w \in Worker : Busy(w) /\ step[w].cv # NULL => step[w].cv <= uploaded

OlderChosenLate ==
  \A w \in Worker :
    LET e == results[step[w].result].evaluation
    IN  Busy(w) /\ step[w].cv # NULL /\ e # NULL /\ e > step[w].cv
          => e \notin live

Choice == Lock /\ CVsKnown /\ OlderChosenLate

(* The CVs of rows and of steps are numbers.                               *)
LEMMA CVNumbers ==
  ASSUME Typing
  PROVE  /\ uploaded \in Nat /\ live \subseteq Nat
         /\ \A r \in Result : results[r].evaluation # NULL =>
                                results[r].evaluation \in Nat
         /\ \A w \in Worker : step[w].cv # NULL => step[w].cv \in Nat
<1>1. uploaded \in Nat
  BY UserAssumption DEF Typing, TypeOK
<1> QED BY <1>1, CVFacts DEF Typing, TypeOK, Rows, Steps

(* What keeps the two: rows whose evaluation stays, no new live CVs, and   *)
(* steps that go on with the CV they have or have none yet.                *)
LEMMA ChoiceKept ==
  ASSUME Choice, Lock',
         uploaded' = uploaded, live' \subseteq live,
         \A r \in Result :
           results'[r].evaluation \in {NULL, results[r].evaluation},
         \A w \in Worker : Busy(w)' =>
           \/ step'[w].cv = NULL
           \/ /\ Busy(w) /\ step'[w].cv = step[w].cv
              /\ step'[w].result = step[w].result
  PROVE  Choice'
<1>1. CVsKnown'
  BY DEF Choice, CVsKnown
<1>2. OlderChosenLate'
  BY DEF Choice, OlderChosenLate, Lock, Typing, StepInv
<1> QED BY <1>1, <1>2 DEF Choice

LEMMA MoveChoice ==
  ASSUME Choice, Lock', NEW w \in Worker,
         SelectCV(w) \/ MatchJob(w) \/ Cancel(w)
  PROVE  Choice'
<1>1. /\ results' = results /\ live' = live /\ uploaded' = uploaded
      /\ \A v \in Worker : v # w => step'[v] = step[v]
      /\ step'[w].result = step[w].result
      /\ Busy(w)
      /\ step'[w].cv # step[w].cv =>
           step'[w].cv \in CV /\ Newest(step'[w].cv)
  BY MovedStep DEF Choice, Lock, userVars
<1>2. CASE step'[w].cv = step[w].cv
  BY <1>1, <1>2, ChoiceKept DEF Busy
<1>3. CASE step'[w].cv # step[w].cv
  <2>1. step'[w].cv \in live /\ step'[w].cv \in Nat
        /\ \A d \in live : d <= step'[w].cv
    BY <1>1, <1>3, CVFacts DEF Newest
  <2>2. CVsKnown'
    BY <1>1, <2>1 DEF Choice, CVsKnown, Busy
  <2>3. live \subseteq Nat
    BY CVNumbers DEF Choice, Lock
  <2>4. \A e \in live : ~(e > step'[w].cv)
    BY <2>1, <2>3
  <2>5. OlderChosenLate'
    BY <1>1, <2>4 DEF Choice, OlderChosenLate, Busy
  <2> QED BY <2>2, <2>5 DEF Choice
<1> QED BY <1>2, <1>3

LEMMA WriteChoice ==
  ASSUME Choice, Lock', NEW w \in Worker, Writes(w)
  PROVE  Choice'
<1> DEFINE s == step[w]
<1>1. /\ s.result \in Result /\ Busy(w)
      /\ results'[s.result].evaluation \in
           {s.cv, results[s.result].evaluation}
      /\ \A r \in Result : r # s.result => results'[r] = results[r]
      /\ live' = live /\ uploaded' = uploaded
      /\ \A v \in Worker : Busy(v)' => v # w /\ Busy(v) /\ step'[v] = step[v]
  BY WrittenState, IdleStep DEF Choice, Lock, Busy
<1>2. CVsKnown'
  BY <1>1 DEF Choice, CVsKnown
<1>3. \A v \in Worker : Busy(v)' => step[v].result # s.result
                                    /\ step[v].result \in Result
  BY <1>1 DEF Choice, Lock, OneEvaluator, Typing, StepInv
<1>4. OlderChosenLate'
  BY <1>1, <1>3 DEF Choice, OlderChosenLate
<1> QED BY <1>2, <1>4 DEF Choice

LEMMA StoreChoice ==
  ASSUME Choice, Lock', StoreCV
  PROVE  Choice'
<1>1. /\ uploaded' = uploaded + 1 /\ live' = live \union {uploaded + 1}
      /\ results' = results /\ step' = step
  BY DEF StoreCV
<1>2. /\ uploaded \in Nat /\ live \subseteq Nat
      /\ \A r \in Result : results[r].evaluation # NULL =>
                             results[r].evaluation \in Nat
      /\ \A w \in Worker : step[w].cv # NULL => step[w].cv \in Nat
  BY CVNumbers DEF Choice, Lock
<1>3. CVsKnown'
  BY <1>1, <1>2 DEF Choice, CVsKnown, Busy
<1>4. \A r \in Result : results[r].evaluation # NULL =>
                          results[r].evaluation # uploaded + 1
  BY <1>2 DEF Choice, CVsKnown
<1>5. OlderChosenLate'
  BY <1>1, <1>4
     DEF Choice, OlderChosenLate, Busy, Lock, Typing, StepInv
<1> QED BY <1>3, <1>5 DEF Choice

LEMMA ChoiceInit == Init => Choice
BY LockInit, IdleStep
   DEF Init, Choice, CVsKnown, OlderChosenLate, Busy, NoRow

LEMMA ChoiceNext ==
  ASSUME StepsEndInTime, Choice, [Next]_vars
  PROVE  Choice'
<1>1. Lock' /\ Typing
  BY LockNext DEF Choice, Lock
<1>2. CASE DeleteAccount
  BY <1>1, <1>2, ChoiceKept DEF DeleteAccount, NoRow, Busy
<1>3. CASE StoreCV
  BY <1>1, <1>3, StoreChoice
<1>4. CASE \E w \in Worker : Writes(w)
  BY <1>1, <1>4, WriteChoice
<1>5. CASE \E w \in Worker : SelectCV(w) \/ MatchJob(w) \/ Cancel(w)
  BY <1>1, <1>5, MoveChoice
<1>6. CASE ~DeleteAccount /\ ~StoreCV /\ (\A w \in Worker : ~Writes(w))
           /\ ~\E w \in Worker : SelectCV(w) \/ MatchJob(w) \/ Cancel(w)
  <2>1. \A r \in Result : results'[r].evaluation = results[r].evaluation
    BY <1>1, <1>6, QuietStep
  <2>2. uploaded' = uploaded /\ live' \subseteq live
    BY <1>6
       DEF Next, Work, User, Claim, Record, Lose, AddResult, EmbedJob,
           BeginUpload, DeleteCV, ReEvaluate, Tick, vars, userVars
  <2>3. ASSUME NEW w \in Worker, Busy(w)'
        PROVE  \/ step'[w].cv = NULL
               \/ /\ Busy(w) /\ step'[w].cv = step[w].cv
                  /\ step'[w].result = step[w].result
    <3>1. CASE step' = step
      BY <2>3, <3>1 DEF Busy
    <3>2. CASE Tick
      BY <1>1, <2>3, <3>2, TickedState
    <3>3. ASSUME NEW v \in Worker, Record(v) \/ Lose(v)
          PROVE  Busy(w) /\ step'[w] = step[w]
      BY <1>1, <2>3, <3>3, IdleStep
         DEF Record, Lose, Busy, Typing, TypeOK
    <3>4. ASSUME NEW v \in Worker, Claim(v)
          PROVE  step'[w].cv = NULL \/ (Busy(w) /\ step'[w] = step[w])
      <4>1. PICK r \in Result :
              step' = [step EXCEPT ![v] = Started(r, Claimed(results[r]))]
        BY <3>4 DEF Claim
      <4>2. results[r] \in Rows
        BY <1>1 DEF Typing, TypeOK
      <4>3. Started(r, Claimed(results[r])).cv = NULL
        BY <4>2, ClaimedType, StartedType
      <4> QED BY <1>1, <2>3, <4>1, <4>3 DEF Busy, Typing, TypeOK
    <3> QED BY <1>6, <3>1, <3>2, <3>3, <3>4
            DEF Next, Work, User, AddResult, EmbedJob, BeginUpload, DeleteCV,
                ReEvaluate, vars
  <2> QED BY <1>1, <2>1, <2>2, <2>3, ChoiceKept
<1> QED BY <1>2, <1>3, <1>4, <1>5, <1>6

(* With steps that end in time, a result's current evaluation moves to an  *)
(* older CV only when the newer one was deleted (NewerCVPrevails, an       *)
(* action property), however uploads, deletions and steps interleave.      *)
THEOREM NewerPrevails ==
  ASSUME StepsEndInTime
  PROVE  Spec => NewerCVPrevails
<1> DEFINE Prevails ==
      \A r \in Result :
        LET old == results[r].evaluation
            new == results'[r].evaluation
        IN  old # NULL /\ new # NULL /\ new < old => old \notin live
<1>1. Choice /\ [Next]_vars => [Prevails]_vars
  <2> SUFFICES ASSUME Choice, [Next]_vars PROVE Prevails
    OBVIOUS
  <2>1. Typing
    BY DEF Choice, Lock
  <2>2. \A r \in Result : results[r].evaluation # NULL =>
                            results[r].evaluation \in Nat
    BY <2>1, CVNumbers
  <2>3. CASE DeleteAccount
    BY <2>3 DEF DeleteAccount, NoRow
  <2>4. CASE ~DeleteAccount /\ \A w \in Worker : ~Writes(w)
    <3>1. \A r \in Result : results'[r].evaluation = results[r].evaluation
      BY <2>1, <2>4, QuietStep
    <3> QED BY <2>2, <3>1
  <2>5. ASSUME NEW w \in Worker, Writes(w) PROVE Prevails
    <3>1. /\ step[w].result \in Result /\ Busy(w)
          /\ \A r \in Result : r # step[w].result => results'[r] = results[r]
          /\ results'[step[w].result].evaluation =
               IF step[w].cv = NULL
               THEN results[step[w].result].evaluation ELSE step[w].cv
      BY <2>1, <2>5, WrittenState
    <3>2. step[w].cv # NULL => step[w].cv \in Nat
      BY <2>1, CVNumbers
    <3> QED BY <2>2, <3>1, <3>2 DEF Choice, OlderChosenLate
  <2> QED BY <2>3, <2>4, <2>5
<1> QED BY <1>1, ChoiceInit, ChoiceNext, PTL DEF Spec, NewerCVPrevails

-----------------------------------------------------------------------------
(* The evaluation queue implements ResultLifecycle.                        *)

StageOf(row) ==
  IF row.status \in {"pending", "processing"} THEN "queued" ELSE row.status

ChargedOf(r) ==
  IF results[r].status # "absent" /\ Held(r) THEN results[r].attempts - 1
  ELSE results[r].attempts

(* A step that changes one result of the lifecycle at most.                *)
LEMMA OneResult ==
  ASSUME NEW r \in Result,
         \A q \in Result : q # r =>
           /\ StageOf(results'[q]) = StageOf(results[q])
           /\ ChargedOf(q)' = ChargedOf(q)
           /\ results'[q].score = results[q].score
  PROVE  /\ stage[r] = StageOf(results[r])
         /\ charged[r] = ChargedOf(r)
         /\ shown[r] = results[r].score
         /\ stage' = [stage EXCEPT ![r] = StageOf(results'[r])]
         /\ charged' = [charged EXCEPT ![r] = ChargedOf(r)']
         /\ shown' = [shown EXCEPT ![r] = results'[r].score]
<1>1. /\ stage = [q \in Result |-> StageOf(results[q])]
      /\ charged = [q \in Result |-> ChargedOf(q)]
      /\ shown = [q \in Result |-> results[q].score]
  BY DEF stage, charged, shown, StageOf, ChargedOf
<1>2. /\ stage' = [q \in Result |-> StageOf(results'[q])]
      /\ charged' = [q \in Result |-> ChargedOf(q)']
      /\ shown' = [q \in Result |-> results'[q].score]
  BY DEF stage, charged, shown, StageOf, ChargedOf
<1> QED BY <1>1, <1>2

LEMMA Stutter ==
  ASSUME \A q \in Result :
           /\ StageOf(results'[q]) = StageOf(results[q])
           /\ ChargedOf(q)' = ChargedOf(q)
           /\ results'[q].score = results[q].score,
         account' = account, lost' = lost
  PROVE  UNCHANGED Lifecycle!lifecycle
<1>1. stage' = stage /\ charged' = charged /\ shown' = shown
  BY DEF stage, charged, shown, StageOf, ChargedOf
<1> QED BY <1>1 DEF Lifecycle!lifecycle

(* Who holds which result follows from the steps.                          *)
LEMMA SameHolders ==
  ASSUME \A w \in Worker : /\ Busy(w)' <=> Busy(w)
                           /\ step'[w].result = step[w].result
  PROVE  \A r \in Result : Held(r)' <=> Held(r)
BY DEF Held

LEMMA UntouchedStutters ==
  ASSUME \A r \in Result : /\ results'[r].status = results[r].status
                           /\ results'[r].attempts = results[r].attempts
                           /\ results'[r].score = results[r].score,
         \A w \in Worker : /\ Busy(w)' <=> Busy(w)
                           /\ step'[w].result = step[w].result,
         account' = account, lost' = lost
  PROVE  UNCHANGED Lifecycle!lifecycle
<1>1. \A r \in Result : Held(r)' <=> Held(r)
  BY SameHolders
<1>2. \A r \in Result : /\ StageOf(results'[r]) = StageOf(results[r])
                        /\ ChargedOf(r)' = ChargedOf(r)
  BY <1>1 DEF StageOf, ChargedOf
<1> QED BY <1>2, Stutter

LEMMA LifecycleInit == Init => Lifecycle!Init
<1> SUFFICES ASSUME Init PROVE Lifecycle!Init
  OBVIOUS
<1>1. /\ stage = [r \in Result |-> "absent"]
      /\ shown = [r \in Result |-> NULL]
  BY DEF Init, stage, shown, NoRow
<1>2. charged = [r \in Result |-> 0]
  BY DEF Init, charged, NoRow
<1> QED BY <1>1, <1>2 DEF Init, Lifecycle!Init

LEMMA ClaimStutters ==
  ASSUME Lock, StepsEndInTime, NEW w \in Worker, Claim(w)
  PROVE  UNCHANGED Lifecycle!lifecycle
<1>1. PICK r \in Result :
        /\ Claimable(r)
        /\ results' = [results EXCEPT ![r] = Claimed(@)]
        /\ step' = [step EXCEPT ![w] = Started(r, Claimed(results[r]))]
  BY DEF Claim, FirstToClaim
<1>2. results[r] \in Rows /\ results[r].attempts \in Nat /\ ~Busy(w)
  BY DEF Lock, Typing, TypeOK, Rows, Claim
<1>3. /\ step'[w] = Started(r, Claimed(results[r]))
      /\ \A v \in Worker : v # w => step'[v] = step[v]
      /\ results'[r] = Claimed(results[r])
      /\ \A q \in Result : q # r => results'[q] = results[q]
  BY <1>1 DEF Lock, Typing, TypeOK
<1>4. /\ results'[r].status = "processing"
      /\ results'[r].attempts = results[r].attempts + 1
      /\ results'[r].score = results[r].score
      /\ Busy(w)' /\ step'[w].result = r
  BY <1>2, <1>3, ClaimedType, StartedType DEF Busy
<1>5. ~Held(r) /\ Held(r)'
  BY <1>1, <1>4, HeldNotClaimable DEF Held
<1>6. \A q \in Result : q # r => (Held(q)' <=> Held(q))
  BY <1>2, <1>3, <1>4 DEF Held, Busy
<1>7. StageOf(results'[r]) = StageOf(results[r])
  BY <1>1, <1>4 DEF StageOf, Claimable
<1>8. ChargedOf(r)' = ChargedOf(r)
  BY <1>2, <1>4, <1>5 DEF ChargedOf
<1>9. account' = account /\ lost' = lost
  BY DEF Claim, userVars, faultVars
<1> QED BY <1>3, <1>4, <1>6, <1>7, <1>8, <1>9, Stutter DEF ChargedOf

LEMMA AddRefines ==
  ASSUME Lock, NEW r \in Result, AddResult(r)
  PROVE  Lifecycle!Add(r)
<1>1. /\ account = "open" /\ account' = account /\ lost' = lost
      /\ results[r].status = "absent" /\ results'[r].status = "pending"
      /\ results'[r].attempts = results[r].attempts
      /\ results'[r].score = results[r].score
      /\ \A q \in Result : q # r => results'[q] = results[q]
      /\ step' = step
  BY DEF AddResult, userVars, faultVars, Lock, Typing, TypeOK, Rows
<1>2. \A q \in Result : Held(q)' <=> Held(q)
  BY <1>1 DEF Held, Busy
<1>3. ~Held(r)
  BY <1>1 DEF Lock, Undisturbed, Held
<1>4. /\ ChargedOf(r)' = ChargedOf(r)
      /\ \A q \in Result : q # r => ChargedOf(q)' = ChargedOf(q)
  BY <1>1, <1>2, <1>3 DEF ChargedOf
<1>5. StageOf(results[r]) = "absent" /\ StageOf(results'[r]) = "queued"
  BY <1>1 DEF StageOf
<1>6. stage[r] = "absent" /\ stage' = [stage EXCEPT ![r] = "queued"]
  BY <1>1, <1>4, <1>5, OneResult
<1>7. charged' = charged /\ shown' = shown
  BY <1>1, <1>4 DEF charged, shown, ChargedOf
<1> QED BY <1>1, <1>6, <1>7 DEF Lifecycle!Add

LEMMA RequestRefines ==
  ASSUME Lock, NEW r \in Result, ReEvaluate(r)
  PROVE  Lifecycle!Request(r)
<1>1. /\ Requeueable(results[r]) /\ results[r] \in Rows
      /\ results'[r] = Requeued(results[r])
      /\ \A q \in Result : q # r => results'[q] = results[q]
      /\ step' = step /\ account' = account /\ lost' = lost
  BY DEF ReEvaluate, faultVars, Lock, Typing, TypeOK
<1>2. /\ results'[r].status = "pending" /\ results'[r].attempts = 0
      /\ results'[r].score = results[r].score
  BY <1>1 DEF Requeued, Rows
<1>3. \A q \in Result : Held(q)' <=> Held(q)
  BY <1>1 DEF Held, Busy
<1>4. ~Held(r) /\ results[r].status # "absent"
  BY <1>1 DEF Lock, Undisturbed, Held, Requeueable
<1>5. /\ ChargedOf(r)' = 0
      /\ \A q \in Result : q # r => ChargedOf(q)' = ChargedOf(q)
  BY <1>1, <1>2, <1>3, <1>4 DEF ChargedOf
<1>6. StageOf(results[r]) # "absent" /\ StageOf(results'[r]) = "queued"
  BY <1>2, <1>4 DEF StageOf
<1>7. /\ stage[r] # "absent" /\ stage' = [stage EXCEPT ![r] = "queued"]
      /\ charged' = [charged EXCEPT ![r] = 0]
  BY <1>1, <1>5, <1>6, OneResult
<1>8. shown' = shown
  BY <1>1, <1>2 DEF shown
<1> QED BY <1>1, <1>7, <1>8 DEF Lifecycle!Request

LEMMA RemoveRefines ==
  ASSUME DeleteAccount
  PROVE  Lifecycle!Remove
<1>1. /\ stage' = [r \in Result |-> "absent"]
      /\ shown' = [r \in Result |-> NULL]
  BY DEF DeleteAccount, stage, shown, NoRow
<1>2. charged' = [r \in Result |-> 0]
  BY DEF DeleteAccount, charged, NoRow
<1> QED BY <1>1, <1>2 DEF DeleteAccount, faultVars, Lifecycle!Remove

(* The end of a step frees its result, and leaves every other alone.       *)
LEMMA EndFrees ==
  ASSUME Lock, NEW w \in Worker, Record(w) \/ Lose(w),
         NEW r, r = step[w].result
  PROVE  /\ r \in Result /\ Held(r) /\ ~Held(r)'
         /\ step[w].attempts \in Nat \ {0}
         /\ \/ results[r].status = "absent" /\ account = "deleted"
            \/ /\ results[r].status = "processing"
               /\ results[r].attempts = step[w].attempts
         /\ \A q \in Result : q # r =>
              /\ StageOf(results'[q]) = StageOf(results[q])
              /\ ChargedOf(q)' = ChargedOf(q)
              /\ results'[q].score = results[q].score
<1>1. Busy(w)
  BY DEF Record, Lose, Busy
<1>2. step'[w] = Idle /\ \A v \in Worker : v # w => step'[v] = step[v]
  BY DEF Record, Lose, Lock, Typing, TypeOK
<1>3. ~Busy(w)'
  BY <1>2, IdleStep DEF Busy
<1>4. \A q \in Result : q # r => results'[q] = results[q]
  BY DEF Record, Lose, Lock, Typing, TypeOK
<1>5. ~Held(r)'
  BY <1>1, <1>2, <1>3 DEF Held, Busy, Lock, OneEvaluator
<1>6. \A q \in Result : q # r => (Held(q)' <=> Held(q))
  BY <1>1, <1>2, <1>3 DEF Held, Busy
<1>7. /\ r \in Result /\ step[w].attempts \in Nat \ {0}
      /\ \/ results[r].status = "absent" /\ account = "deleted"
         \/ /\ results[r].status = "processing"
            /\ results[r].attempts = step[w].attempts
  BY <1>1 DEF Lock, Undisturbed, Typing, StepInv
<1>8. \A q \in Result : q # r => ChargedOf(q)' = ChargedOf(q)
  BY <1>4, <1>6 DEF ChargedOf
<1> QED BY <1>1, <1>4, <1>5, <1>7, <1>8 DEF Held

LEMMA LoseRefines ==
  ASSUME Lock, NEW w \in Worker, Lose(w)
  PROVE  Lifecycle!Next
<1>1. PICK r : r = step[w].result
  OBVIOUS
<1>2. /\ r \in Result /\ Held(r) /\ ~Held(r)'
      /\ step[w].attempts \in Nat \ {0}
      /\ \/ results[r].status = "absent" /\ account = "deleted"
         \/ /\ results[r].status = "processing"
            /\ results[r].attempts = step[w].attempts
      /\ \A q \in Result : q # r =>
           /\ StageOf(results'[q]) = StageOf(results[q])
           /\ ChargedOf(q)' = ChargedOf(q)
           /\ results'[q].score = results[q].score
  BY <1>1, EndFrees
<1>3. /\ results' = results /\ account' = account
      /\ lost < MaxLost /\ lost' = lost + 1
  BY DEF Lose, userVars
<1>4. stage' = stage /\ shown' = shown
  BY <1>3 DEF stage, shown
<1>5. CASE results[r].status = "absent" /\ account = "deleted"
  <2>1. \A q \in Result : ChargedOf(q)' = ChargedOf(q)
    BY <1>2, <1>3, <1>5 DEF ChargedOf
  <2>2. charged' = charged
    BY <2>1 DEF charged, ChargedOf
  <2> QED BY <1>3, <1>4, <1>5, <2>2 DEF Lifecycle!Next, Lifecycle!LoseNothing
<1>6. CASE /\ results[r].status = "processing"
           /\ results[r].attempts = step[w].attempts
  <2>1. ChargedOf(r)' = ChargedOf(r) + 1 /\ StageOf(results[r]) = "queued"
    BY <1>2, <1>3, <1>6 DEF ChargedOf, StageOf
  <2>2. /\ stage[r] = "queued"
        /\ charged' = [charged EXCEPT ![r] = charged[r] + 1]
    BY <1>2, <2>1, OneResult
  <2>3. Lifecycle!LoseTry(r)
    BY <1>3, <1>4, <2>2 DEF Lifecycle!LoseTry, Lifecycle!ChargeTry
  <2> QED BY <1>2, <2>3 DEF Lifecycle!Next
<1> QED BY <1>2, <1>5, <1>6

(* How the lifecycle reads the row an outcome leaves.                      *)
LEMMA RecordedStage ==
  ASSUME NEW row \in Rows, NEW s \in Steps,
         s.attempts \in Nat \ {0}, row.attempts = s.attempts,
         s.outcome # "none"
  PROVE  LET new == Recorded(row, s)
         IN  \/ /\ s.outcome \in {"cancelled", "noCV"}
                /\ StageOf(new) = "queued"
                /\ new.attempts = s.attempts - 1
             \/ /\ s.outcome = "scored"
                /\ StageOf(new) = "done" /\ new.attempts = s.attempts
             \/ /\ s.outcome = "error"
                /\ StageOf(new) = IF s.attempts >= MaxAttempts
                                  THEN "failed" ELSE "queued"
                /\ new.attempts = s.attempts
<1> DEFINE free == [row EXCEPT !.claimedAgo = NULL]
           released ==
             [free EXCEPT !.status = "pending", !.attempts = s.attempts - 1]
           settled == Settled(row, s)
<1>1. free \in Rows /\ free.attempts = s.attempts
  BY AgesFacts DEF Rows
<1>2. /\ Recorded(row, s).status = settled.status
      /\ Recorded(row, s).attempts = settled.attempts
  <2>1. settled \in Rows
    BY SettledType
  <2> HIDE DEF settled
  <2>2. Recorded(row, s) \in
          {settled, [settled EXCEPT !.evaluation = s.cv,
                                    !.score = CopiedScore(Judgement(s))]}
    BY DEF Recorded, settled
  <2> QED BY <2>1, <2>2 DEF Rows
<1>3. CASE s.outcome \in {"cancelled", "noCV"}
  <2>1. settled \in {released, [released EXCEPT !.dueIn = NoCVRetry]}
    BY <1>3 DEF Settled
  <2>2. settled.status = "pending" /\ settled.attempts = s.attempts - 1
    BY <2>1 DEF Rows
  <2> QED BY <1>2, <1>3, <2>2 DEF StageOf
<1>4. CASE s.outcome = "scored"
  <2>1. settled = [free EXCEPT !.status = "done", !.dueIn = NULL]
    BY <1>4 DEF Settled
  <2>2. settled.status = "done" /\ settled.attempts = s.attempts
    BY <1>1, <2>1 DEF Rows
  <2> QED BY <1>2, <1>4, <2>2 DEF StageOf
<1>5. CASE s.outcome = "error"
  <2>1. settled = ApplyFailure(free, s.attempts)
    BY <1>5 DEF Settled
  <2>2. /\ settled.attempts = s.attempts
        /\ settled.status = IF s.attempts >= MaxAttempts
                            THEN "failed" ELSE "pending"
    BY <1>1, <2>1 DEF ApplyFailure, Exhausted, Rows
  <2> QED BY <1>2, <1>5, <2>2 DEF StageOf
<1> QED BY <1>3, <1>4, <1>5 DEF Steps, Outcome

LEMMA RecordRefines ==
  ASSUME Lock, NEW w \in Worker, Writes(w)
  PROVE  Lifecycle!Next \/ UNCHANGED Lifecycle!lifecycle
<1>1. PICK r, s, new : /\ r = step[w].result /\ s = step[w]
                       /\ new = Recorded(results[r], s)
  OBVIOUS
<1>2. /\ r \in Result /\ Held(r) /\ ~Held(r)'
      /\ s.attempts \in Nat \ {0}
      /\ results[r].status = "processing" /\ results[r].attempts = s.attempts
      /\ \A q \in Result : q # r =>
           /\ StageOf(results'[q]) = StageOf(results[q])
           /\ ChargedOf(q)' = ChargedOf(q)
           /\ results'[q].score = results[q].score
  BY <1>1, EndFrees DEF Writes, Gone
<1>3. /\ s \in Steps /\ results[r] \in Rows
      /\ s.outcome # "none"
      /\ s.outcome = "scored" => s.cv # NULL
      /\ account' = account /\ lost' = lost
  BY <1>1, <1>2
     DEF Writes, Record, Lock, Typing, TypeOK, StepInv, Busy, userVars,
         faultVars
<1>4. results'[r] = new
  BY <1>1, <1>2 DEF Writes, Record, Lock, Typing, TypeOK
<1>5. new.score = IF s.cv = NULL THEN results[r].score
                  ELSE CopiedScore(Judgement(s))
  BY <1>1, <1>2, <1>3, RecordedType
<1>6. new.status # "absent"
  BY <1>1, <1>2, <1>3, RecordedType
<1>7. /\ StageOf(results[r]) = "queued"
      /\ ChargedOf(r) = s.attempts - 1 /\ ChargedOf(r)' = new.attempts
  BY <1>2, <1>4, <1>6 DEF StageOf, ChargedOf
<1>8. /\ stage[r] = "queued" /\ stage' = [stage EXCEPT ![r] = StageOf(new)]
      /\ charged[r] = s.attempts - 1
      /\ charged' = [charged EXCEPT ![r] = new.attempts]
      /\ shown[r] = results[r].score
      /\ shown' = [shown EXCEPT ![r] = new.score]
  BY <1>2, <1>4, <1>7, OneResult
<1>9. \/ /\ s.outcome \in {"cancelled", "noCV"}
         /\ StageOf(new) = "queued" /\ new.attempts = s.attempts - 1
      \/ /\ s.outcome = "scored"
         /\ StageOf(new) = "done" /\ new.attempts = s.attempts
      \/ /\ s.outcome = "error"
         /\ StageOf(new) = IF s.attempts >= MaxAttempts
                           THEN "failed" ELSE "queued"
         /\ new.attempts = s.attempts
  BY <1>1, <1>2, <1>3, RecordedStage
<1>10. s.outcome # "scored" => CopiedScore(Judgement(s)) = NULL
  BY DEF Judgement, CopiedScore
<1>11. shown \in [Result -> {results[q].score : q \in Result}]
       /\ stage \in [Result -> {StageOf(results[q]) : q \in Result}]
       /\ charged \in [Result -> {ChargedOf(q) : q \in Result}]
  BY DEF shown, stage, charged, StageOf, ChargedOf
<1>12. s.outcome # "scored" =>
         shown' = shown \/ shown' = [shown EXCEPT ![r] = NULL]
  <2>1. new.score = results[r].score => shown' = shown
    BY <1>2, <1>8, <1>11
  <2> QED BY <1>5, <1>8, <1>10, <2>1
<1>13. CASE s.outcome \in {"cancelled", "noCV"}
  <2>1. stage' = stage /\ charged' = charged
    BY <1>2, <1>8, <1>9, <1>11, <1>13
  <2>2. CASE shown' = shown
    BY <1>3, <2>1, <2>2 DEF Lifecycle!lifecycle
  <2>3. CASE shown' = [shown EXCEPT ![r] = NULL]
    <3>1. Lifecycle!ReleaseTry(r)
      BY <1>3, <1>8, <2>1, <2>3 DEF Lifecycle!ReleaseTry
    <3> QED BY <1>2, <3>1 DEF Lifecycle!Next
  <2> QED BY <1>12, <1>13, <2>2, <2>3
<1>14. CASE s.outcome \in {"scored", "error"}
  <2>1. charged[r] + 1 = s.attempts /\ new.attempts = s.attempts
    BY <1>2, <1>8, <1>9, <1>14
  <2>2. charged' = [charged EXCEPT ![r] = charged[r] + 1]
    BY <1>8, <2>1
  <2>3. Lifecycle!ChargeTry(r)
    BY <1>3, <1>8, <2>2 DEF Lifecycle!ChargeTry
  <2>4. CASE s.outcome = "scored"
    <3>1. new.score \in Score
      BY <1>3, <1>5, <2>4 DEF CopiedScore, Judgement, Steps
    <3>2. stage' = [stage EXCEPT ![r] = "done"]
      BY <1>8, <1>9, <2>4
    <3>3. Lifecycle!Complete(r)
      BY <1>3, <1>8, <2>3, <3>1, <3>2 DEF Lifecycle!Complete
    <3> QED BY <1>2, <3>3 DEF Lifecycle!Next
  <2>5. CASE s.outcome = "error"
    <3>1. stage' = [stage EXCEPT ![r] =
                      IF charged[r] + 1 >= MaxAttempts
                      THEN "failed" ELSE stage[r]]
      BY <1>8, <1>9, <2>1, <2>5
    <3>2. shown' \in {shown, [shown EXCEPT ![r] = NULL]}
      BY <1>12, <2>5
    <3>3. Lifecycle!FailTry(r)
      BY <1>3, <2>3, <3>1, <3>2 DEF Lifecycle!FailTry
    <3> QED BY <1>2, <3>3 DEF Lifecycle!Next
  <2> QED BY <1>14, <2>4, <2>5
<1> QED BY <1>9, <1>13, <1>14

(* An outcome whose row is gone changes nothing the lifecycle sees.        *)
LEMMA GoneStutters ==
  ASSUME Lock, NEW w \in Worker, Record(w), ~Writes(w)
  PROVE  UNCHANGED Lifecycle!lifecycle
<1>1. PICK r : r = step[w].result
  OBVIOUS
<1>2. /\ results[r].status = "absent"
      /\ results' = results /\ account' = account /\ lost' = lost
  BY <1>1 DEF Record, Writes, Gone, userVars, faultVars
<1>3. \A q \in Result : ChargedOf(q)' = ChargedOf(q)
  BY <1>1, <1>2, EndFrees DEF ChargedOf
<1> QED BY <1>2, <1>3, Stutter

LEMMA NextRefines ==
  ASSUME StepsEndInTime
  PROVE  Lock /\ [Next]_vars => [Lifecycle!Next]_(Lifecycle!lifecycle)
<1> SUFFICES ASSUME Lock, [Next]_vars
             PROVE  Lifecycle!Next \/ UNCHANGED Lifecycle!lifecycle
  OBVIOUS
<1>1. ASSUME NEW r \in Result, AddResult(r)
      PROVE  Lifecycle!Next
  BY <1>1, AddRefines DEF Lifecycle!Next
<1>2. ASSUME NEW r \in Result, ReEvaluate(r)
      PROVE  Lifecycle!Next
  BY <1>2, RequestRefines DEF Lifecycle!Next
<1>3. CASE DeleteAccount
  BY <1>3, RemoveRefines DEF Lifecycle!Next
<1>4. ASSUME NEW w \in Worker, Claim(w) \/ Record(w) \/ Lose(w)
      PROVE  Lifecycle!Next \/ UNCHANGED Lifecycle!lifecycle
  BY <1>4, ClaimStutters, RecordRefines, GoneStutters, LoseRefines
<1>5. ASSUME NEW w \in Worker, SelectCV(w) \/ MatchJob(w) \/ Cancel(w)
      PROVE  UNCHANGED Lifecycle!lifecycle
  <2>1. /\ results' = results /\ account' = account
        /\ Busy(w) /\ Busy(w)' /\ step'[w].result = step[w].result
        /\ \A v \in Worker : v # w => step'[v] = step[v]
    BY <1>5, MovedStep DEF Lock, userVars
  <2>2. lost' = lost
    BY <1>5 DEF SelectCV, MatchJob, Cancel, faultVars
  <2>3. \A v \in Worker : /\ Busy(v)' <=> Busy(v)
                          /\ step'[v].result = step[v].result
    BY <2>1 DEF Busy
  <2> QED BY <2>1, <2>2, <2>3, UntouchedStutters
<1>6. CASE Tick
  <2>1. account' = account /\ lost' = lost
    BY <1>6 DEF Tick, userVars, faultVars
  <2> QED BY <1>6, <2>1, TickedState, UntouchedStutters DEF Lock
<1>7. CASE UNCHANGED <<results, step, account, lost>>
  BY <1>7, UntouchedStutters DEF Busy
<1> QED BY <1>1, <1>2, <1>3, <1>4, <1>5, <1>6, <1>7
        DEF Next, Work, User, EmbedJob, BeginUpload, StoreCV, DeleteCV, vars,
            userVars, faultVars

(* With steps that end in time, the evaluation queue implements            *)
(* ResultLifecycle: a result is settled once for each time it was queued,  *)
(* given up exactly when its charged tries reach MaxAttempts, and a        *)
(* shutdown or a missing CV is never charged.                              *)
THEOREM Refinement ==
  ASSUME StepsEndInTime
  PROVE  Spec => ImplementsLifecycle
<1>1. Lock /\ [Next]_vars => Lock'
  BY LockNext
<1> QED BY <1>1, LockInit, LifecycleInit, NextRefines, PTL
        DEF Spec, ImplementsLifecycle, Lifecycle!Spec
=============================================================================
