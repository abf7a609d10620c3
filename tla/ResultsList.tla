----------------------------- MODULE ResultsList -----------------------------
(***************************************************************************)
(* A user's search results as the results API reads and triages them       *)
(* (services/results) while the worker adds and evaluates them and the     *)
(* user deletes searches.                                                  *)
(*                                                                         *)
(* Every request is a row of statements, each on what is committed when it *)
(* runs: a page is a look at its search, a count, a look at its cursor and *)
(* a query; a detail is the row, its evaluation and that one's scores; the *)
(* summary is two counts.  A walk is a client that asks for page after     *)
(* page.  Results are evaluated against one CV, so an outcome overwrites   *)
(* the one before; the n-th of a result is known by n.                     *)
(***************************************************************************)
EXTENDS Integers, FiniteSets, FiniteSetsExt

CONSTANTS
  ResultID,     \* ids of results, numbers, in their order
  Search,
  Reader,       \* requests for a detail
  Triager,      \* requests that set a status
  Scores,       \* overall scores that occur
  StrongScore,
  Times,        \* times at which results are found
  Findable,     \* what runs can find: an id, its search and its time
  Asked,        \* what clients ask a list for
  Triages,      \* what is set: an id and its new status
  WeekStart,    \* the beginning of the week the summary counts
  Limit,        \* page size of a walk
  MaxOutcomes,  \* bound on the outcomes recorded for all results
  OnCriterion,  \* the criterion's score in the n-th outcome of a result
  Scenarios,    \* which of these, "walk", "summary" and "queue" take part
  NULL

SearchResultStatuses == {"new", "saved", "applied", "dismissed"}

EvaluationStatuses == {"pending", "processing", "done", "failed"}

Outcomes == 0..MaxOutcomes
Params ==
  [sort : {"score", "newest"}, search : Search \cup {NULL},
   min_score : Scores \cup {NULL}, statuses : SUBSET SearchResultStatuses,
   evaluation_statuses : SUBSET EvaluationStatuses,
   since : Times \cup {NULL}, min_criterion_score : Nat \cup {NULL}]

Request == Reader \cup Triager

ASSUME NumberAssumption ==
  /\ ResultID \subseteq Nat /\ IsFiniteSet(ResultID) /\ IsFiniteSet(Search)
  /\ Scores \subseteq Nat /\ Times \subseteq Nat
  /\ Limit \in Nat \ {0} /\ MaxOutcomes \in Nat
  /\ OnCriterion \in [Outcomes -> Nat]
ASSUME FindableAssumption ==
  Findable \subseteq [id : ResultID, search : Search, created : Times]
ASSUME AskedAssumption == Asked \subseteq Params
ASSUME TriagesAssumption ==
  Triages \subseteq [id : ResultID, status : SearchResultStatuses]
ASSUME ScenariosAssumption ==
  Scenarios \subseteq SUBSET ({"walk", "summary", "queue"} \cup Request)

VARIABLES
  here,      \* who is still to come, chosen at first
  searches,  \* searches that are not deleted
  results,   \* search_results, at most one row per id
  walk,      \* the pages a client has got so far
  request,   \* details and triage in flight
  summary    \* the counts of a summary

vars == <<here, searches, results, walk, request, summary>>

(* overall_score copies the score of the current evaluation, outcome says  *)
(* which outcome that is; evaluation and scores are the tables of these    *)
(* names, as far as they belong to the row.                                *)
Rows ==
  [id : ResultID, created : Times, search : Search,
   status : SearchResultStatuses,
   evaluation_status : EvaluationStatuses,
   overall_score : Scores \cup {NULL},
   evaluation : [outcome : Outcomes, overall : Scores \cup {NULL}],
   scores : Outcomes]

ASSUME NullAssumption ==
  NULL \notin Nat /\ NULL \notin Search /\ NULL \notin Rows

NoWalk == [at |-> "idle"]
Walks ==
  {NoWalk} \cup
  [at : {"count", "cursor", "rows", "client", "end"}, params : Params,
   after : ResultID \cup {NULL}, place : Rows \cup {NULL},
   total : 0..Cardinality(ResultID), listed : SUBSET ResultID,
   twice : SUBSET ResultID, same : SUBSET ResultID,
   moved : BOOLEAN, still : BOOLEAN]

NoRequest == [at |-> "idle"]
Requests ==
  {NoRequest}
  \cup [at : {"update"}, id : ResultID, status : SearchResultStatuses]
  \cup [at : {"row"}, id : ResultID]
  \cup [at : {"evaluation", "scores", "answer"}, id : ResultID,
        overall : Outcomes, scores : Outcomes]

NoSummary == [at |-> "idle"]
Counts == 0..Cardinality(ResultID)
Summaries ==
  {NoSummary}
  \cup [at : {"totals", "answer"}, total : Counts, new : Counts,
        strong : Counts, strong_new : Counts, week_searches : Counts,
        by_status : [SearchResultStatuses -> Counts],
        by_search : [Search -> Counts], still : BOOLEAN]

TypeOK ==
  /\ here \subseteq {"walk", "summary", "queue"} \cup Request
  /\ searches \subseteq Search
  /\ results \subseteq Rows
  /\ \A r, p \in results : r.id = p.id => r = p
  /\ walk \in Walks
  /\ request \in [Request -> Requests]
  /\ summary \in Summaries

Init ==
  /\ here \in Scenarios
  /\ searches = Search
  /\ results = {}
  /\ walk = NoWalk
  /\ request = [q \in Request |-> NoRequest]
  /\ summary = NoSummary

-----------------------------------------------------------------------------
(* What a query selects, and its order.                                    *)

Visible(rows) == {r \in rows : r.search \in searches}
VisibleIn(rows, live) == {r \in rows : r.search \in live}

Matches(r, p) ==
  /\ p.search # NULL => r.search = p.search
  /\ p.min_score # NULL =>
       r.overall_score # NULL /\ r.overall_score >= p.min_score
  /\ p.statuses # {} => r.status \in p.statuses
  /\ p.evaluation_statuses # {} =>
       r.evaluation_status \in p.evaluation_statuses
  /\ p.since # NULL => r.created >= p.since
  /\ p.min_criterion_score # NULL =>
       /\ r.overall_score # NULL /\ r.scores # 0
       /\ OnCriterion[r.scores] >= p.min_criterion_score

Filtered(p) == {r \in Visible(results) : Matches(r, p)}

(* ORDER BY overall_score DESC NULLS LAST, id DESC.                        *)
BestFirst(r, s) ==
  \/ r.overall_score # NULL /\ s.overall_score = NULL
  \/ /\ r.overall_score # NULL /\ s.overall_score # NULL
     /\ r.overall_score > s.overall_score
  \/ r.overall_score = s.overall_score /\ r.id > s.id
(* ORDER BY created_at DESC, id DESC.                                      *)
NewestFirst(r, s) ==
  r.created > s.created \/ (r.created = s.created /\ r.id > s.id)
First(sort, r, s) ==
  IF sort = "newest" THEN NewestFirst(r, s) ELSE BestFirst(r, s)

BeyondScored(c, r) ==
  \/ /\ r.overall_score # NULL
     /\ \/ r.overall_score < c.overall_score
        \/ r.overall_score = c.overall_score /\ r.id < c.id
  \/ r.overall_score = NULL
BeyondScoredOnly(sort, c, r) ==
  IF sort = "newest" THEN NewestFirst(c, r)
  ELSE r.overall_score # NULL /\ c.overall_score # NULL
         /\ BeyondScored(c, r)
BeyondOrEqual(sort, c, r) ==
  CASE sort = "newest" -> r.created <= c.created
    [] sort # "newest" /\ c.overall_score = NULL -> r.overall_score = NULL
    [] OTHER -> BeyondScored(c, r)

(* after: what lies beyond the cursor's row.                               *)
Beyond(sort, c, r) ==
  CASE sort = "newest" ->
         r.created < c.created \/ (r.created = c.created /\ r.id < c.id)
    [] sort # "newest" /\ c.overall_score = NULL ->
         r.overall_score = NULL /\ r.id < c.id
    [] OTHER -> BeyondScored(c, r)

-----------------------------------------------------------------------------
(* History.  A walk's same results have been there, matched and kept their *)
(* place in its order since it began; still says that nothing has changed  *)
(* at all, moved that its cursor's score changed after it was listed.      *)

Sames(w, live, rows) ==
  {i \in w.same :
     \E r \in results, s \in VisibleIn(rows, live) :
       /\ r.id = i /\ s.id = i /\ Matches(s, w.params)
       /\ r.overall_score = s.overall_score}

ScoreChanged(i, rows) ==
  \E r \in results, s \in rows :
    r.id = i /\ s.id = i /\ r.overall_score # s.overall_score

Followed(live, rows) ==
  /\ searches' = live
  /\ results' = rows
  /\ walk' = IF walk = NoWalk THEN walk
             ELSE [walk EXCEPT
                     !.same = Sames(walk, live, rows),
                     !.moved = @ \/ ScoreChanged(walk.after, rows),
                     !.still = FALSE]
  /\ summary' = IF summary = NoSummary THEN summary
                ELSE [summary EXCEPT !.still = FALSE]

-----------------------------------------------------------------------------
(* The worker and the user's other requests.                               *)

Found(f) ==
  [id |-> f.id, created |-> f.created, search |-> f.search, status |-> "new",
   evaluation_status |-> "pending", overall_score |-> NULL,
   evaluation |-> [outcome |-> 0, overall |-> NULL], scores |-> 0]

AddResult(f) ==
  /\ f.search \in searches
  /\ \A r \in results : r.id # f.id
  /\ Followed(searches, results \cup {Found(f)})
  /\ UNCHANGED <<here, request>>

EvaluatedOverScores(r, score, status) ==
  LET n == r.evaluation.outcome + 1
  IN [r EXCEPT !.evaluation_status = status, !.overall_score = score,
               !.evaluation = [outcome |-> n, overall |-> score],
               !.scores = IF @ = 0 THEN n ELSE @]
(* An outcome, of a match when score is one and of a failure when NULL,    *)
(* which may be tried again.                                               *)
Evaluated(r, score, status) ==
  LET n == r.evaluation.outcome + 1
  IN [r EXCEPT !.evaluation_status = status, !.overall_score = score,
               !.evaluation = [outcome |-> n, overall |-> score],
               !.scores = n]

SumOver(f) == MapThenSumSet(LAMBDA x : f[x], DOMAIN f)

Evaluate(r, score) ==
  /\ SumOver([s \in results |-> s.evaluation.outcome]) < MaxOutcomes
  /\ \E status \in IF score = NULL THEN {"pending", "failed"} ELSE {"done"} :
       Followed(searches, (results \ {r}) \cup {Evaluated(r, score, status)})
  /\ UNCHANGED <<here, request>>

(* A claim, ReEvaluate, or a worker that gives its claim back; before the  *)
(* outcomes of Evaluate it is left out.                                    *)
Queued(r, status) ==
  /\ "queue" \in here /\ here' = here \ {"queue"}
  /\ Followed(searches, (results \ {r}) \cup
                          {[r EXCEPT !.evaluation_status = status]})
  /\ UNCHANGED request

(* Its results stay, and are not shown.                                    *)
DeleteSearch(s) ==
  /\ s \in searches
  /\ Followed(searches \ {s}, results)
  /\ UNCHANGED <<here, request>>

-----------------------------------------------------------------------------
(* List.                                                                   *)

notWalk == <<here, searches, results, request, summary>>

TotalBeyond(w) ==
  Cardinality({r \in Filtered(w.params) :
                 w.place # NULL => Beyond(w.params.sort, w.place, r)})
Total(w) == Cardinality(Filtered(w.params))

SearchThere(p) == p.search # NULL => p.search \in searches

(* The first page: requireSearch.                                          *)
StartWalk(p) ==
  /\ "walk" \in here /\ walk = NoWalk /\ here' = here \ {"walk"}
  /\ SearchThere(p)
  /\ walk' = [at |-> "count", params |-> p, after |-> NULL, place |-> NULL,
              total |-> 0, listed |-> {}, twice |-> {},
              same |-> {r.id : r \in Filtered(p)},
              moved |-> FALSE, still |-> TRUE]
  /\ UNCHANGED <<searches, results, request, summary>>

(* A further page, which ends the walk when its search is gone.            *)
NextPage ==
  /\ walk.at = "client"
  /\ walk' = IF SearchThere(walk.params) THEN [walk EXCEPT !.at = "count"]
             ELSE NoWalk
  /\ UNCHANGED notWalk

CountTotal ==
  /\ walk.at = "count"
  /\ walk' = [walk EXCEPT !.at = IF walk.after = NULL THEN "rows" ELSE "cursor",
                          !.total = Total(walk)]
  /\ UNCHANGED notWalk

(* The cursor's row is looked up whether it is still shown or not.         *)
LoadCursor ==
  /\ walk.at = "cursor"
  /\ \E r \in results :
       /\ r.id = walk.after
       /\ walk' = [walk EXCEPT !.at = "rows", !.place = r]
  /\ UNCHANGED notWalk

Selected(w) ==
  {r \in Filtered(w.params) :
     w.place # NULL => Beyond(w.params.sort, w.place, r)}

(* LIMIT: the first rows in the order.                                     *)
Page(w, rows) ==
  {r \in rows :
     Cardinality({s \in rows : First(w.params.sort, s, r)}) < Limit}

(* The cursor is the last row of the page before.                          *)
LastOf(sort, page) ==
  (CHOOSE r \in page : \A s \in page : s = r \/ First(sort, s, r)).id

ListRows ==
  /\ walk.at = "rows"
  /\ LET rows == Selected(walk)
         page == Page(walk, rows)
         ids == {r.id : r \in page}
         more == Cardinality(rows) > Limit
     IN walk' = [walk EXCEPT
          !.at = IF more THEN "client" ELSE "end",
          !.after = IF page = {} THEN @ ELSE LastOf(walk.params.sort, page),
          !.listed = @ \cup ids,
          !.twice = @ \cup (walk.listed \cap ids)]
  /\ UNCHANGED notWalk

EndWalk ==
  /\ walk.at \in {"client", "end"}
  /\ walk' = NoWalk
  /\ UNCHANGED notWalk

-----------------------------------------------------------------------------
(* Get and UpdateStatus.                                                   *)

notRequest == <<searches, walk, summary>>

Comes(q) == q \in here /\ request[q] = NoRequest /\ here' = here \ {q}

Shown(i) == {r \in Visible(results) : r.id = i}
Becomes(q, r) == request' = [request EXCEPT ![q] = r]

Get(q, i) ==
  /\ q \in Reader /\ Comes(q)
  /\ Becomes(q, [at |-> "row", id |-> i])
  /\ UNCHANGED <<notRequest, results>>

ReadRow(q) ==
  /\ request[q].at = "row"
  /\ \/ /\ Shown(request[q].id) = {}
        /\ Becomes(q, NoRequest)
     \/ \E r \in Shown(request[q].id) :
          Becomes(q, [at |-> IF r.overall_score # NULL THEN "evaluation"
                             ELSE "answer",
                      id |-> r.id, overall |-> 0, scores |-> 0])
  /\ UNCHANGED <<notRequest, here, results>>

(* Only a completed evaluation is shown; its scores are read next.         *)
ReadEvaluation(q) ==
  /\ request[q].at = "evaluation"
  /\ \E r \in results :
       /\ r.id = request[q].id
       /\ Becomes(q, IF r.evaluation.overall # NULL
                     THEN [request[q] EXCEPT !.at = "scores",
                             !.overall = r.evaluation.outcome]
                     ELSE [request[q] EXCEPT !.at = "answer"])
  /\ UNCHANGED <<notRequest, here, results>>

ReadScores(q) ==
  /\ request[q].at = "scores"
  /\ \E r \in results :
       /\ r.id = request[q].id
       /\ Becomes(q, [request[q] EXCEPT !.at = "answer",
                                        !.scores = r.scores])
  /\ UNCHANGED <<notRequest, here, results>>

Answer(q) ==
  /\ request[q].at = "answer"
  /\ Becomes(q, NoRequest)
  /\ UNCHANGED <<notRequest, here, results>>

(* UpdateStatus asks Get first, writes, and answers with another Get.      *)
UpdateStatus(q, i, status) ==
  /\ q \in Triager /\ Comes(q)
  /\ Shown(i) # {}
  /\ Becomes(q, [at |-> "update", id |-> i, status |-> status])
  /\ UNCHANGED <<notRequest, results>>

(* The UPDATE names the status column only.                                *)
Triaged(r, status) == [r EXCEPT !.status = status]

WriteStatus(q) ==
  /\ request[q].at = "update"
  /\ \E r \in results :
       /\ r.id = request[q].id
       /\ Followed(searches,
            (results \ {r}) \cup {Triaged(r, request[q].status)})
  /\ Becomes(q, [at |-> "row", id |-> request[q].id])
  /\ UNCHANGED here

-----------------------------------------------------------------------------
(* Summary.                                                                *)

notSummary == <<here, searches, results, walk, request>>

Strong(rows) ==
  {r \in rows : r.overall_score # NULL /\ r.overall_score >= StrongScore}
WithStatus(rows, status) == {r \in rows : r.status = status}
ThisWeek(rows) == {r \in rows : r.created >= WeekStart}

Totals(rows) ==
  [at |-> "totals", total |-> Cardinality(rows),
   new |-> Cardinality(ThisWeek(rows)),
   strong |-> Cardinality(Strong(rows) \ WithStatus(rows, "dismissed")),
   strong_new |-> Cardinality(Strong(rows) \cap WithStatus(rows, "new")),
   week_searches |-> Cardinality({r.search : r \in ThisWeek(rows)}),
   by_status |-> [s \in SearchResultStatuses |->
                    Cardinality(WithStatus(rows, s))],
   by_search |-> [s \in Search |-> 0], still |-> TRUE]

StartSummary ==
  /\ "summary" \in here /\ here' = here \ {"summary"}
  /\ summary' = Totals(Visible(results))
  /\ UNCHANGED <<searches, results, walk, request>>

(* A LEFT JOIN: a search without results counts none of them.              *)
JoinedRows(s) ==
  IF \E r \in results : r.search = s
  THEN Cardinality({r \in results : r.search = s}) ELSE 1
SearchTotal(s) == Cardinality({r \in results : r.search = s})

CountBySearch ==
  /\ summary.at = "totals"
  /\ summary' = [summary EXCEPT
       !.at = "answer",
       !.by_search = [s \in Search |->
                        IF s \in searches THEN SearchTotal(s) ELSE 0]]
  /\ UNCHANGED notSummary

EndSummary ==
  /\ summary.at = "answer"
  /\ summary' = NoSummary
  /\ UNCHANGED notSummary

-----------------------------------------------------------------------------
Next ==
  \/ \E f \in Findable : AddResult(f)
  \/ \E r \in results, score \in Scores \cup {NULL} : Evaluate(r, score)
  \/ \E r \in results, status \in {"pending", "processing"} :
       Queued(r, status)
  \/ \E s \in Search : DeleteSearch(s)
  \/ \E p \in Asked : StartWalk(p)
  \/ NextPage \/ CountTotal \/ LoadCursor \/ ListRows \/ EndWalk
  \/ \E q \in Request :
       \/ ReadRow(q) \/ ReadEvaluation(q) \/ ReadScores(q) \/ Answer(q)
       \/ \E i \in ResultID : Get(q, i)
       \/ \E t \in Triages : UpdateStatus(q, t.id, t.status)
       \/ WriteStatus(q)
  \/ StartSummary \/ CountBySearch \/ EndSummary

Spec == Init /\ [][Next]_vars

-----------------------------------------------------------------------------
(* Properties.                                                             *)

Undisturbed == walk # NoWalk /\ (walk.params.sort = "newest" \/ ~walk.moved)

(* Page after page, a result that keeps its place is listed once, whatever *)
(* is added, scored, triaged or deleted around it.  The one exception is   *)
(* best-first order after the score of the cursor itself changed: the next *)
(* page starts from where that result has moved to (results.go:340-365).   *)
NothingListedTwice == Undisturbed => walk.twice \cap walk.same = {}

(* And none is left out when the last page says there is no more, with the *)
(* same exception (results.go:323-331).                                    *)
NothingLeftOut ==
  Undisturbed /\ walk.at = "end" => walk.same \subseteq walk.listed

(* total_count is how many results all pages together list, when nothing   *)
(* changed since the walk began (results.go:300-303).                      *)
TotalIsListed ==
  walk # NoWalk /\ walk.at = "end" /\ walk.still
    => Cardinality(walk.listed) = walk.total

(* The breakdown a detail shows is of the outcome its overall score is     *)
(* from, or of one recorded while it was being read, never of an earlier   *)
(* one (results.go:547-565).                                               *)
BreakdownIsNotOlder ==
  \A q \in Request :
    request[q].at = "answer" => request[q].scores >= request[q].overall

(* The counts by search add up to the total, and so do those by status,    *)
(* unless something changed between the two queries; more searches than    *)
(* results found nothing this week (results.go:664-720).                   *)
SummaryAddsUp ==
  summary.at = "answer" =>
    /\ SumOver(summary.by_status) = summary.total
    /\ summary.still => SumOver(summary.by_search) = summary.total
    /\ summary.strong_new <= summary.strong
    /\ summary.week_searches <= summary.new

(* A walk lists what it should: each result once, all of them, and as many *)
(* as it said (results.go:296-365).                                        *)
WalkInv ==
  TypeOK /\ NothingListedTwice /\ NothingLeftOut /\ TotalIsListed

(* What one answer shows together belongs together (results.go:547-720).   *)
AnswersAgree == BreakdownIsNotOlder /\ SummaryAddsUp
=============================================================================
