# Verification of cv-evaluator

TLA+ models of [cv-evaluator](../src/README.MD), the TLC configurations that
model-check them and the TLAPS proofs about them. The sources are under
`../src`; line numbers below and in `PROJECT.json` refer to them.

To check: `tlc -workers 2 -config <cfg> <module>` for each run of
`PROJECT.json`, `tlapm <module>` for each module named `*_proofs`.

## 1. The system

A user uploads CVs and saves job searches. A scheduler runs due searches
against job portals; each posting found becomes a global `jobs` row and a
`search_results` row of that search. Embed workers fetch a posting's
description and embed it; evaluate workers then ask an LLM to score the user's
newest CV against it. A web page and an HTTP API read and change all this
meanwhile. There is no queue table: `jobs` and `search_results` are the
queues, Postgres rows are the only state processes share, and no lock is held
while the slow work runs.

### Components

| Component (source) | State it keeps | Operations | What makes it correct |
|---|---|---|---|
| Embed loops (`internal/pipeline/pipeline.go`, `store.go`, `storage/jobs`) | `jobs.status, claimed_at, attempts, next_attempt_at, detail, embedding, last_error`; the claimed copy in the worker | `Upsert`, `claimJob`, `EmbedOne` (details, embedding, outcome) | one worker per row, vector of the stored text, an embedded job stays so, every posting settles |
| Evaluate loops (same files) | `search_results.evaluation_status, claimed_at, attempts, next_attempt_at, evaluation_id, overall_score`; `evaluations` | `upsertSearchResult`, `claimResult`, `SelectCV`, `MatchJob`, outcome transaction | score copy equals the current evaluation, newest CV prevails, nothing written for a deleted account |
| Scheduler (`pipeline.Tick`, `pipeline/sources`) | `job_searches.next_run_at, last_run_at` as a lease | `DueSearches`, `ClaimRun`, `MarkRun` | each run once, an enabled search always has a next run and gets it |
| Saved searches (`services/jobsearches`) | `job_searches` | `Create`, `Update`, `RunNow`, `Delete` | requests survive a run in progress; deletion is final |
| Portal limiter and runs (`pipeline/ratelimit.go`, `pipeline.runPortal`, `scraper/*`) | next slot and penalty per portal, in memory, mutex; the run's page, attempts and postings | `reserve`, `Wait`, `Report`; paging, retries, storing | spacing of calls; bounded waits; no page twice, no posting missed; runs end |
| Results (`services/results`) | `search_results.status` | list, detail, summary, `UpdateStatus`, `ReEvaluate` | pages neither skip nor repeat; parts of an answer agree; a request never starts a second evaluation |
| Account (`services/account`) | every table, by owner | `Delete`, `Export` | nothing of a deleted account remains or returns; an export is one moment |
| Users and sessions (`services/users`, `servers/middleware`) | `users`, stateless JWTs | signup, sign-in, profile, password | one account per address; a password change ends other sessions |
| API keys (`services/apikeys`) | `api_keys` | create, verify, touch, revoke | a revoked key never authenticates |
| CVs (`services/users`) | `cvs`, `section_embeddings` | upload, delete | newest CV is the one matched |
| Portal suggestions (`services/portalsuggestions`) | `portal_suggestions` | create | one row per URL and an answer for everybody who asked |
| Cover letters, matcher, API limiter (`services/coverletter`, `services/matcher`, `servers/ratelimit`) | memory only | write, check, revise; decode; `Allow` | a letter names only its user; what is shown explains the score; the window holds |
| Web client (`web/src`) | token in localStorage, session user, page state | requests and their late answers | no answer shown under the wrong user or filters; an accepted session is kept |
| LLM clients, extractor, telemetry, config, migrations, loader | none that other parts share while they run | calls and conversions | external, start-up or development only |

### Interaction and what is hard

* **Calls without locks.** A worker claims with one statement, works for
  minutes, and writes with another. A row whose claim is older than
  `StaleTimeout` is taken over by anybody; writes are not fenced.
* **Read-modify-write over HTTP.** `Update` of a search and a scheduler's
  `MarkRun` both write `next_run_at` from what they read earlier. A signup
  looks for its address in one statement and inserts in the next; no column of
  `users` is unique.
* **Several statements, one answer.** A page of results is a count, a look at
  its cursor and a query; a detail is three statements and a summary two, each
  on what is committed when it runs.
* **Deletion against late writers.** Runs, evaluations, uploads and inserts
  under way when an account is deleted write afterwards, or wait for its locks.
* **Outdated credentials.** A request is let through at one moment and acts at
  another; a token's time is a whole second, and so is the time of a password
  change.
* **One limiter, many callers.** Slots are booked under a mutex and slept for
  without it; a call in flight may succeed after another one failed.
* **Late answers in the browser.** Tabs share one stored token and each shows
  its own user; filters change while pages are being fetched.
* **Crashes, shutdowns, retries.** A worker can die anywhere; a shutdown
  cancels steps after a grace period and must not charge an attempt; failures
  back off exponentially and are given up after `MaxAttempts`.

`PROJECT.json` lists each hazard at its line, with the properties that cover
it or the reason why none does.

## 2. Modules

| Module | What it is | Builds on |
|---|---|---|
| `RetryPolicy` | claims going stale, backoff, attempts: shared by both queues | |
| `JobQueue` | `EmbedOne` by any number of workers over the `jobs` table | `RetryPolicy` |
| `JobLifecycle` | what the jobs queue promises of a posting | |
| `Evaluation` | `EvaluateOne` with the user's uploads, deletions and requests | `RetryPolicy` |
| `ResultLifecycle` | what the evaluation queue promises of a result | |
| `SearchSchedule` | schedulers and API requests on one `job_searches` row | |
| `RateLimiter` | slots and penalties of one portal, for any callers | |
| `PortalRun` | runs that page through a portal and embed loops that fetch descriptions, composed over its limiter | `RateLimiter` |
| `ResultsList` | pages, detail, summary and triage of results while they change | |
| `AccountData` | deletion and export statement by statement, with row locks, among the worker and other requests | |
| `Accounts` | who holds which address: signups, profile updates and deletions at once | |
| `SlidingWindow` | the API's rate limiter | |
| `Matcher` | decoding an LLM's answer to a match and reading it back: operators | |
| `Letters` | cover letters over the profiles they are signed from, limited, and quick matches | `Accounts`, `SlidingWindow`, `Matcher` |
| `Sessions` | one user's password, tokens and keys, by overlapping requests | |
| `WebSession` | tabs of a browser that share a token, and late answers | |
| `MatchesPage` | the list on the matches page, its filters, pages and aborts | |
| `PortalSuggestions` | identical suggestions at once | |
| `MC*` | the instances TLC checks; `MCSessions` sets the last four side by side | |
| `*_proofs` | theorems | `TLAPS` |

### How they correspond to the code

**Time** is relative and counted in ticks: a row stores `claimedAgo` and
`dueIn` instead of `claimed_at` and `next_attempt_at`, `Tick` ages every row
and every step, and ages stop one tick past the stale timeout. States are
finite without a bound on time. `NULL` is SQL's.

**`JobQueue`.** `jobs[j]` is the row, `step[w]` the local variables of worker
`w` in `EmbedOne`: the copy of the row `RETURNING *` gave it, whether it
fetched the description, and the outcome. `Claim` is `claimJobSQL`,
`FetchDetails` and `CreateEmbedding` the closure handed to `observe`, `Record`
the `UPDATE` with everything the `switch` puts into it. `Cancel` is the end of
the shutdown grace at any point of a step, `Lose` a crash or a failed write.
Descriptions are members of `Text`; the vector of a description is the
description itself, which is what the property about vectors needs.

**`Evaluation`.** One user. `SelectCV`, `MatchJob` and `Record` follow
`EvaluateOne`; `Record` is one transaction, since it locks the result's row
first and account deletion locks the same rows before it deletes. CVs are
numbered in the order in which they are stored. An upload is in two steps
because extraction and embedding come between the session check and the
insert. Deleting a single search is left out of this module: it hides the
results from the API and changes nothing the loops read.

**`SearchSchedule`.** One search, because searches share only the schedulers'
time. `SeeDue` is the listing, `ClaimRun` the conditional update, `MarkRun` the
final write. `Get` is the read that begins `Update` and `RunNow`; `Save` and
`SetDueNow` are their writes. `Save` on a deleted row follows GORM 1.31.1: its
`UPDATE` matches nothing, so it inserts, with every column replaced on
conflict. The next run of a search that last ran long ago may lie in the past,
as in the code; how long a search has been due is not counted, since the
listing only compares with now. `asked` and a run's `alone` are history, used
by properties only.

**`RateLimiter` and `PortalRun`.** Time is absolute here and bounded by
`MaxTime`, because slots are. `Reserve` is `reserve` under the mutex,
`call[c].slot` the time a caller sleeps to, `Succeeds` and `Fails` the two
branches of `Report`. A cancelled wait gives its slot up and nobody else gets
it. `booked` and `quiet` are history. `PortalRun` adds the callers: `run[r]`
holds the local variables of `runPortal` and of the scrapers' paging loops, one
page per call; `FetchPage` chooses what the portal answers, including a link
back to a page already seen. The portal's list changes at its front and
anywhere. What a page says of a posting is whether it has a title and an id,
since the two scrapers treat those without differently.

**`ResultsList`.** Each action is one SQL statement. `walk` is a client that
asks for page after page with the cursor it got; the cursor names a row, and
where that row now stands is read again. `requireSearch`, the count, the
cursor's row and the page are a step each, and the lists asked for use every
filter. A result is evaluated against one CV, so an outcome overwrites the one
before and the n-th is known by n and by its score on a criterion
(`OnCriterion`); `Queued` is what claims and re-evaluations do to the status a
list may filter by. `same`, `still` and `moved` are history.

**`AccountData`.** `rows` is what is committed. A deletion locks the user's
row, then the searches and the results one by one in any order, then deletes
table by table (`Statements`); `doomed` is what it has deleted and not
committed. `LockSearch` and `LockSearchResult` are the `FOR SHARE` and
`FOR UPDATE` of the worker's transactions. An export is a row of queries in a
snapshot. A search that was deleted by itself before its account
(`deleted_at`) is no case of its own: the account's deletion takes such rows
like the others, since it is unscoped, and a worker that passes over one is a
worker that does nothing.

**`Accounts`, `Letters`.** A signup is two statements. A profile update is four
in one transaction: it locks its own row (`UpdateProfile`), looks for the email
(`CheckEmail`) and the phone (`CheckPhone`) among the others, each on what is
committed by then, and writes (`WriteProfile`); refused, it rolls back
(`Fails`). An email is an address and the way it is written, because
normalising it is what makes the look-up find it. A letter request reads the
profile, then writes, checks and perhaps revises. A draft is what the checks
can tell of it: the addresses and numbers it names and whether anything else is
wrong. `Foreign` follows the check of these: an address must be the user's, a
number of eight digits or more must end in the user's or the user's in it, and
a shorter one is not looked at. What has the look of two years is no number, so
drafts do not name it. `Matcher`'s
operators work on sequences of requirements and scores as the code does on
slices, in the same order of filtering, clamping and capping.

**`Sessions`.** A request is split where it takes time: `bcrypt`, and whatever
lies between the middleware and the handler's write. Times are ticks,
`Second` of them to a second; `Truncate` is what JWTs and
`password_changed_at` make of them.

**`WebSession`, `MatchesPage`.** A call in flight carries the token it was sent
with. `Served` and `Refused` are the API, which decides by that token. Which
tokens a password change leaves accepted, and which ended ones it makes
accepted `again`, is `Sessions`' matter (`CommitPassword`) and open here
(`PasswordChanged`), for changes of these tabs and of others
(`ChangedElsewhere`). `Receive` is what the tab does with the answer, at any
later time. Aborting a fetch removes it from `fetching`.

**Parts side by side.** Some runs hold several situations: the initial state
chooses who takes part (`here`, `Scenarios`) and the rest stay as they are.
Every state of such a run is one of its parts' own. It keeps instances small
where two situations do not interact, and is never used to separate actors that
do: those are together in one scenario.

**Abstract specifications.** `JobLifecycle` and `ResultLifecycle` have no
workers, claims or clock. They say which verdicts a posting or a result can
get, when, and what is charged for it; the refinement mapping counts an attempt
when its claim ends (`charged`), which shows that a shutdown and a missing CV
cost nothing and that a lost claim does.

## 3. Runs

| Run | Shows | Instance |
|---|---|---|
| `jobqueue` | with steps that end in time, unfenced writes are safe; postings settle; `JobLifecycle` is implemented | 2 postings, 2 workers, 2 texts, 3 attempts, 1 lost claim, 1 cancelled step |
| `jobqueue_slow` | a step that outlasts the stale timeout can take an embedded job back (finding) | 1 posting, 2 workers |
| `evaluation` | one evaluator, current scores, deletion final, newer CV prevails, results settle, `ResultLifecycle` is implemented | 1 result, 2 workers, 2 CVs, 2 requests, 4 attempts, 1 lost claim, 1 cancelled step |
| `evaluation_failing` | one failed attempt takes away the score of a result that is still queued (finding) | the same, without faults |
| `schedule` | an enabled search keeps a next run, within reach of its frequency with one exception, and gets it; runs are not doubled by schedulers alone | 2 schedulers, 2 requests, 2 frequencies, 2 changes, 1 lost run |
| `schedule_asked` | a run in progress overwrites the user's request for one (finding) | 1 scheduler, 1 request |
| `schedule_deleted` | an update that read before a deletion restores the search (finding) | 1 scheduler, 1 request |
| `portal` | slots keep their distance and pauses hold, waits are bounded; runs fetch no page twice, miss nothing and end | 4 postings, pages of one, 3 pages, 2 attempts; one run per portal alone, two runs, or a run and two loops |
| `results_list` | a walk neither skips nor repeats; totals, details and summaries agree, with the exceptions they state | 3 results of 2 searches, 3 lists, pages of one, 2 outcomes; a walk beside a triage or a claim, a summary or a detail beside a triage |
| `account_data` | nothing that was there outlives a deletion, the worker resurrects nothing, an export is whole, deletions end | 2 searches, 1 CV; five groups of up to four requests and workers |
| `sessions` | sessions and keys that ended stay so; no late answer, tab or filter confuses the browser but in the ways named; suggestions are made once | 2 requests, 2 passwords, 1 key, 3 seconds; 2 tabs, 2 calls, 2 people, 2 tokens; 3 filters, 3 pages; 3 suggestions, 2 URLs |
| `accounts_letters` | addresses are shared only by a race; letters name their user; the window holds; scores explain themselves | 2 requests, 2 ids, 2 addresses, 1 phone, with and without its country code and cut short; 2 letters; 4 ticks of a window of 3; answers of up to 4 requirements or 3 scores |

**Bounds.** Two workers are enough for every conflict over a row, since each
property is about at most two of them; two postings let one be preferred to the
other. Two CVs are an older and a newer one. The frequencies differ by one tick
and are at least twice the lease, as in the code (an hour against 30 minutes).
`MaxAttempts` is above one so that a retry, a backoff, its cap and giving up
all happen; lost claims and cancelled steps are bounded by `MaxLost` and
`MaxCancelled`, user changes by `MaxWrites`, `MaxUploads` and `MaxRequests`.

In `portal`, pages of one posting make every change of the list move something
over a page boundary, and three callers are the fewest of which one waits
behind two; `MaxTime` bounds when a call may begin, not how long it lasts. In
`results_list`, three results are one before, one at and one after the cursor,
and two scores lie on both sides of the strong score; the three lists are all,
a search's with both minimum scores, and one by both statuses and a time, which
leaves one result out. The result triaged is the one between the others by
time. An evaluation status moves once by itself, in a scenario of its own.

In `account_data`, each
group has every pair whose locks or rows meet. In `sessions`, three seconds of
two ticks are a change before, in and after the second of a token, and the
token lives four ticks, so it expires. In the tabs, what no password change
brings back is checked with two tabs, and states with a token that was brought
back with one tab in use (`Bounded` of `MCSessions`), which already has the two
calls that such a token is about. Three suggestions are a winner and two
losers. In `accounts_letters`, a window of three ticks with two events opens,
fills and slides; three criteria, one of them unknown, and lists of two of the
requirements kept make each filter and each cap matter.

Deadlock checking is on wherever a clock or a step can always go on. It is off
in `portal`, `results_list`, `account_data`, `sessions` and
`accounts_letters`: their requests are all answered in the end and a bounded
clock stops.

**Symmetry** is used in `sessions` only, over people, calls and tabs, of which
no definition tells one from another. That run has invariants and action
properties, no liveness, for which symmetry is sound.

**The premise on timeouts.** `StepsEndInTime` (a step, from its claim to its
write, takes at most `StaleTimeout`) is what `cmd/worker` sets its HTTP timeouts
up for (`main.go:103`). It is assumed by the `MC` modules and by the theorems
that need it, never by the models. `jobqueue_slow` drops it: waiting for a
portal's slot is part of the step, and the limiter's penalty (up to 10 minutes)
alone can exceed the default stale timeout (5 minutes). `RunsEndInTime` is its
counterpart for runs: below `RunTimeout`, of which a search's interval is at
least twice. With a shorter interval the `MarkRun` of an earlier, overlapping
run would cut a later run's lease short.

**Fairness.** `WF(Tick)`: time passes. `WF(Work(w))` for each loop: an idle
loop polls again after `PollInterval` or `SchedulerInterval`
(`pipeline.go:253`), and every call it makes has a timeout. `PortalRun`: timers
fire and calls return, so a run goes on; that a write fails is never owed,
except once the worker stops and every call with its context fails.
`AccountData`: a worker ends its transaction (weak), and a deletion that keeps
finding rows locked gets them (strong), since Postgres queues for a row in the
order of asking. With several workers taking shared locks in turn a row could
stay locked for ever in the model, which that queue forbids; the instance has
one worker for that reason. Nothing is assumed of users, crashes or shutdowns.
Liveness is stated for finitely many of those; without that bound a worker that
dies on every claim keeps a row open for ever.

**Named parts.** Some runs check a conjunction of properties that belong
together, each stated and explained by itself: `ScheduleInv`, `RunInv`, `WalkInv`,
`AnswersAgree`, `AccountInv`, `WindowInv`, `LettersInv`, `SuggestionInv` and
`ClientInv` (which contains `ListInv`), together with the type invariant of
their module. `SignInFindsEverybody`, `LockedRowStays` and `LastUseMovesOn` are
proved (below) and have no run.

**Exceptions are part of the properties.** Where the code allows something odd,
the property names exactly when, so that the run shows there is no other way:

* Two accounts share an address only when the check of one was overtaken by
  the write of the other (`SharedOnlyByRace`).
* An ended session is accepted again only through a password change that took
  its time earlier and its lock later (`EndedStaysUnlessOvertaken`).
* What outlives an account came after the deletion locked the user's row
  (`WhatWasThereGoes`), or belongs to such a search (`WorkersLeaveNothing`).
* Best-first pages may skip or repeat once the cursor's own result was scored
  anew (`NothingListedTwice`, `NothingLeftOut`).
* A run misses a posting only if one went from the portal, a page failed or
  there were too many (`NothingMissed`).
* A letter names old contact details only if the profile changed while it was
  written (`LettersNameTheirUser`).
* A tab shows another user than its token's only after another tab stored one,
  or after a late answer (`ShownUserIsOwners`); and a session the API accepts
  is lost only by the user's doing or through a late 401 to a call with an
  older token, or to one refused before a password change overtaken by another
  made its token accepted again (`AcceptedSessionKept`), in spite of "keep this
  tab signed in with the new one" (`SettingsView.vue:187`).
* The next run of a search lies further away than its frequency says only when
  the frequency changed while a run went on, which ends with the old one, or
  when an update writes such a row back (`NextRunInReach`).

## 4. Proofs

Every safety invariant and every action property that a passing run checks is
also a theorem, for every value of the constants that the assumptions of its
module allow. Each follows from an inductive invariant; most steps of the
induction are lemmas of their own, one per action.

`JobQueue_proofs`, for any sets of postings, workers and texts and any timeouts:

* `TypeCorrect`: `TypeOK` is an invariant of `Spec`. The induction needs that a
  step that works on a row has one and has been charged at least one attempt,
  because the outcome subtracts from it.
* Under `StepsEndInTime`: `Exclusion`, `Undisturbed` and `Matching`. Exclusion
  is not inductive by itself: a second claim of a held row must be ruled out,
  which follows if the row of a busy worker is `processing` and as old as the
  step (`ClaimUndisturbed`), for then it is not stale while the step may run.
  `ClaimUndisturbed` in turn needs exclusion, or another worker's outcome would
  disturb the row. The two are proved together, and the match of vector and
  description after them.
* `Finality` and `DescriptionsKept`, action properties that follow from that
  invariant: only the worker that holds a row writes it, and what it holds is
  neither embedded nor, when it fetched a description, described.
* `Refinement`: `JobQueue` implements `JobLifecycle`, by one lemma per action.

`Evaluation_proofs`, for any results, workers and scores:

* `TypeCorrect`, `Scores` (`ScoreIsCurrent`) and `StaysDeleted`
  (`DeletedStaysDeleted`) with no premise on time. An evaluation and the copy
  of its score are written in one transaction that first looks whether the
  result is there, so they need only that a step has a result and, once it
  scored, a CV.
* Under `StepsEndInTime`: `Exclusion` (`OneEvaluator`), by the argument of the
  jobs queue with two differences (`Undisturbed`): the row of a busy worker may
  be gone, and then the account is deleted, so no new result takes its place;
  and a row that is held is not one the user may queue again.
* `NewerPrevails`, the action property `NewerCVPrevails`. It needs exclusion and
  that a worker whose CV is older than the one last evaluated chose it after
  that one was deleted (`OlderChosenLate`); numbering CVs as they are stored
  keeps that true of uploads (`CVsKnown`).
* `Refinement`: `Evaluation` implements `ResultLifecycle`, by one lemma per
  action.

`SearchSchedule_proofs`, for any sets of schedulers, requests and intervals and
any bounds:

* `TypeCorrect`: `TypeOK` is an invariant of `Spec`; the work is in what
  `NextRun`, `Rescheduled` and the clock do to a wait.
* `Scheduled`: `ScheduleInv`, the types and `EnabledIsScheduled`. `Save` writes
  back the copy the request read, so the induction needs the same of every copy
  (`ReadsScheduled`).
* `Reachable`: the action property `NextRunInReach`. An update reckons from the
  last run or keeps the next run as it is; the latter is right of a search that
  never ran because that one is due within a lease (`NeverRan`), in the row and
  in every copy read from it.
* Under `RunsEndInTime` (a run ends before its lease, and two leases fit in
  every interval, as the default timeout has it): `OneRun`, that is
  `OneRunUnlessAsked`. Alone it is not inductive. The strengthening
  (`LeaseHolds`) says that while a run is alone the row is enabled and due no
  sooner than the lease of that run, so no claim can succeed. A run the API
  disturbed may still be marked meanwhile, which overwrites the lease: what it
  writes is the rest of an interval, and the second assumption makes that
  longer than the lease.

`PortalRun_proofs`, for any callers, portals, pages, intervals and penalties.
Every step of `PortalRun` is a step of the limiter or leaves it alone
(`RefinesLimiter`), so the limiter is proved about alone:

* `LimiterTypes`: the limiter's variables stay in their types.
* `Spaced` and `Quiet`. That slots are apart is not inductive: the next one must
  be an interval after every slot handed out, and not before the end of any
  pause (`SpacingInv`).
* `Waits`. The bound counts slots still to come, and its induction fails when
  time passes one of them; so it is generalised to the distance of the next
  slot from every booked one (`WaitInv`), of which the tick uses the one it
  passes.
* `RunsAreRight` (`RunInv`), and `Pages`, which is part of it. `PagesOf` says
  that the page a run is to fetch is none of those it has seen, and that it has
  seen fewer than it may. For what a run must not miss, the invariant
  (`RunIInv`) follows a posting from the portal's list to the table (`Whole`):
  while a run pages without a gap, a posting listed when it began is among its
  postings or ahead of the page it is to fetch, and nothing that comes up at the
  front moves it back; while it stores, the posting is among those left or
  stored. A posting that goes moves the others over the edge of a page, and then
  nothing is said. Of jobindex the postings kept are injective, because
  `WithPage` adds what is not there yet.

`ResultsList_proofs`, for any results, searches, scores, page size and requests:

* `WalksAreRight` (`WalkInv`). That nothing is listed twice or left out says
  nothing of how far a walk has come, so it is not inductive. What is
  (`ListedToCursor`): a result that keeps its place (`same`) is listed exactly
  if it does not stand behind the row the cursor names. A page preserves that
  because the order is total on different rows, because `LIMIT` takes a first
  part of what stands behind (`PageFacts`) and because the last row of the page
  becomes the cursor. It holds while the cursor's own row keeps its place
  (`Steady`), best first only; this is the exception the property states. The
  changes meanwhile need one lemma together (`WalkGoesOn`): they add rows or
  replace them, and what is moved or hidden leaves `same`.
* `AnswersAreRight` (`AnswersAgree`): sums over statuses and searches are sums
  of the sizes of disjoint sets, which are the size of their union (`SizesAddUp`);
  and outcomes of a result only grow, so the statement that reads last sees the
  newest (`DetailOK`).

`AccountData_proofs`, for any deletions, workers, searches, CVs, exports and
requests. `AccountSafety` (`AccountInv`) and `ExportsAreWhole`
(`ExportIsWhole`) need an invariant about who holds which lock (`IInv`): a
deletion that holds the user's row holds it alone, and what was there at that
time is still there (`OneHolds`); from then on the searches that were there,
then their results, are locked by it (`Deleting`), while a worker about to
insert or record holds a lock on the same row (`WorkersLock`), so none can add
to them; after each statement what it was to delete is deleted or about to be
(`Progress`); and once the account is gone, no worker is writing to what was
there (`Gone`). An export needs that rows refer only to rows that are there
(`NothingDangles`), in its snapshot too, and that it reads what is referred to
before what refers to it (`ExportsRead`).

`Sessions_proofs`, for any passwords, keys, requests, tabs, calls, people,
filters, suggestions and lengths of a second:

* Sessions and keys: `TypeCorrect`; `FreshAccepted`, which needs that a change's
  time is that of the token it hands out (`SessionInv`); `EndedStays`,
  `RejectedStays` and `LastUse`, action properties with one case per action.
* The browser: `WebTypeCorrect`, `ShownIsOwner` and `AcceptedKept`. Both action
  properties are about answers, which carry what the API decided when it got the
  call: the invariant (`WebIInv`) says whose token it then was and that a
  refused token is accepted now only if it is so again (`Lasting`): no step but
  the issue of a new token makes one accepted otherwise (`ChangedFacts`).
* `ListCorrect` (`ListInv`): what is being fetched is exactly what the list
  waits for (`Awaited`), so an answer received is the next page of the URL's
  filters.
* `SuggestedOnce` (`SuggestionInv`): a suggestion made, whose account was not
  deleted, is there, and the index lets no second one be made (`MadeOnce`).
* `ClientCorrect` (`ClientInv`): browser and list side by side.

`Letters_proofs`, for any requests, ids, addresses, letters, limits, windows and
answers:

* Accounts, by one inductive invariant (`AccountsInv`): `TypeCorrect`;
  `SharedByRace`, which needs that what an undisturbed request found of its
  address still holds (`CheckedInv`); for that, that all spellings are
  canonical, or equal addresses could differ (`CanonicalInv`), which is
  `SignIn`; and that the row of an update is there and locked by it from its
  first statement to its last (`LockedInv`), from which `LockedStays` follows.
  What an update found holds from its look for the email on (`Checked`). The
  letters' steps are steps
  of the accounts or leave them alone, so `SharedByRaceInLetters` follows.
* The limiter: `WithinTheLimit` (`WindowInv`). The property speaks of all events
  allowed, the code keeps only some; `WindowIInv` relates them: what is kept is
  the last part of what was allowed, in order of time, and what is not kept is
  older than the window (`LastOf`). So when the limit is reached in the list it
  is reached in the window. `LettersAreLimited`: the letters use it as specified.
* Letters: `LettersNameOwn` (`LettersNameTheirUser`). What a draft is checked
  against is its user's contact details as they are, or the profile moved since
  they were read (`OwnIsTheirs`); and what is not foreign to them is one of
  them, or too short to be a phone number (`NotForeign`).
* Matches: `MatchesAreRight` (`LettersInv`), that is of every answer of an LLM:
  the caps and bounds, that a score of each criterion is kept and is the first
  one (`KeptRight`, along the loop), and that the lists shown are the first ones
  that count, in order (lemmas about `Taken`).

**Assumptions.** The theorems assume what the modules' `ASSUME`s say of their
constants, which TLC evaluates: bounds and times are natural numbers; ids,
results and searches are finite sets of which sizes are taken; what scenarios,
answers and requests are made of is of the right kind (`ScenariosAssumption`,
`AnswersAssumption`); `NULL` and `None` are none of the values they stand
beside; actors of two kinds are not the same (`ActorsAssumption`,
`CallerAssumption`). Only the two premises on time, `StepsEndInTime` and `RunsEndInTime`, are about the code's
configuration; the theorems that need them name them.

**Loops over data** (paging's postings, backoff, scores kept and taken, sums)
are recursive functions, and the facts about them are proved by the least
number at which they would fail (`LeastNumber`); that such a function exists and
satisfies its equation is proved where it is needed. No module declares a
`RECURSIVE` operator.

**Left to TLC:** liveness (`JobSettles`, `EvaluationSettles`,
`EnabledSearchRuns`, `DeletionEnds`, `RunsEnd`), which needs fairness and
`ENABLED`, and the findings, which are counterexamples. Nothing here speaks of
starvation: rows never tried go before retries (`store.go:67`), so under an
endless stream of new rows a retry may wait for ever, which no instance with
finitely many postings or results shows.

## 5. Findings

1. `jobqueue_slow`: "the rare double run is harmless" (`store.go:54`) does not
   hold: a late failure writes over an embedded job (`pipeline.go:477`).
2. `evaluation_failing`: "the current evaluation stays until the new one
   replaces it" (`results.go:631`) does not hold for a failed attempt that will
   be retried, nor for one cut short by a shutdown (`pipeline.go:576-587`).
3. `schedule_asked`: `RunNow` during a run is lost (`sources.go:78`).
4. `schedule_deleted`: `Update` racing a deletion restores the search
   (`jobsearches.go:178`).

Noted while reading, with no run: `contracts.go:7-17` still describes a claim
held in a transaction that a crash rolls back; attempts lost to crashes are
counted but never checked against `MaxAttempts` until a later failure; "changing
`frequency` on a search that has already run reschedules it from `last_run_at`"
(`openapi.yaml:682-683`) is undone by a run under way, which ends with the
interval it was listed with (`pipeline.go:347`), the exception `NextRunInReach`
names;
`jobindex.go:209` resolves a posting's link as a path, so the absolute links of
its own test page come out as
`https://www.jobindex.dk/https:/www.jobindex.dk/c%3Ft=...`.

## 6. Not modelled

* **External or stateless**: LLM clients, CV text extraction and cleanup,
  parsing of portals' pages, prompts, HTTP decoding and encoding. What they may
  answer is a nondeterministic choice in the models that call them.
* **Start-up only**: migrations, configuration, the API process, seeding and
  the wiring of the worker. They run before any loop or handler.
* **Telemetry and observer**: measure, and change no state of the program.
* **Loader and one-shot processing**: development commands with a user and a
  search written into them. Run beside a worker they are a second, unfenced
  writer, which is what `jobqueue_slow` shows.
* **Parts of what is modelled**: validation and names of saved searches, the
  splitting of a CV into sections, those checks of a letter that do not concern
  contact details, password hashing but for the time it takes, redirects and
  the pages of the web client that load once and disable their buttons
  meanwhile, status codes of the handlers.

## 7. Plan

All modules planned are written, and all they promise of safety is proved. What
could still be done:

1. An abstract specification of an account's address book and of a search's
   schedule, in the manner of `JobLifecycle`, with their refinement proved.
2. The hazards without a property: starvation of retries (`store.go:67`), the
   one-shot loader beside a worker (`job.go:74`), and the CV page, whose list
   may be answered late (`useCVs.ts:91`).
3. Tenant separation of the handlers: which rows a user id reaches in
   `results.go` and `jobsearches.go`.
