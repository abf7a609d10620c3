------------------------------ MODULE PortalRun ------------------------------
(***************************************************************************)
(* The worker's calls to one portal: runs of saved searches                *)
(* (Pipeline.runPortal) that page through the portal's result list         *)
(* (scraper/linkedin, scraper/jobindex) and store what they find, and      *)
(* embed loops that fetch descriptions, all through the RateLimiter.       *)
(*                                                                         *)
(* The portal is the outside world: postings come up at the front of its   *)
(* list and go while a run pages through it, a page may fail, and the last *)
(* page may link back.  A posting is a model value; what a page says of it *)
(* is whether it has a title and an id.                                    *)
(***************************************************************************)
EXTENDS RateLimiter, Sequences, SequencesExt

CONSTANTS
  Search,           \* runs of searches, callers of the portal
  Loop,             \* embed loops, callers of the portal
  Posting,
  Untitled,         \* postings without a title
  Nameless,         \* postings without an id
  Scenarios,        \* callers that take part, the portal, what it lists
  PageSize, MaxPages,
  PortalAttempts, PortalBackoff

ASSUME CallerAssumption ==
  Caller = Search \cup Loop /\ Search \cap Loop = {}
ASSUME PostingAssumption ==
  Untitled \subseteq Posting /\ Nameless \subseteq Posting
ASSUME ScenarioAssumption ==
  \A s \in Scenarios :
    /\ s.callers \subseteq Caller /\ s.portal \in {"linkedin", "jobindex"}
    /\ s.lists \in Seq(Posting) /\ s.comesUp \subseteq Posting
ASSUME NumberAssumption ==
  /\ PageSize \in Nat \ {0} /\ MaxPages \in Nat \ {0}
  /\ PortalAttempts \in Nat \ {0} /\ PortalBackoff \in Nat

VARIABLES
  here,      \* the scenario
  stopping,  \* the worker is shutting down: the context is done
  site,      \* what the portal lists, in order
  unlisted,  \* postings still to come up
  run,       \* each run of a search
  stored     \* the search results the runs have stored

runVars == <<here, stopping, site, unlisted, run, stored>>
vars == <<limiterVars, runVars>>

NotRun ==
  [at |-> "new", attempt |-> 1, until |-> 0, page |-> 1, seen |-> <<>>,
   posts |-> <<>>, due |-> {}, gap |-> FALSE]

Runs ==
  [at : {"new", "search", "backoff", "store", "done", "failed"},
   attempt : 1..PortalAttempts, until : Nat,
   page : Nat, seen : Seq(Nat), posts : Seq(Posting),
   due : SUBSET Posting, gap : BOOLEAN]

TypeOK ==
  /\ LimiterTypeOK
  /\ here \in Scenarios /\ stopping \in BOOLEAN
  /\ site \in Seq(Posting) /\ unlisted \subseteq Posting
  /\ run \in [Search -> Runs]
  /\ stored \subseteq (Posting \ Nameless) \X Search

Init ==
  /\ LimiterInit
  /\ here \in Scenarios /\ stopping = FALSE
  /\ site = here.lists
  /\ unlisted = here.comesUp
  /\ run = [r \in Search |-> NotRun]
  /\ stored = {}

-----------------------------------------------------------------------------
(* Pages.                                                                  *)

HasNext(n) == Len(site) > n * PageSize
PageOf(n) ==
  SubSeq(site, (n - 1) * PageSize + 1,
         IF HasNext(n) THEN n * PageSize ELSE Len(site))

KeptAsListed(posts, p) == p \notin Untitled
(* LinkedIn's cards are kept as they come, Jobindex's once each: a page    *)
(* has them in its Stash and in its HTML, under the same key.              *)
Kept(posts, p) ==
  /\ p \notin Untitled
  /\ here.portal = "jobindex" => p \notin Range(posts)

(* Card by card.                                                           *)
WithPage(posts, cards) ==
  LET after[i \in 0..Len(cards)] ==
        IF i = 0 THEN posts
        ELSE IF Kept(after[i - 1], cards[i])
             THEN Append(after[i - 1], cards[i]) ELSE after[i - 1]
  IN after[Len(cards)]

VisitsOneMore(seen, n) == n \notin Range(seen) /\ Len(seen) <= MaxPages
(* OnRequest, and the look before a link is followed.                      *)
Visits(seen, n) == n \notin Range(seen) /\ Len(seen) < MaxPages

-----------------------------------------------------------------------------
(* A run of a search.                                                      *)

Becomes(r, v) == run' = [run EXCEPT ![r] = v]
Ends(r, how) == Becomes(r, [NotRun EXCEPT !.at = how])

(* Search waits for its slot, on the first attempt or after the backoff.   *)
StartSearch(r) ==
  /\ ~stopping
  /\ \/ run[r].at = "new"
     \/ run[r].at = "backoff" /\ run[r].until <= now
  /\ run[r].at = "new" => Start <= MaxTime
  /\ Reserve(r)
  /\ Becomes(r, [NotRun EXCEPT !.at = "search", !.attempt = run[r].attempt])
  /\ UNCHANGED <<here, stopping, site, unlisted, stored>>

SearchBegins(r) ==
  /\ WaitEnds(r)
  /\ Becomes(r, [run[r] EXCEPT !.due = Range(site)])
  /\ UNCHANGED <<here, stopping, site, unlisted, stored>>

Walking(r) == call[r].at = "call" /\ run[r].page # 0

FetchPage(r, link) ==
  /\ Walking(r)
  /\ LET n == run[r].page
         seen == Append(run[r].seen, n)
         follows == Visits(seen, link)
     IN /\ link \in IF HasNext(n) THEN {n + 1} ELSE {0} \cup Range(seen)
        /\ Becomes(r, [run[r] EXCEPT
             !.seen = seen,
             !.posts = WithPage(@, PageOf(n)),
             !.page = IF link # 0 /\ follows THEN link ELSE 0,
             !.gap = @ \/ (HasNext(n) /\ ~follows)])
  /\ UNCHANGED <<limiterVars, here, stopping, site, unlisted, stored>>

(* A later page fails: that is logged, and the search keeps what it has.   *)
PageFails(r) ==
  /\ Walking(r) /\ run[r].seen # <<>>
  /\ Becomes(r, [run[r] EXCEPT !.page = 0, !.gap = TRUE])
  /\ UNCHANGED <<limiterVars, here, stopping, site, unlisted, stored>>

SearchReturns(r) ==
  /\ run[r].at = "search" /\ run[r].page = 0
  /\ Succeeds(r)
  /\ Becomes(r, [run[r] EXCEPT !.at = "store"])
  /\ UNCHANGED <<here, stopping, site, unlisted, stored>>

Retries(r) == run[r].attempt < PortalAttempts /\ ~stopping

(* PortalBackoff << (attempt - 1).                                         *)
Delay[attempt \in 1..PortalAttempts] ==
  IF attempt = 1 THEN PortalBackoff ELSE 2 * Delay[attempt - 1]

(* The first page fails: the run tries again a few times.                  *)
SearchFails(r) ==
  /\ Walking(r) /\ run[r].seen = <<>>
  /\ Fails(r)
  /\ IF Retries(r)
     THEN Becomes(r, [NotRun EXCEPT
            !.at = "backoff", !.attempt = run[r].attempt + 1,
            !.until = now + Delay[run[r].attempt]])
     ELSE Ends(r, "failed")
  /\ UNCHANGED <<here, stopping, site, unlisted, stored>>

BlankEnds(r) == Becomes(r, [run[r] EXCEPT !.at = "done", !.posts = <<>>])
BlankAgain(r) == UNCHANGED run
SkipBlank(r) == Becomes(r, [run[r] EXCEPT !.posts = Tail(@)])

(* Each posting with an id becomes a job and a result of the search.       *)
StorePosting(r) ==
  /\ run[r].at = "store" /\ run[r].posts # <<>>
  /\ LET p == Head(run[r].posts)
     IN IF p \in Nameless
        THEN SkipBlank(r) /\ UNCHANGED stored
        ELSE /\ ~stopping
             /\ stored' = stored \cup {<<p, r>>}
             /\ Becomes(r, [run[r] EXCEPT !.posts = Tail(@)])
  /\ UNCHANGED <<limiterVars, here, stopping, site, unlisted>>

RunDone(r) ==
  /\ run[r].at = "store" /\ run[r].posts = <<>>
  /\ Becomes(r, [run[r] EXCEPT !.at = "done", !.seen = <<>>])
  /\ UNCHANGED <<limiterVars, here, stopping, site, unlisted, stored>>

(* A write fails, which ends the run with what it has stored.              *)
StoreFails(r) ==
  /\ run[r].at = "store" /\ run[r].posts # <<>>
  /\ Ends(r, "failed")
  /\ UNCHANGED <<limiterVars, here, stopping, site, unlisted, stored>>

(* The context is done: in the wait or in the backoff.  The scrapers do    *)
(* not look at it, so a call under way goes on to its end.                 *)
SearchCancelled(r) ==
  /\ stopping
  /\ \/ WaitCancelled(r)
     \/ run[r].at = "backoff" /\ UNCHANGED limiterVars
  /\ Ends(r, "failed")
  /\ UNCHANGED <<here, stopping, site, unlisted, stored>>

-----------------------------------------------------------------------------
(* Embed loops, the world and time.                                        *)

StartDetails(l) ==
  /\ ~stopping
  /\ Start <= MaxTime
  /\ Reserve(l)
  /\ UNCHANGED runVars

(* GetJobDetails: no link, no page and no text on it are failures alike.   *)
DetailsAnswer(l) == Succeeds(l) /\ UNCHANGED runVars
DetailsFail(l) == Fails(l) /\ UNCHANGED runVars
DetailsBegin(l) == WaitEnds(l) /\ UNCHANGED runVars
DetailsCancelled(l) ==
  /\ stopping
  /\ WaitCancelled(l)
  /\ UNCHANGED runVars

Shutdown ==
  /\ ~stopping
  /\ stopping' = TRUE
  /\ UNCHANGED <<limiterVars, here, site, unlisted, run, stored>>

PostingComesUp(p) ==
  /\ p \in unlisted
  /\ site' = <<p>> \o site
  /\ unlisted' = unlisted \ {p}
  /\ UNCHANGED <<limiterVars, here, stopping, run, stored>>

(* What follows moves up, perhaps over the edge of a page a run has read.  *)
PostingGoes(i) ==
  /\ i \in DOMAIN site
  /\ site' = RemoveAt(site, i)
  /\ run' = [r \in Search |->
       IF call[r].at = "call" THEN [run[r] EXCEPT !.gap = TRUE] ELSE run[r]]
  /\ UNCHANGED <<limiterVars, here, stopping, unlisted, stored>>

(* Time goes on while there is time to begin calls, or somebody sleeps.    *)
TimePasses ==
  /\ \/ now < MaxTime
     \/ \E c \in Caller : call[c].at = "wait" /\ call[c].slot > now
     \/ \E r \in Search : run[r].at = "backoff" /\ run[r].until > now
  /\ Tick
  /\ UNCHANGED runVars

SearchGoesOn(r) ==
  \/ StartSearch(r) \/ SearchBegins(r)
  \/ \E link \in 0..(MaxPages + 1) : FetchPage(r, link)
  \/ PageFails(r) \/ SearchReturns(r) \/ SearchFails(r)
  \/ StorePosting(r) \/ RunDone(r)

SearchSteps(r) == SearchGoesOn(r) \/ StoreFails(r) \/ SearchCancelled(r)

LoopSteps(l) ==
  \/ StartDetails(l) \/ DetailsBegin(l) \/ DetailsAnswer(l)
  \/ DetailsFail(l) \/ DetailsCancelled(l)

Next ==
  \/ \E r \in Search \cap here.callers : SearchSteps(r)
  \/ \E l \in Loop \cap here.callers : LoopSteps(l)
  \/ Shutdown
  \/ \E p \in Posting : PostingComesUp(p)
  \/ \E i \in DOMAIN site : PostingGoes(i)
  \/ TimePasses

Spec == Init /\ [][Next]_vars

(* Timers fire, calls return, and nothing waits or writes with a context   *)
(* that is done.  A write that fails otherwise is nothing to count on.     *)
Fairness ==
  /\ \A r \in Search :
       /\ WF_vars(r \in here.callers /\ SearchGoesOn(r))
       /\ WF_vars(stopping /\ (StoreFails(r) \/ SearchCancelled(r)))
  /\ WF_vars(TimePasses)

FairSpec == Spec /\ Fairness

-----------------------------------------------------------------------------
(* Properties.                                                             *)

(* A run never fetches a page twice, however the portal links its pages,   *)
(* and never more of them than it may (linkedin.go:125-135,                *)
(* jobindex.go:180-190).                                                   *)
PagesOnce ==
  \A r \in Search :
    IsInjective(run[r].seen) /\ Len(run[r].seen) <= MaxPages

(* Jobindex's postings are listed once each, although a page has them      *)
(* twice and one that moves to the next page is seen on both               *)
(* (jobindex.go:153-169).                                                  *)
JobindexListsOnce ==
  here.portal = "jobindex" => \A r \in Search : IsInjective(run[r].posts)

(* A run that succeeds has stored every posting with a title and an id     *)
(* that the portal listed when the search began, whatever came up while it *)
(* paged, unless a posting went, a page failed or there were more pages    *)
(* than it may fetch (pipeline.go:357-400 and the scrapers).               *)
NothingMissed ==
  \A r \in Search :
    run[r].at = "done" /\ ~run[r].gap =>
      \A p \in run[r].due \ (Untitled \cup Nameless) : <<p, r>> \in stored

(* Every search of a portal comes to an end, however many others book      *)
(* slots before it tries again and however often it is refused             *)
(* (pipeline.go:366-379, ratelimit.go:93-110).                             *)
RunsEnd ==
  \A r \in Search :
    run[r].at = "search" ~> run[r].at \in {"done", "failed"}

(* What a run asks a portal for, keeps and stores is right, page by page   *)
(* (pipeline.go:357-400 and the scrapers).                                 *)
RunInv == TypeOK /\ PagesOnce /\ JobindexListsOnce /\ NothingMissed
=============================================================================
