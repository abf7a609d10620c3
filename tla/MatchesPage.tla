----------------------------- MODULE MatchesPage -----------------------------
(***************************************************************************)
(* The list on the matches page (web/src/views/MatchesView.vue): its       *)
(* filters live in the URL and may change while pages of the list are      *)
(* being fetched.  A page is known by the filters it was asked for with    *)
(* and its number; ResultsList says what is on it.                         *)
(***************************************************************************)
EXTENDS Sequences, Integers

CONSTANTS
  Filter,   \* what the URL can ask for
  MaxPages  \* bound on the pages of a list

ASSUME PagesAssumption == MaxPages \in Nat \ {0}

VARIABLES
  wanted,   \* the filters in the URL
  list,     \* what the page shows
  fetching  \* the calls in flight that were not aborted

pageVars == <<wanted, list, fetching>>

Fetches ==
  [kind : {"load", "more"}, filter : Filter, number : 1..MaxPages]

ListTypeOK ==
  /\ wanted \in Filter
  /\ list.status \in {"loading", "ready", "error"}
  /\ {list.hasMore, list.loadingMore} \subseteq BOOLEAN
  /\ Len(list.rows) <= MaxPages
  /\ fetching \subseteq Fetches
  /\ \A f, g \in fetching : f.kind = g.kind => f = g

Fetch(kind, f, n) == [kind |-> kind, filter |-> f, number |-> n]
Page(f) == [filter |-> f.filter, number |-> f.number]

NewList ==
  [status |-> "loading", rows |-> <<>>, hasMore |-> FALSE,
   loadingMore |-> FALSE]

PageInit ==
  /\ wanted \in Filter
  /\ list = NewList
  /\ fetching = {Fetch("load", wanted, 1)}

(* A load aborts the call that fetches the list, and the one that fetches  *)
(* more of it, which is sent with the same signal.                         *)
NothingAborted == fetching
NotAborted == {}

Load(filter) ==
  /\ list' = [list EXCEPT !.status = "loading", !.loadingMore = FALSE]
  /\ fetching' = NotAborted \cup {Fetch("load", filter, 1)}

SetQuery(filter) ==
  /\ filter # wanted
  /\ wanted' = filter
  /\ Load(filter)

Refresh ==
  /\ list.status # "loading"
  /\ Load(wanted)
  /\ UNCHANGED wanted

(* The user leaves the page, which aborts its calls, and opens it again.   *)
Reopen(filter) ==
  /\ wanted' = filter
  /\ list' = NewList
  /\ fetching' = {Fetch("load", filter, 1)}

LoadMore ==
  /\ list.status = "ready" /\ list.hasMore /\ ~list.loadingMore
  /\ list.rows # <<>>
  /\ list' = [list EXCEPT !.loadingMore = TRUE]
  /\ fetching' =
       fetching \cup {Fetch("more", wanted, Len(list.rows) + 1)}
  /\ UNCHANGED wanted

Replaced(f, hasMore) ==
  [list EXCEPT !.status = "ready", !.rows = <<Page(f)>>, !.hasMore = hasMore]

ExtendedButBusy(f, hasMore) ==
  [list EXCEPT !.rows = Append(@, Page(f)), !.hasMore = hasMore]
Extended(f, hasMore) ==
  [list EXCEPT !.rows = Append(@, Page(f)), !.hasMore = hasMore,
               !.loadingMore = FALSE]

(* The API answers with a page and whether there is more, or with none.    *)
Arrives(f) ==
  /\ f \in fetching
  /\ \E hasMore \in {m \in BOOLEAN : m => f.number < MaxPages} :
       list' = IF f.kind = "load" THEN Replaced(f, hasMore)
               ELSE Extended(f, hasMore)
  /\ fetching' = fetching \ {f}
  /\ UNCHANGED wanted

NothingFound(f) ==
  /\ f \in fetching /\ f.kind = "load"
  /\ list' = [Replaced(f, FALSE) EXCEPT !.rows = <<>>]
  /\ fetching' = fetching \ {f}
  /\ UNCHANGED wanted

FetchFails(f) ==
  /\ f \in fetching
  /\ list' = IF f.kind = "load" THEN [list EXCEPT !.status = "error"]
             ELSE [list EXCEPT !.loadingMore = FALSE]
  /\ fetching' = fetching \ {f}
  /\ UNCHANGED wanted

PageNext ==
  \/ \E filter \in Filter : SetQuery(filter) \/ Reopen(filter)
  \/ Refresh \/ LoadMore
  \/ \E f \in fetching : Arrives(f) \/ NothingFound(f) \/ FetchFails(f)

PageSpec == PageInit /\ [][PageNext]_pageVars

-----------------------------------------------------------------------------
(* Properties.                                                             *)

(* The list shown is of one query: the pages the URL asks for, in order    *)
(* and each once, whatever was being fetched when the filters changed      *)
(* (MatchesView.vue:122-157).                                              *)
ListIsOneQuery ==
  list.status = "ready" =>
    \A i \in DOMAIN list.rows :
      list.rows[i] = [filter |-> wanted, number |-> i]

(* The page waits only for an answer that can still come: it is loading    *)
(* exactly when the list of the URL's filters is being fetched, and its    *)
(* "Load more" is busy exactly when the next page is.                      *)
WaitsForAnAnswer ==
  /\ (list.status = "loading") =
       (Fetch("load", wanted, 1) \in fetching)
  /\ list.loadingMore = (\E f \in fetching : f.kind = "more")

(* The list follows the URL and never waits in vain                        *)
(* (MatchesView.vue:122-157).                                              *)
ListInv == ListTypeOK /\ ListIsOneQuery /\ WaitsForAnAnswer
=============================================================================
