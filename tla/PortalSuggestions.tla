-------------------------- MODULE PortalSuggestions --------------------------
(***************************************************************************)
(* POST /portal-suggestions of one user (services/portalsuggestions):      *)
(* Create looks for the suggestion, inserts it, and when the unique index  *)
(* on (user, URL) refuses the insert looks once more.  Meanwhile the       *)
(* account may be deleted, which takes its suggestions with it.            *)
(***************************************************************************)
EXTENDS Naturals, FiniteSets

CONSTANTS Suggestion, URL  \* requests, each sent once, and normalised URLs

VARIABLES
  suggested,  \* the URLs with a row
  asking,     \* where each request is, or what it was answered
  url,        \* the URL of each request
  cleared     \* the URLs whose row an account's deletion took

suggestionVars == <<suggested, asking, url, cleared>>

Ended == {"invalid", "created", "duplicate", "failed"}

SuggestionTypeOK ==
  /\ suggested \subseteq URL /\ cleared \subseteq URL
  /\ asking \in [Suggestion -> {"find", "insert", "find again"} \cup Ended]
  /\ url \in [Suggestion -> URL]
  /\ \A q \in Suggestion :
       asking[q] = "find again" => url[q] \in suggested \cup cleared

SuggestionInit ==
  /\ suggested \in SUBSET URL
  /\ asking = [q \in Suggestion |-> "find"]
  /\ url \in [Suggestion -> URL]
  /\ cleared = {}

Goes(q, to) ==
  /\ asking' = [asking EXCEPT ![q] = to]
  /\ UNCHANGED <<url, cleared>>

(* The parameters are wrong, or the portal is supported already.           *)
Invalid(q) ==
  /\ asking[q] = "find"
  /\ Goes(q, "invalid")
  /\ UNCHANGED suggested

Find(q) ==
  /\ asking[q] = "find"
  /\ Goes(q, IF url[q] \in suggested THEN "duplicate" ELSE "insert")
  /\ UNCHANGED suggested

(* The unique index lets one of two inserts through.                       *)
IsFree(u) == u \notin suggested

Insert(q) ==
  /\ asking[q] = "insert"
  /\ IF IsFree(url[q])
     THEN suggested' = suggested \cup {url[q]} /\ Goes(q, "created")
     ELSE Goes(q, "find again") /\ UNCHANGED suggested

LostRaceFails(q) ==
  /\ asking[q] = "find again"
  /\ Goes(q, "failed")
  /\ UNCHANGED suggested
LostRace(q) ==
  /\ asking[q] = "find again"
  /\ Goes(q, IF url[q] \in suggested THEN "duplicate" ELSE "failed")
  /\ UNCHANGED suggested

DeleteSuggestions ==
  /\ suggested # {}
  /\ cleared' = cleared \cup suggested
  /\ suggested' = {}
  /\ UNCHANGED <<asking, url>>

SuggestionNext ==
  \/ \E q \in Suggestion :
       Invalid(q) \/ Find(q) \/ Insert(q) \/ LostRace(q)
  \/ DeleteSuggestions

SuggestionSpec == SuggestionInit /\ [][SuggestionNext]_suggestionVars

-----------------------------------------------------------------------------
(* Properties.                                                             *)

(* However identical requests overlap, at most one is told that it created *)
(* the suggestion, none fails for losing the race, and what they are told  *)
(* is there, unless the account was deleted meanwhile                      *)
(* (portalsuggestions.go:83-101).                                          *)
EachSuggestedOnce ==
  \A u \in URL \ cleared :
    LET askers == {q \in Suggestion : url[q] = u}
    IN /\ Cardinality({q \in askers : asking[q] = "created"}) <= 1
       /\ \A q \in askers :
            /\ asking[q] # "failed"
            /\ asking[q] \in {"created", "duplicate"} => u \in suggested

(* A suggestion is made once, and a request that failed the unique index   *)
(* looks for a row that is or was there (portalsuggestions.go:83-101).     *)
SuggestionInv == SuggestionTypeOK /\ EachSuggestedOnce
=============================================================================
