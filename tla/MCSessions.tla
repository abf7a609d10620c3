------------------------------ MODULE MCSessions ------------------------------
(***************************************************************************)
(* The API's sessions, the web client's session and its list of matches,   *)
(* and suggestions of portals, each by itself: here tells which one moves. *)
(***************************************************************************)
EXTENDS Sessions, WebSession, MatchesPage, PortalSuggestions, TLC

CONSTANTS f1, u1

VARIABLE here

MCInit ==
  /\ here \in {"api", "tabs", "list", "suggestions"}
  /\ Init /\ WebInit /\ PageInit /\ SuggestionInit
  /\ here # "list" => wanted = f1
  /\ here # "suggestions" =>
       suggested = URL /\ url = [q \in Suggestion |-> u1]

(* Where ended tokens come back, the browser has one tab in use.           *)
OneTab ==
  \E p \in Tab :
    /\ \A q \in Tab \ {p} : tab[q] = Opened(NoToken)
    /\ \A c \in Call : call[c] = Free \/ call[c].tab \in {p, None}
Bounded == again = {} \/ OneTab

MCNext ==
  /\ UNCHANGED here
  /\ \/ /\ here = "api" /\ Next
        /\ UNCHANGED <<webVars, pageVars, suggestionVars>>
     \/ /\ here = "tabs" /\ WebNext /\ Bounded'
        /\ UNCHANGED <<vars, pageVars, suggestionVars>>
     \/ /\ here = "list" /\ PageNext
        /\ UNCHANGED <<vars, webVars, suggestionVars>>
     \/ /\ here = "suggestions" /\ SuggestionNext
        /\ UNCHANGED <<vars, webVars, pageVars>>

mcVars == <<vars, webVars, pageVars, suggestionVars, here>>

MCSpec == MCInit /\ [][MCNext]_mcVars

(* People, calls and tabs are alike.                                       *)
Alike == Permutations(Person) \cup Permutations(Call) \cup Permutations(Tab)

(* The web client: what its tabs hold, and its list (MatchesView.vue,      *)
(* stores/session.ts).                                                     *)
ClientInv == WebTypeOK /\ ListInv
=============================================================================
