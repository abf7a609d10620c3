------------------------------ MODULE WebSession ------------------------------
(***************************************************************************)
(* The web client's session (web/src/stores/session.ts, api/client.ts,     *)
(* main.ts): tabs of one browser share the token in localStorage, each has *)
(* the session's user in its memory, and calls to the API are answered     *)
(* late and in any order.                                                  *)
(*                                                                         *)
(* Tokens are numbered in the order in which they are issued.  Of the API  *)
(* only the tokens it accepts matter here; Sessions says which they are.   *)
(* Sign-up is a sign-in; a saved profile and a profile that was loaded     *)
(* differ in who waits for them.                                           *)
(***************************************************************************)
EXTENDS Sequences, Integers

CONSTANTS
  Tab, Person,
  Call,      \* calls that can be in flight at once
  None,      \* nobody, and no call
  MaxTokens  \* bound on the tokens issued

ASSUME NoneAssumption == None \notin Tab \cup Person \cup Call
ASSUME TokensAssumption == MaxTokens \in Nat

VARIABLES
  issued,    \* the owner of each token issued
  accepted,  \* the tokens the API accepts
  ended,     \* those a password change ended, not expired yet
  again,     \* the accepted ones that had ended before
  stored,    \* the token in localStorage
  tab,       \* what each tab holds in memory
  call       \* what each call in flight carries

tokenVars == <<accepted, ended, again>>
webVars == <<issued, tokenVars, stored, tab, call>>

NoToken == 0
Tabs == [signedIn : BOOLEAN, user : Person \cup {None},
         loading : Call \cup {None}]
Free == [at |-> "free"]
Calls ==
  [at : {"sent", "answered"}, tab : Tab \cup {None},
   kind : {"me", "save", "signin", "password", "deletion", "other"},
   token : 0..MaxTokens, who : Person \cup {None},
   result : {"none", "ok", "unauthorized"}, fresh : 0..MaxTokens]

WebTypeOK ==
  /\ Len(issued) <= MaxTokens /\ \A t \in DOMAIN issued : issued[t] \in Person
  /\ accepted \subseteq DOMAIN issued /\ ended \subseteq DOMAIN issued
  /\ accepted \cap ended = {} /\ again \subseteq accepted
  /\ stored \in {NoToken} \cup DOMAIN issued
  /\ tab \in [Tab -> Tabs]
  /\ call \in [Call -> {Free} \cup Calls]
  /\ \A p \in Tab : tab[p].loading # None =>
       LET c == tab[p].loading
       IN call[c] # Free /\ call[c].tab = p /\ call[c].kind = "me"

Opened(t) == [signedIn |-> t # NoToken, user |-> None, loading |-> None]

WebInit ==
  /\ issued = <<>> /\ stored = NoToken
  /\ accepted = {} /\ ended = {} /\ again = {}
  /\ tab = [p \in Tab |-> Opened(NoToken)]
  /\ call = [c \in Call |-> Free]

-----------------------------------------------------------------------------
(* What the user does in a tab.                                            *)

(* The token is read when the call is sent; sign-in sends none.            *)
Carried(kind) == IF kind = "signin" THEN NoToken ELSE stored

Send(p, c, kind, who) ==
  /\ call[c] = Free
  /\ call' = [call EXCEPT ![c] =
       [at |-> "sent", tab |-> p, kind |-> kind, token |-> Carried(kind),
        who |-> who, result |-> "none", fresh |-> NoToken]]
  /\ UNCHANGED <<issued, tokenVars, stored>>

(* The router shows the sign-in page to a tab that is not signed in.       *)
SignIn(p, c, who) ==
  /\ ~tab[p].signedIn
  /\ Send(p, c, "signin", who)
  /\ UNCHANGED tab

LoadUser(p, c) ==
  /\ tab[p].signedIn /\ tab[p].user = None /\ tab[p].loading = None
  /\ Send(p, c, "me", None)
  /\ tab' = [tab EXCEPT ![p].loading = c]

(* The settings show the profile, and save it, once it is loaded.          *)
Submit(p, c) ==
  /\ tab[p].signedIn
  /\ \E kind \in {"save", "password", "deletion", "other"} :
       /\ kind = "save" => tab[p].user # None
       /\ Send(p, c, kind, None)
  /\ UNCHANGED tab

SignedOut == Opened(NoToken)

SignOut(p) ==
  /\ tab[p].signedIn
  /\ stored' = NoToken
  /\ tab' = [tab EXCEPT ![p] = SignedOut]
  /\ UNCHANGED <<issued, tokenVars, call>>

(* Nobody waits any more for the answers to the calls the tab had sent,    *)
(* though the API may still serve them.                                    *)
Reload(p) ==
  /\ tab' = [tab EXCEPT ![p] = Opened(stored)]
  /\ call' = [c \in Call |->
       CASE call[c].at = "sent" /\ call[c].tab = p ->
              [call[c] EXCEPT !.tab = None]
         [] call[c].at = "answered" /\ call[c].tab = p -> Free
         [] OTHER -> call[c]]
  /\ UNCHANGED <<issued, tokenVars, stored>>

-----------------------------------------------------------------------------
(* What the API does.                                                      *)

Answered(c, result, who, fresh) ==
  call' = [call EXCEPT ![c] =
    IF call[c].tab = None THEN Free
    ELSE [@ EXCEPT !.at = "answered", !.result = result, !.who = who,
                   !.fresh = fresh]]

NewToken(who) == issued' = Append(issued, who)
NextToken == Len(issued) + 1
Of(who) == {t \in accepted \cup ended : issued[t] = who}

(* Wrong credentials, or a token that is not accepted.                     *)
Refused(c) ==
  /\ call[c].at = "sent"
  /\ call[c].kind # "signin" => call[c].token \notin accepted
  /\ Answered(c, "unauthorized", None, NoToken)
  /\ UNCHANGED <<issued, tokenVars, stored, tab>>

SignInServed(c) ==
  /\ call[c].at = "sent" /\ call[c].kind = "signin"
  /\ Len(issued) < MaxTokens
  /\ NewToken(call[c].who)
  /\ accepted' = accepted \cup {NextToken}
  /\ Answered(c, "ok", call[c].who, NextToken)
  /\ UNCHANGED <<ended, again, stored, tab>>

(* A password change ends the user's sessions of earlier seconds; one that *)
(* another change overtook brings some back that the other had ended.      *)
(* Which ones are left, their times tell (CommitPassword of Sessions).     *)
PasswordChanged(who, fresh) ==
  \E left \in SUBSET Of(who) :
    /\ accepted' = (accepted \ Of(who)) \cup left \cup fresh
    /\ ended' = (ended \cup Of(who)) \ left
    /\ again' = accepted' \cap (again \cup ended)

TokensGone(gone) ==
  /\ accepted' = accepted \ gone
  /\ ended' = ended \ gone
  /\ again' = again \ gone

Served(c) ==
  /\ call[c].at = "sent" /\ call[c].token \in accepted
  /\ LET who == issued[call[c].token]
     IN \/ /\ call[c].kind \in {"me", "save", "other"}
           /\ Answered(c, "ok", who, NoToken)
           /\ UNCHANGED <<issued, tokenVars>>
        \/ /\ call[c].kind = "password" /\ Len(issued) < MaxTokens
           /\ NewToken(who)
           /\ PasswordChanged(who, {NextToken})
           /\ Answered(c, "ok", who, NextToken)
        \/ /\ call[c].kind = "deletion"
           /\ TokensGone(Of(who))
           /\ Answered(c, "ok", who, NoToken)
           /\ UNCHANGED issued
  /\ UNCHANGED <<stored, tab>>

(* A token expires, or its user's account is deleted elsewhere.            *)
TokenEnds ==
  /\ \E t \in accepted \cup ended : TokensGone({t})
  /\ UNCHANGED <<issued, stored, tab, call>>

ChangedElsewhere ==
  /\ \E who \in Person : PasswordChanged(who, {})
  /\ UNCHANGED <<issued, stored, tab, call>>

-----------------------------------------------------------------------------
(* An answer arrives in its tab.                                           *)

(* An authenticated call that was refused ends the session there is now.   *)
EndsAny(c) == call[c].result = "unauthorized"
EndsSession(c) == call[c].result = "unauthorized" /\ call[c].kind # "signin"

StartedOver(p, c) ==
  [tab[p] EXCEPT !.signedIn = TRUE,
                 !.user = IF @ = None THEN call[c].who ELSE @]
Started(p, c) == [tab[p] EXCEPT !.signedIn = TRUE, !.user = call[c].who]

Loaded(p, c) ==
  [tab[p] EXCEPT !.user = call[c].who,
                 !.loading = IF @ = c THEN None ELSE @]

Receive(p, c) ==
  /\ call[c].at = "answered" /\ call[c].tab = p
  /\ LET over == EndsSession(c)
         ok == call[c].result = "ok"
         starts == ok /\ call[c].kind \in {"signin", "password"}
         leaves == over \/ (ok /\ call[c].kind = "deletion")
     IN /\ stored' = CASE leaves -> NoToken
                       [] starts -> call[c].fresh
                       [] OTHER -> stored
        /\ tab' = [tab EXCEPT ![p] =
             CASE leaves -> SignedOut
               [] starts -> Started(p, c)
               [] ok /\ call[c].kind \in {"me", "save"} -> Loaded(p, c)
               [] OTHER -> @]
  /\ call' = [call EXCEPT ![c] = Free]
  /\ UNCHANGED <<issued, tokenVars>>

(* The network or the API fails, before the call is served or after.       *)
Fails(p, c) ==
  /\ call[c] # Free /\ call[c].tab = p
  /\ tab' = [tab EXCEPT ![p].loading = IF @ = c THEN None ELSE @]
  /\ call' = [call EXCEPT ![c] = Free]
  /\ UNCHANGED <<issued, tokenVars, stored>>

WebNext ==
  \/ \E p \in Tab :
       \/ SignOut(p) \/ Reload(p)
       \/ \E c \in Call :
            \/ LoadUser(p, c) \/ Submit(p, c)
            \/ Receive(p, c) \/ Fails(p, c)
            \/ \E who \in Person : SignIn(p, c, who)
  \/ \E c \in Call :
       Refused(c) \/ SignInServed(c) \/ Served(c)
  \/ TokenEnds \/ ChangedElsewhere

WebSpec == WebInit /\ [][WebNext]_webVars

-----------------------------------------------------------------------------
(* Properties.                                                             *)

(* The tab shows a user whose session its calls do not act under.          *)
ShowsAnother(p) ==
  /\ tab[p].signedIn /\ tab[p].user # None /\ stored # NoToken
  /\ tab[p].user # issued[stored]

(* A tab comes to show another user than the one its calls act for only in *)
(* two ways: another tab stored a token, or an answer came late, to a call *)
(* that was sent under an earlier session (stores/session.ts:31-90).       *)
ShownUserIsOwners ==
  [][\A p \in Tab : ~ShowsAnother(p) /\ ShowsAnother(p)' =>
       \/ tab'[p] = tab[p]
       \/ \E c \in Call :
            /\ call[c] # Free /\ call'[c] = Free
            /\ call[c].tab = p /\ call[c].token # stored]_webVars

(* A session the API accepts is lost to the browser only when the user     *)
(* leaves it, when another takes its place, or through the late 401 of a   *)
(* call that carried another token, or that was refused before the session *)
(* was accepted again (main.ts:9-15, api/client.ts:100,                    *)
(* users/account.go:122-142).                                              *)
AcceptedSessionKept ==
  [][(stored # NoToken /\ stored \in accepted' /\ stored' = NoToken) =>
       \/ \E p \in Tab : tab[p].signedIn /\ ~tab'[p].signedIn /\ call' = call
       \/ \E c \in Call :
            /\ call[c] # Free /\ call'[c] = Free
            /\ \/ call[c].kind = "deletion" /\ call[c].result = "ok"
               \/ /\ call[c].kind # "signin"
                  /\ call[c].token # stored \/ stored \in again]_webVars
=============================================================================
