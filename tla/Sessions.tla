------------------------------- MODULE Sessions -------------------------------
(***************************************************************************)
(* The credentials of one user: the password, the session tokens (JWTs)    *)
(* and the API keys, as requests that overlap read and write them          *)
(* (services/users, services/apikeys, servers/middleware).                 *)
(*                                                                         *)
(* A token is known by its issued-at, the only claim that tells two tokens *)
(* of the user apart.  Time is in ticks, Second of them to a second: JWT   *)
(* times and password_changed_at are whole seconds.  bcrypt takes a while, *)
(* so what it works on is read in one step and used in a later one.        *)
(***************************************************************************)
EXTENDS Integers

CONSTANTS
  Request,   \* requests that can be in flight at once
  Password, APIKey, NULL,
  Second,    \* ticks in a second
  TokenTTL,  \* how long a token lives
  Minute,    \* lastUsedResolution
  MaxTime    \* bound on the clock

ASSUME TimeAssumption ==
  /\ Second \in Nat \ {0} /\ TokenTTL \in Nat \ {0}
  /\ Minute \in Nat /\ MaxTime \in Nat
ASSUME NullAssumption ==
  /\ NULL \notin Password /\ NULL \notin APIKey /\ NULL \notin Nat

VARIABLES
  now,
  user,      \* the users row, NULL once deleted
  tokens,    \* issued-at of every token issued
  keys,      \* api_keys: "unissued", "active", "revoked" or "deleted"
  lastUsed,  \* api_keys.last_used_at
  request    \* what each request in flight holds

vars == <<now, user, tokens, keys, lastUsed, request>>

Time == 0..MaxTime
Users == [password : Password, changedAt : Time \cup {NULL}]
Idle == [at |-> "idle"]

Requests ==
  {Idle} \cup [at : {"issue", "act", "delete"}]
  \cup [at : {"touch"}, key : APIKey, time : Time]
  \cup [at : {"change"}, current : Password, next : Password, time : Time]

TypeOK ==
  /\ now \in Time
  /\ user \in Users \cup {NULL}
  /\ tokens \subseteq Time
  /\ keys \in [APIKey -> {"unissued", "active", "revoked", "deleted"}]
  /\ lastUsed \in [APIKey -> Time \cup {NULL}]
  /\ request \in [Request -> Requests]

(* The user has just signed up.                                            *)
Init ==
  /\ now = 0
  /\ \E p \in Password : user = [password |-> p, changedAt |-> NULL]
  /\ tokens = {0}
  /\ keys = [k \in APIKey |-> "unissued"]
  /\ lastUsed = [k \in APIKey |-> NULL]
  /\ request = [q \in Request |-> Idle]

-----------------------------------------------------------------------------
(* What is accepted.                                                       *)

Truncate(t) == t - (t % Second)

PasswordIs(p) == user # NULL /\ user.password = p

Unexpired(t) == t <= now /\ now < t + TokenTTL

SessionValid(t) ==
  /\ user # NULL
  /\ user.changedAt # NULL => ~(t < Truncate(user.changedAt))

SessionAccepted(t) == t \in tokens /\ Unexpired(t) /\ SessionValid(t)

KeyAccepted(k) == keys[k] = "active" /\ user # NULL

-----------------------------------------------------------------------------
(* Requests.  A request that is refused changes nothing and is left out    *)
(* unless it has changed something before, or read what it uses later.     *)

Becomes(q, r) == request' = [request EXCEPT ![q] = r]

(* Signin finds the password right; bcrypt's answer comes later.           *)
Signin(q) ==
  /\ request[q] = Idle
  /\ \E p \in Password : PasswordIs(p)
  /\ Becomes(q, [at |-> "issue"])
  /\ UNCHANGED <<now, user, tokens, keys, lastUsed>>

GenerateTokenSaving(q) ==
  /\ request[q].at = "issue"
  /\ tokens' = tokens \cup {Truncate(now)}
  /\ user' = IF user = NULL THEN NULL ELSE [user EXCEPT !.changedAt = NULL]
  /\ Becomes(q, Idle)
  /\ UNCHANGED <<now, keys, lastUsed>>

GenerateToken(q) ==
  /\ request[q].at = "issue"
  /\ tokens' = tokens \cup {Truncate(now)}
  /\ Becomes(q, Idle)
  /\ UNCHANGED <<now, user, keys, lastUsed>>

(* The middleware lets a request through to its handler.                   *)
AuthenticateSession(q) ==
  /\ request[q] = Idle
  /\ \E t \in tokens : SessionAccepted(t)
  /\ Becomes(q, [at |-> "act"])
  /\ UNCHANGED <<now, user, tokens, keys, lastUsed>>

VerifyKey(q, k) ==
  /\ request[q] = Idle
  /\ KeyAccepted(k)
  /\ Becomes(q, [at |-> "touch", key |-> k, time |-> now])
  /\ UNCHANGED <<now, user, tokens, keys, lastUsed>>

UsedLongAgo(k, t) == lastUsed[k] # NULL => lastUsed[k] < t - Minute

TouchKeySaved(q) ==
  /\ request[q].at = "touch"
  /\ lastUsed' = [lastUsed EXCEPT ![request[q].key] = request[q].time]
  /\ keys' = [keys EXCEPT ![request[q].key] = "active"]
  /\ Becomes(q, [at |-> "act"])
  /\ UNCHANGED <<now, user, tokens>>

(* The key was good when it was read: a key revoked since is not touched,  *)
(* and its request goes on all the same.                                   *)
TouchKey(q) ==
  /\ request[q].at = "touch"
  /\ LET k == request[q].key
         t == request[q].time
     IN lastUsed' = IF keys[k] = "active" /\ UsedLongAgo(k, t)
                    THEN [lastUsed EXCEPT ![k] = t] ELSE lastUsed
  /\ Becomes(q, [at |-> "act"])
  /\ UNCHANGED <<now, user, tokens, keys>>

TouchFails(q) ==
  /\ request[q].at = "touch"
  /\ Becomes(q, Idle)
  /\ UNCHANGED <<now, user, tokens, keys, lastUsed>>

(* GET /me and every other handler that writes nothing here.               *)
Answer(q) ==
  /\ request[q].at = "act"
  /\ Becomes(q, Idle)
  /\ UNCHANGED <<now, user, tokens, keys, lastUsed>>

(* ChangePassword hashes the new password, then takes the time of the      *)
(* change, then waits for the lock on the user's row.                      *)
ChangedAt == Truncate(now)

HashPassword(q, current, next) ==
  /\ request[q].at = "act"
  /\ Becomes(q, [at |-> "change", current |-> current, next |-> next,
                 time |-> ChangedAt])
  /\ UNCHANGED <<now, user, tokens, keys, lastUsed>>

StoredTimeLate(r) == now
StoredTime(r) == r.time

CurrentConfirmed(r) == PasswordIs(r.current)

CommitPassword(q) ==
  /\ request[q].at = "change"
  /\ CurrentConfirmed(request[q])
  /\ user' = [password |-> request[q].next,
              changedAt |-> StoredTime(request[q])]
  /\ tokens' = tokens \cup {request[q].time}
  /\ Becomes(q, Idle)
  /\ UNCHANGED <<now, keys, lastUsed>>

PasswordRefused(q) ==
  /\ request[q].at = "change"
  /\ ~CurrentConfirmed(request[q])
  /\ Becomes(q, Idle)
  /\ UNCHANGED <<now, user, tokens, keys, lastUsed>>

(* The insert asks nothing of the user's row.                              *)
CreateKey(q, k) ==
  /\ request[q].at = "act"
  /\ keys[k] = "unissued"
  /\ keys' = [keys EXCEPT ![k] = "active"]
  /\ Becomes(q, Idle)
  /\ UNCHANGED <<now, user, tokens, lastUsed>>

RevokeKey(q, k) ==
  /\ request[q].at = "act"
  /\ keys[k] = "active"
  /\ keys' = [keys EXCEPT ![k] = "revoked"]
  /\ Becomes(q, Idle)
  /\ UNCHANGED <<now, user, tokens, lastUsed>>

(* DELETE /me: VerifyPassword, and then the transaction.  AccountData has  *)
(* its statements; here it is one step.                                    *)
VerifyPassword(q) ==
  /\ request[q].at = "act"
  /\ \E p \in Password : PasswordIs(p)
  /\ Becomes(q, [at |-> "delete"])
  /\ UNCHANGED <<now, user, tokens, keys, lastUsed>>

KeysDeleted ==
  [k \in APIKey |-> IF keys[k] = "unissued" THEN keys[k] ELSE "deleted"]

DeleteAccount(q) ==
  /\ request[q].at = "delete"
  /\ user # NULL
  /\ user' = NULL
  /\ keys' = KeysDeleted
  /\ lastUsed' = [k \in APIKey |-> NULL]
  /\ Becomes(q, Idle)
  /\ UNCHANGED <<now, tokens>>

AlreadyDeleted(q) ==
  /\ request[q].at = "delete"
  /\ user = NULL
  /\ Becomes(q, Idle)
  /\ UNCHANGED <<now, user, tokens, keys, lastUsed>>

Tick ==
  /\ now < MaxTime
  /\ now' = now + 1
  /\ UNCHANGED <<user, tokens, keys, lastUsed, request>>

Next ==
  \/ \E q \in Request :
       \/ Signin(q) \/ GenerateToken(q) \/ AuthenticateSession(q)
       \/ TouchKey(q) \/ TouchFails(q) \/ Answer(q)
       \/ \E k \in APIKey :
            VerifyKey(q, k) \/ CreateKey(q, k) \/ RevokeKey(q, k)
       \/ \E p1, p2 \in Password : HashPassword(q, p1, p2)
       \/ CommitPassword(q) \/ PasswordRefused(q)
       \/ VerifyPassword(q) \/ DeleteAccount(q) \/ AlreadyDeleted(q)
  \/ Tick

Spec == Init /\ [][Next]_vars

-----------------------------------------------------------------------------
(* Properties.                                                             *)

(* The token a password change hands out is accepted for as long as it     *)
(* lives, until another change or the account's deletion, although the     *)
(* time it carries is from before the change (users/account.go:122-124).   *)
FreshSessionAccepted ==
  (user # NULL /\ user.changedAt # NULL /\ Unexpired(user.changedAt))
    => SessionAccepted(user.changedAt)

(* A key that was issued and is no longer accepted (revoked, or its owner  *)
(* deleted) is never accepted again, not even through a request that read  *)
(* it before (apikeys.go:137-164).                                         *)
RejectedKeyStaysRejected ==
  [][\A k \in APIKey : keys[k] # "unissued" /\ ~KeyAccepted(k)
                         => ~KeyAccepted(k)']_vars

(* The time a key was last used never goes back, though requests write it  *)
(* in another order than they took it in (apikeys.go:155-161).             *)
LastUseMovesOn ==
  [][\A k \in APIKey : lastUsed'[k] # NULL /\ lastUsed[k] # NULL
                         => lastUsed'[k] >= lastUsed[k]]_vars

(* A session that a password change ended is never accepted again, except  *)
(* through another change that took its time earlier and got the lock on   *)
(* the row later, which moves password_changed_at back                     *)
(* (users/account.go:122-142).                                             *)
EndedStaysUnlessOvertaken ==
  [][\A t \in tokens :
       ~SessionValid(t) /\ SessionValid(t)' =>
         \E q \in Request :
           /\ request[q].at = "change" /\ request'[q] = Idle
           /\ request[q].time < user.changedAt]_vars
=============================================================================
