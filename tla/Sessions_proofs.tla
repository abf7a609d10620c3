--------------------------- MODULE Sessions_proofs ---------------------------
(***************************************************************************)
(* Theorems about Sessions, for any requests, passwords, keys and times:   *)
(* its types, that the session a password change hands out is accepted,    *)
(* and what was rejected stays rejected; about suggestions, made once; and *)
(* about the web client, for any tabs and calls: its list of matches, whom *)
(* a tab shows, and which sessions the browser loses.                      *)
(***************************************************************************)
EXTENDS MCSessions, FiniteSetTheorems, TLAPS

-----------------------------------------------------------------------------
(* Whole seconds.                                                          *)

LEMMA TruncateType ==
  ASSUME NEW t \in Nat
  PROVE  Truncate(t) \in 0..t
<1>1. t % Second \in 0..t
  BY TimeAssumption, SMTT(30)
<1>2. QED
  BY <1>1 DEF Truncate

LEMMA TruncateMonotone ==
  ASSUME NEW s \in Nat, NEW t \in Nat, s <= t
  PROVE  Truncate(s) <= Truncate(t)
<1> DEFINE p == s \div Second
           q == t \div Second
<1>1. p \in Int /\ q \in Int /\ Second \in Nat /\ 0 < Second
  BY TimeAssumption
<1>2. /\ Truncate(s) = Second * p /\ Truncate(t) = Second * q
      /\ s < Second * p + Second /\ Second * q <= t
      /\ Second * p <= s /\ t < Second * q + Second
  BY TimeAssumption, SMTT(30) DEF Truncate
<1> HIDE DEF p, q
<1>3. CASE p <= q
  BY <1>1, <1>2, <1>3, SMTT(30)
<1>4. CASE p > q
  <2>1. Second * (q + 1) <= Second * p
    BY <1>1, <1>4, SMTT(30)
  <2>2. QED
    BY <1>1, <1>2, <2>1, SMTT(30)
<1>5. QED
  BY <1>1, <1>3, <1>4

-----------------------------------------------------------------------------
(* Types.                                                                  *)

LEMMA TimeFacts ==
  /\ Time \subseteq Nat /\ 0 \in Time
  /\ NULL \notin Time
  /\ \A t \in Time : Truncate(t) \in Time
<1>1. /\ Time \subseteq Nat /\ 0 \in Time /\ NULL \notin Time
      /\ \A t \in Time : 0..t \subseteq Time
  BY TimeAssumption, NullAssumption DEF Time
<1>2. QED
  BY <1>1, TruncateType

(* What a request holds, by where it is.                                   *)
LEMMA RequestKinds ==
  ASSUME TypeOK, NEW q \in Request
  PROVE  /\ request[q] \in Requests
         /\ request[q].at = "touch" =>
              request[q].key \in APIKey /\ request[q].time \in Time
         /\ request[q].at = "change" =>
              /\ request[q].current \in Password
              /\ request[q].next \in Password /\ request[q].time \in Time
<1>1. request[q] \in Requests
  BY DEF TypeOK
<1>2. QED
  BY <1>1 DEF Requests, Idle

LEMMA BecomesType ==
  ASSUME TypeOK, NEW q \in Request, NEW r \in Requests, Becomes(q, r)
  PROVE  /\ request' \in [Request -> Requests]
         /\ request'[q] = r
         /\ \A p \in Request : p # q => request'[p] = request[p]
BY DEF TypeOK, Becomes

LEMMA RequestTypes ==
  /\ Idle \in Requests
  /\ \A at \in {"issue", "act", "delete"} : [at |-> at] \in Requests
  /\ \A k \in APIKey, t \in Time :
       [at |-> "touch", key |-> k, time |-> t] \in Requests
  /\ \A p1, p2 \in Password, t \in Time :
       [at |-> "change", current |-> p1, next |-> p2, time |-> t] \in Requests
BY DEF Requests

(* The users row holds the time of a token that was handed out.            *)
SessionInv ==
  /\ TypeOK
  /\ user # NULL => user \in Users
  /\ user # NULL /\ user.changedAt # NULL => user.changedAt \in tokens

LEMMA RowType ==
  ASSUME TypeOK, user # NULL
  PROVE  /\ user \in Users
         /\ user.password \in Password /\ user.changedAt \in Time \cup {NULL}
BY DEF TypeOK, Users

LEMMA SessionInductive == Spec => []SessionInv
<1>1. Init => SessionInv
  <2> SUFFICES ASSUME Init
               PROVE  SessionInv
    OBVIOUS
  <2>1. PICK p \in Password : user = [password |-> p, changedAt |-> NULL]
    BY DEF Init
  <2>2. user \in Users /\ user.changedAt = NULL
    BY <2>1 DEF Users
  <2>3. now \in Time /\ tokens \subseteq Time
    BY TimeFacts DEF Init
  <2>4. keys \in [APIKey -> {"unissued", "active", "revoked", "deleted"}]
        /\ lastUsed \in [APIKey -> Time \cup {NULL}]
        /\ request \in [Request -> Requests]
    BY RequestTypes DEF Init
  <2>5. QED
    BY <2>2, <2>3, <2>4 DEF SessionInv, TypeOK
<1>2. SessionInv /\ [Next]_vars => SessionInv'
  <2> SUFFICES ASSUME SessionInv, [Next]_vars
               PROVE  SessionInv'
    OBVIOUS
  <2>0. TypeOK /\ now \in Time /\ tokens \subseteq Time
    BY DEF SessionInv, TypeOK
  <2>1. ASSUME NEW q \in Request,
               \/ Signin(q) \/ AuthenticateSession(q)
               \/ TouchFails(q) \/ Answer(q) \/ PasswordRefused(q)
               \/ VerifyPassword(q) \/ AlreadyDeleted(q)
               \/ \E k \in APIKey : VerifyKey(q, k)
               \/ \E p1, p2 \in Password : HashPassword(q, p1, p2)
        PROVE  SessionInv'
    <3>1. UNCHANGED <<now, user, tokens, keys, lastUsed>>
      BY <2>1 DEF Signin, AuthenticateSession, TouchFails, Answer,
        PasswordRefused, VerifyPassword, AlreadyDeleted, VerifyKey,
        HashPassword
    <3>2. \E r \in Requests : Becomes(q, r)
      <4>1. CASE \E p1, p2 \in Password : HashPassword(q, p1, p2)
        BY <2>0, <4>1, TimeFacts, RequestTypes DEF HashPassword, ChangedAt
      <4>2. CASE \E k \in APIKey : VerifyKey(q, k)
        BY <2>0, <4>2, RequestTypes DEF VerifyKey
      <4>3. CASE \/ Signin(q) \/ AuthenticateSession(q)
                 \/ TouchFails(q) \/ Answer(q) \/ PasswordRefused(q)
                 \/ VerifyPassword(q) \/ AlreadyDeleted(q)
        BY <4>3, RequestTypes DEF Signin, AuthenticateSession, TouchFails,
          Answer, PasswordRefused, VerifyPassword, AlreadyDeleted
      <4>4. QED
        BY <2>1, <4>1, <4>2, <4>3
    <3>3. request' \in [Request -> Requests]
      BY <2>0, <3>2, BecomesType
    <3>4. QED
      BY <3>1, <3>3 DEF SessionInv, TypeOK
  <2>2. ASSUME NEW q \in Request, GenerateToken(q)
        PROVE  SessionInv'
    <3>1. tokens' \subseteq Time /\ tokens \subseteq tokens'
      BY <2>0, <2>2, TimeFacts DEF GenerateToken
    <3>2. request' \in [Request -> Requests]
      BY <2>0, <2>2, RequestTypes, BecomesType DEF GenerateToken
    <3>3. UNCHANGED <<now, user, keys, lastUsed>>
      BY <2>2 DEF GenerateToken
    <3>4. QED
      BY <3>1, <3>2, <3>3 DEF SessionInv, TypeOK
  <2>3. ASSUME NEW q \in Request, TouchKey(q)
        PROVE  SessionInv'
    <3>1. request[q].key \in APIKey /\ request[q].time \in Time
      BY <2>0, <2>3, RequestKinds DEF TouchKey
    <3>2. \/ lastUsed' = [lastUsed EXCEPT ![request[q].key] = request[q].time]
          \/ lastUsed' = lastUsed
      BY <2>3 DEF TouchKey
    <3>3. lastUsed' \in [APIKey -> Time \cup {NULL}]
      BY <2>0, <3>1, <3>2 DEF TypeOK
    <3>4. request' \in [Request -> Requests]
      BY <2>0, <2>3, RequestTypes, BecomesType DEF TouchKey
    <3>5. UNCHANGED <<now, user, tokens, keys>>
      BY <2>3 DEF TouchKey
    <3>6. QED
      BY <3>3, <3>4, <3>5 DEF SessionInv, TypeOK
  <2>4. ASSUME NEW q \in Request, NEW k \in APIKey,
               CreateKey(q, k) \/ RevokeKey(q, k)
        PROVE  SessionInv'
    <3>1. keys' \in [APIKey -> {"unissued", "active", "revoked", "deleted"}]
      BY <2>0, <2>4 DEF CreateKey, RevokeKey, TypeOK
    <3>2. request' \in [Request -> Requests]
      BY <2>0, <2>4, RequestTypes, BecomesType DEF CreateKey, RevokeKey
    <3>3. UNCHANGED <<now, user, tokens, lastUsed>>
      BY <2>4 DEF CreateKey, RevokeKey
    <3>4. QED
      BY <3>1, <3>2, <3>3 DEF SessionInv, TypeOK
  <2>5. ASSUME NEW q \in Request, CommitPassword(q)
        PROVE  SessionInv'
    <3>1. request[q].next \in Password /\ request[q].time \in Time
      BY <2>0, <2>5, RequestKinds DEF CommitPassword
    <3>2. user' = [password |-> request[q].next,
                   changedAt |-> request[q].time]
      BY <2>5 DEF CommitPassword, StoredTime
    <3>3. user' \in Users /\ user'.changedAt = request[q].time
      BY <3>1, <3>2 DEF Users
    <3>4. request' \in [Request -> Requests]
      BY <2>0, <2>5, RequestTypes, BecomesType DEF CommitPassword
    <3>5. tokens' \subseteq Time /\ request[q].time \in tokens'
      BY <2>0, <2>5, <3>1 DEF CommitPassword
    <3>6. UNCHANGED <<now, keys, lastUsed>>
      BY <2>5 DEF CommitPassword
    <3>7. QED
      BY <3>3, <3>4, <3>5, <3>6 DEF SessionInv, TypeOK
  <2>6. ASSUME NEW q \in Request, DeleteAccount(q)
        PROVE  SessionInv'
    <3>1. keys' \in [APIKey -> {"unissued", "active", "revoked", "deleted"}]
      BY <2>0, <2>6 DEF DeleteAccount, KeysDeleted, TypeOK
    <3>2. request' \in [Request -> Requests]
      BY <2>0, <2>6, RequestTypes, BecomesType DEF DeleteAccount
    <3>3. /\ user' = NULL /\ lastUsed' \in [APIKey -> Time \cup {NULL}]
          /\ UNCHANGED <<now, tokens>>
      BY <2>6 DEF DeleteAccount
    <3>4. QED
      BY <3>1, <3>2, <3>3 DEF SessionInv, TypeOK
  <2>7. CASE Tick
    <3>1. now' \in Time
      BY <2>0, <2>7, TimeAssumption DEF Tick, Time
    <3>2. QED
      BY <2>7, <3>1 DEF Tick, SessionInv, TypeOK
  <2>8. CASE UNCHANGED vars
    BY <2>8 DEF vars, SessionInv, TypeOK
  <2>9. QED
    BY <2>1, <2>2, <2>3, <2>4, <2>5, <2>6, <2>7, <2>8 DEF Next
<1>3. QED
  BY <1>1, <1>2, PTL DEF Spec

(* Every variable stays in its type.                                       *)
THEOREM TypeCorrect == Spec => []TypeOK
<1>1. SessionInv => TypeOK
  BY DEF SessionInv
<1>2. QED
  BY <1>1, SessionInductive, PTL

-----------------------------------------------------------------------------
(* Sessions.                                                               *)

(* The token of a password change is accepted until another change or the  *)
(* account's deletion (users/account.go:122-124).                          *)
THEOREM FreshAccepted == Spec => []FreshSessionAccepted
<1>1. SessionInv => FreshSessionAccepted
  <2> SUFFICES ASSUME SessionInv, user # NULL, user.changedAt # NULL,
                      Unexpired(user.changedAt)
               PROVE  SessionAccepted(user.changedAt)
    BY DEF FreshSessionAccepted
  <2>1. user.changedAt \in Nat /\ user.changedAt \in tokens
    BY RowType, TimeFacts DEF SessionInv
  <2>2. Truncate(user.changedAt) \in Nat
        /\ Truncate(user.changedAt) <= user.changedAt
    BY <2>1, TruncateType
  <2>3. ~(user.changedAt < Truncate(user.changedAt))
    BY <2>1, <2>2
  <2>4. QED
    BY <2>1, <2>3 DEF SessionAccepted, SessionValid
<1>2. QED
  BY <1>1, SessionInductive, PTL

(* Only a password change and the deletion write to the user's row.        *)
LEMMA UserSteps ==
  ASSUME [Next]_vars, user' # user
  PROVE  \/ \E q \in Request : CommitPassword(q)
         \/ user' = NULL
BY DEF Next, vars, Signin, GenerateToken, AuthenticateSession, TouchKey,
  TouchFails, Answer, VerifyKey, CreateKey, RevokeKey, HashPassword,
  PasswordRefused, VerifyPassword, DeleteAccount, AlreadyDeleted, Tick

(* A session that a password change ended is accepted again only through a *)
(* change that took its time earlier (users/account.go:122-142).           *)
THEOREM EndedStays == Spec => EndedStaysUnlessOvertaken
<1>1. SessionInv /\ [Next]_vars =>
        [\A t \in tokens :
           ~SessionValid(t) /\ SessionValid(t)' =>
             \E q \in Request :
               /\ request[q].at = "change" /\ request'[q] = Idle
               /\ request[q].time < user.changedAt]_vars
  <2> SUFFICES ASSUME SessionInv, [Next]_vars, NEW t \in tokens,
                      ~SessionValid(t), SessionValid(t)'
               PROVE  \E q \in Request :
                        /\ request[q].at = "change" /\ request'[q] = Idle
                        /\ request[q].time < user.changedAt
    OBVIOUS
  <2>1. user' # NULL /\ user' # user /\ TypeOK /\ t \in Nat
    BY TimeFacts DEF SessionValid, SessionInv, TypeOK
  <2>2. PICK q \in Request : CommitPassword(q)
    BY <2>1, UserSteps
  <2>3. /\ request[q].at = "change" /\ request'[q] = Idle
        /\ request[q].time \in Nat /\ request[q].time \in Time
    BY <2>1, <2>2, RequestKinds, RequestTypes, BecomesType, TimeFacts
    DEF CommitPassword
  <2>4. user'.changedAt = request[q].time /\ user # NULL
    BY <2>2 DEF CommitPassword, StoredTime, CurrentConfirmed, PasswordIs
  <2>5. user'.changedAt # NULL
    BY <2>3, <2>4, TimeFacts
  <2>6. t >= Truncate(request[q].time)
    BY <2>1, <2>3, <2>4, <2>5, TruncateType DEF SessionValid
  <2>7. user.changedAt # NULL /\ t < Truncate(user.changedAt)
    BY <2>4 DEF SessionValid
  <2>8. user.changedAt \in Nat
    BY <2>1, <2>4, <2>7, RowType, TimeFacts
  <2>9. request[q].time < user.changedAt
    <3>1. SUFFICES ASSUME user.changedAt <= request[q].time
                   PROVE  FALSE
      BY <2>3, <2>8
    <3>2. Truncate(user.changedAt) <= Truncate(request[q].time)
      BY <2>3, <2>8, <3>1, TruncateMonotone
    <3>3. Truncate(user.changedAt) \in Int /\ Truncate(request[q].time) \in Int
      BY <2>3, <2>8, TruncateType
    <3>4. QED
      BY <2>1, <2>6, <2>7, <3>2, <3>3
  <2>10. QED
    BY <2>3, <2>9
<1>2. QED
  BY <1>1, SessionInductive, PTL DEF Spec, EndedStaysUnlessOvertaken

-----------------------------------------------------------------------------
(* API keys.                                                               *)

(* A key moves on from "unissued" to "active" to "revoked", and to         *)
(* "deleted" with its owner.                                               *)
LEMMA KeySteps ==
  ASSUME TypeOK, [Next]_vars, NEW k \in APIKey, keys'[k] # keys[k]
  PROVE  \/ keys[k] = "unissued" /\ keys'[k] = "active"
         \/ keys'[k] \in {"revoked", "deleted"}
<1>1. /\ keys' # keys
      /\ keys \in [APIKey -> {"unissued", "active", "revoked", "deleted"}]
  BY DEF TypeOK
<1>2. PICK q \in Request :
        \/ DeleteAccount(q)
        \/ \E j \in APIKey : CreateKey(q, j) \/ RevokeKey(q, j)
  BY <1>1 DEF Next, vars, Signin, GenerateToken, AuthenticateSession, TouchKey,
    TouchFails, Answer, VerifyKey, HashPassword, CommitPassword,
    PasswordRefused, VerifyPassword, AlreadyDeleted, Tick
<1>3. CASE DeleteAccount(q)
  BY <1>3 DEF DeleteAccount, KeysDeleted
<1>4. ASSUME NEW j \in APIKey, CreateKey(q, j) \/ RevokeKey(q, j)
      PROVE  \/ keys[k] = "unissued" /\ keys'[k] = "active"
             \/ keys'[k] \in {"revoked", "deleted"}
  BY <1>1, <1>4 DEF CreateKey, RevokeKey
<1>5. QED
  BY <1>2, <1>3, <1>4

(* A key that was issued and is not accepted is never accepted again       *)
(* (apikeys.go:137-164).                                                   *)
THEOREM RejectedStays == Spec => RejectedKeyStaysRejected
<1>1. TypeOK /\ [Next]_vars =>
        [\A k \in APIKey : keys[k] # "unissued" /\ ~KeyAccepted(k)
                             => ~KeyAccepted(k)']_vars
  <2> SUFFICES ASSUME TypeOK, [Next]_vars, NEW k \in APIKey,
                      keys[k] # "unissued", ~KeyAccepted(k), KeyAccepted(k)'
               PROVE  FALSE
    OBVIOUS
  <2>1. CASE user = NULL
    <3>1. user' # NULL /\ user' # user
      BY <2>1 DEF KeyAccepted
    <3>2. PICK q \in Request : CommitPassword(q)
      BY <3>1, UserSteps
    <3>3. QED
      BY <2>1, <3>2 DEF CommitPassword, CurrentConfirmed, PasswordIs
  <2>2. CASE user # NULL
    <3>1. keys[k] # "active" /\ keys'[k] = "active"
      BY <2>2 DEF KeyAccepted
    <3>2. QED
      BY <3>1, KeySteps
  <2>3. QED
    BY <2>1, <2>2
<1>2. QED
  BY <1>1, TypeCorrect, PTL DEF Spec, RejectedKeyStaysRejected

(* The time a key was last used never goes back (apikeys.go:155-161).      *)
THEOREM LastUse == Spec => LastUseMovesOn
<1>1. TypeOK /\ [Next]_vars =>
        [\A k \in APIKey : lastUsed'[k] # NULL /\ lastUsed[k] # NULL
                             => lastUsed'[k] >= lastUsed[k]]_vars
  <2> SUFFICES ASSUME TypeOK, [Next]_vars, NEW k \in APIKey,
                      lastUsed'[k] # NULL, lastUsed[k] # NULL
               PROVE  lastUsed'[k] >= lastUsed[k]
    OBVIOUS
  <2>0. /\ lastUsed \in [APIKey -> Time \cup {NULL}]
        /\ lastUsed[k] \in Nat /\ Minute \in Nat
    BY TimeFacts, TimeAssumption DEF TypeOK
  <2>1. CASE lastUsed' = lastUsed
    BY <2>0, <2>1
  <2>2. ASSUME NEW q \in Request, TouchKey(q)
        PROVE  lastUsed'[k] >= lastUsed[k]
    <3>1. request[q].time \in Nat
      BY <2>2, RequestKinds, TimeFacts DEF TouchKey
    <3>2. \/ lastUsed' = lastUsed
          \/ /\ lastUsed' =
                  [lastUsed EXCEPT ![request[q].key] = request[q].time]
             /\ lastUsed[request[q].key] # NULL =>
                  lastUsed[request[q].key] < request[q].time - Minute
      BY <2>2 DEF TouchKey, UsedLongAgo
    <3>3. QED
      BY <2>0, <3>1, <3>2
  <2>3. ASSUME NEW q \in Request, DeleteAccount(q)
        PROVE  lastUsed'[k] = NULL
    BY <2>3 DEF DeleteAccount
  <2>4. QED
    BY <2>1, <2>2, <2>3 DEF Next, vars, Signin, GenerateToken,
      AuthenticateSession, TouchFails, Answer, VerifyKey, CreateKey,
      RevokeKey, HashPassword, CommitPassword, PasswordRefused,
      VerifyPassword, AlreadyDeleted, Tick
<1>2. QED
  BY <1>1, TypeCorrect, PTL DEF Spec, LastUseMovesOn
-----------------------------------------------------------------------------
(* Suggestions.  A suggestion of an account that was not deleted is there  *)
(* once it was made, and the index lets no second one be made.             *)

MadeOnce(q) ==
  url[q] \notin cleared =>
    /\ asking[q] # "failed"
    /\ asking[q] \in {"created", "duplicate"} => url[q] \in suggested
    /\ asking[q] = "created" =>
         \A r \in Suggestion :
           asking[r] = "created" /\ url[r] = url[q] => r = q

SuggestionIInv ==
  /\ SuggestionTypeOK
  /\ \A q \in Suggestion : MadeOnce(q)

LEMMA SuggestionsOnce == SuggestionIInv => EachSuggestedOnce
<1> SUFFICES ASSUME SuggestionIInv, NEW u \in URL \ cleared
             PROVE  LET askers == {q \in Suggestion : url[q] = u}
                    IN /\ Cardinality({q \in askers : asking[q] = "created"})
                            <= 1
                       /\ \A q \in askers :
                            /\ asking[q] # "failed"
                            /\ asking[q] \in {"created", "duplicate"} =>
                                 u \in suggested
  BY DEF EachSuggestedOnce
<1> DEFINE askers == {q \in Suggestion : url[q] = u}
           makers == {q \in askers : asking[q] = "created"}
<1>1. \A q \in askers : MadeOnce(q) /\ url[q] = u /\ u \notin cleared
  BY DEF SuggestionIInv
<1>2. Cardinality(makers) <= 1
  <2>1. CASE makers = {}
    <3>1. Cardinality(makers) = 0
      BY <2>1, FS_EmptySet
    <3> HIDE DEF makers
    <3> QED BY <3>1
  <2>2. ASSUME NEW m \in makers
        PROVE  Cardinality(makers) <= 1
    <3>1. makers = {m}
      BY <1>1, <2>2 DEF MadeOnce
    <3>2. Cardinality({m}) = 1
      BY FS_Singleton
    <3> HIDE DEF makers
    <3> QED BY <3>1, <3>2
  <2> QED BY <2>1, <2>2
<1>3. \A q \in askers :
        /\ asking[q] # "failed"
        /\ asking[q] \in {"created", "duplicate"} => u \in suggested
  BY <1>1 DEF MadeOnce
<1> QED BY <1>2, <1>3

LEMMA GoesFacts ==
  ASSUME SuggestionTypeOK, NEW q \in Suggestion, NEW to, Goes(q, to)
  PROVE  /\ asking'[q] = to /\ url' = url /\ cleared' = cleared
         /\ \A r \in Suggestion \ {q} : asking'[r] = asking[r]
         /\ to \in {"find", "insert", "find again"} \cup Ended =>
              asking' \in [Suggestion ->
                             {"find", "insert", "find again"} \cup Ended]
BY DEF SuggestionTypeOK, Goes

(* A request goes on without a new suggestion.                             *)
LEMMA GoesOn ==
  ASSUME SuggestionIInv, NEW q \in Suggestion,
         NEW to \in {"find", "insert", "find again"} \cup Ended, Goes(q, to),
         suggested' = suggested, to # "created",
         to \in {"find again", "duplicate"} => url[q] \in suggested,
         to = "failed" => url[q] \in cleared
  PROVE  SuggestionIInv'
<1>0. SuggestionTypeOK /\ \A r \in Suggestion : MadeOnce(r)
  BY DEF SuggestionIInv
<1>1. /\ asking'[q] = to /\ url' = url /\ cleared' = cleared
      /\ \A r \in Suggestion \ {q} : asking'[r] = asking[r]
      /\ asking' \in [Suggestion ->
                        {"find", "insert", "find again"} \cup Ended]
  BY <1>0, GoesFacts
<1>2. SuggestionTypeOK'
  BY <1>0, <1>1 DEF SuggestionTypeOK
<1>3. ASSUME NEW r \in Suggestion
      PROVE  MadeOnce(r)'
  BY <1>0, <1>1 DEF MadeOnce
<1> QED BY <1>2, <1>3 DEF SuggestionIInv

LEMMA SuggestionStep ==
  SuggestionIInv /\ [SuggestionNext]_suggestionVars => SuggestionIInv'
<1> SUFFICES ASSUME SuggestionIInv, [SuggestionNext]_suggestionVars
             PROVE  SuggestionIInv'
  OBVIOUS
<1>0. SuggestionTypeOK /\ \A r \in Suggestion : MadeOnce(r)
  BY DEF SuggestionIInv
<1>1. ASSUME NEW q \in Suggestion, Invalid(q) \/ Find(q) \/ LostRace(q)
      PROVE  SuggestionIInv'
  <2>1. suggested' = suggested
    BY <1>1 DEF Invalid, Find, LostRace
  <2>2. CASE Goes(q, "invalid") \/ Goes(q, "insert")
    BY <2>1, <2>2, GoesOn DEF Ended
  <2>3. CASE Goes(q, "duplicate") /\ url[q] \in suggested
    BY <2>1, <2>3, GoesOn DEF Ended
  <2>4. CASE Goes(q, "failed") /\ url[q] \in cleared
    BY <2>1, <2>4, GoesOn DEF Ended
  <2>5. asking[q] = "find again" => url[q] \in suggested \cup cleared
    BY <1>0 DEF SuggestionTypeOK
  <2> QED BY <1>1, <2>2, <2>3, <2>4, <2>5 DEF Invalid, Find, LostRace
<1>2. ASSUME NEW q \in Suggestion, Insert(q)
      PROVE  SuggestionIInv'
  <2>0. url[q] \in URL /\ asking[q] = "insert"
    BY <1>0, <1>2 DEF SuggestionTypeOK, Insert
  <2>1. CASE IsFree(url[q])
    <3>1. Goes(q, "created") /\ suggested' = suggested \cup {url[q]}
      BY <1>2, <2>1 DEF Insert
    <3>2. /\ asking'[q] = "created" /\ url' = url /\ cleared' = cleared
          /\ \A r \in Suggestion \ {q} : asking'[r] = asking[r]
          /\ asking' \in [Suggestion ->
                            {"find", "insert", "find again"} \cup Ended]
      BY <1>0, <3>1, GoesFacts DEF Ended
    <3>3. SuggestionTypeOK'
      BY <1>0, <2>0, <3>1, <3>2 DEF SuggestionTypeOK
    <3>4. \A r \in Suggestion :
            asking[r] = "created" /\ url[r] = url[q] => url[r] \in cleared
      BY <1>0, <2>1 DEF MadeOnce, IsFree
    <3>5. ASSUME NEW r \in Suggestion
          PROVE  MadeOnce(r)'
      BY <1>0, <3>1, <3>2, <3>4 DEF MadeOnce
    <3> QED BY <3>3, <3>5 DEF SuggestionIInv
  <2>2. CASE ~IsFree(url[q])
    <3>1. Goes(q, "find again") /\ suggested' = suggested
      BY <1>2, <2>2 DEF Insert
    <3> QED BY <2>2, <3>1, GoesOn DEF IsFree
  <2> QED BY <2>1, <2>2
<1>3. CASE DeleteSuggestions
  BY <1>0, <1>3 DEF DeleteSuggestions, SuggestionIInv, SuggestionTypeOK,
                    MadeOnce
<1>4. CASE UNCHANGED suggestionVars
  BY <1>0, <1>4 DEF suggestionVars, SuggestionIInv, SuggestionTypeOK, MadeOnce
<1> QED BY <1>1, <1>2, <1>3, <1>4 DEF SuggestionNext

(* However requests overlap, a portal is suggested once, and none of them  *)
(* fails for losing the race (portalsuggestions.go:83-101).                *)
THEOREM SuggestedOnce == SuggestionSpec => []SuggestionInv
<1>1. SuggestionInit => SuggestionIInv
  BY DEF SuggestionInit, SuggestionIInv, SuggestionTypeOK, MadeOnce
<1>2. SuggestionIInv => SuggestionInv
  BY SuggestionsOnce DEF SuggestionIInv, SuggestionInv
<1> QED BY <1>1, <1>2, SuggestionStep, PTL DEF SuggestionSpec

-----------------------------------------------------------------------------
(* The list of matches.  What is fetched is what the list waits for: the   *)
(* first page of the URL's filters, or the page after those shown.         *)

Lists ==
  [status : {"loading", "ready", "error"},
   rows : Seq([filter : Filter, number : 1..MaxPages]),
   hasMore : BOOLEAN, loadingMore : BOOLEAN]

Awaited ==
  CASE list.status = "loading" -> {Fetch("load", wanted, 1)}
    [] list.loadingMore -> {Fetch("more", wanted, Len(list.rows) + 1)}
    [] OTHER -> {}

PageIInv ==
  /\ wanted \in Filter
  /\ list \in Lists
  /\ Len(list.rows) <= MaxPages
  /\ list.hasMore => Len(list.rows) < MaxPages
  /\ list.loadingMore => list.status = "ready" /\ Len(list.rows) < MaxPages
  /\ fetching = Awaited
  /\ ListIsOneQuery

LEMMA PageIInvList == PageIInv => ListInv
<1> SUFFICES ASSUME PageIInv
             PROVE  ListInv
  OBVIOUS
<1> USE PagesAssumption
<1>1. /\ list \in Lists /\ wanted \in Filter /\ Len(list.rows) <= MaxPages
      /\ Len(list.rows) \in Nat /\ list.loadingMore \in BOOLEAN
      /\ list.loadingMore => list.status = "ready" /\ Len(list.rows) < MaxPages
      /\ fetching = Awaited
  BY DEF PageIInv, Lists
<1>2. CASE list.status = "loading"
  <2>1. fetching = {Fetch("load", wanted, 1)} /\ list.loadingMore = FALSE
    BY <1>1, <1>2 DEF Awaited
  <2>2. Fetch("load", wanted, 1) \in Fetches
    BY <1>1 DEF Fetch, Fetches
  <2>3. ListTypeOK
    BY <1>1, <2>1, <2>2 DEF ListTypeOK, Lists
  <2>4. WaitsForAnAnswer
    <3>1. Fetch("load", wanted, 1) \in fetching
          /\ ~\E f \in fetching : f.kind = "more"
      BY <2>1 DEF Fetch
    <3>2. (list.status = "loading") = (Fetch("load", wanted, 1) \in fetching)
      BY <1>2, <3>1
    <3>3. list.loadingMore = \E f \in fetching : f.kind = "more"
      BY <2>1, <3>1, Zenon
    <3> QED BY <3>2, <3>3 DEF WaitsForAnAnswer
  <2> QED BY <2>3, <2>4 DEF ListInv, PageIInv
<1>3. CASE list.loadingMore
  <2>1. fetching = {Fetch("more", wanted, Len(list.rows) + 1)}
        /\ list.status = "ready" /\ list.loadingMore = TRUE
    BY <1>1, <1>3 DEF Awaited
  <2>2. Fetch("more", wanted, Len(list.rows) + 1) \in Fetches
    BY <1>1, <1>3 DEF Fetch, Fetches
  <2>3. ListTypeOK
    BY <1>1, <2>1, <2>2 DEF ListTypeOK, Lists
  <2>4. WaitsForAnAnswer
    <3>1. Fetch("load", wanted, 1) \notin fetching
          /\ \E f \in fetching : f.kind = "more"
      BY <2>1 DEF Fetch
    <3>2. list.status # "loading"
      BY <2>1
    <3>3. (list.status = "loading") = (Fetch("load", wanted, 1) \in fetching)
      BY <3>1, <3>2
    <3>4. list.loadingMore = \E f \in fetching : f.kind = "more"
      BY <2>1, <3>1
    <3> QED BY <3>3, <3>4, Zenon DEF WaitsForAnAnswer
  <2> QED BY <2>3, <2>4 DEF ListInv, PageIInv
<1>4. CASE list.status # "loading" /\ ~list.loadingMore
  <2>1. fetching = {} /\ list.loadingMore = FALSE
    BY <1>1, <1>4 DEF Awaited
  <2>2. ListTypeOK
    BY <1>1, <2>1 DEF ListTypeOK, Lists
  <2>3. WaitsForAnAnswer
    <3>1. Fetch("load", wanted, 1) \notin fetching
          /\ ~\E f \in fetching : f.kind = "more"
      BY <2>1
    <3>2. (list.status = "loading") = (Fetch("load", wanted, 1) \in fetching)
      BY <1>4, <3>1
    <3>3. list.loadingMore = \E f \in fetching : f.kind = "more"
      BY <2>1, <3>1, Zenon
    <3> QED BY <3>2, <3>3, Zenon DEF WaitsForAnAnswer
  <2> QED BY <2>2, <2>3 DEF ListInv, PageIInv
<1> QED BY <1>2, <1>3, <1>4

(* What each handler makes of the list.                                    *)
LEMMA ListUpdates ==
  ASSUME list \in Lists, NEW f \in Fetches, NEW h \in BOOLEAN
  PROVE  /\ [list EXCEPT !.status = "loading", !.loadingMore = FALSE]
              = [status |-> "loading", rows |-> list.rows,
                 hasMore |-> list.hasMore, loadingMore |-> FALSE]
         /\ [list EXCEPT !.loadingMore = TRUE]
              = [status |-> list.status, rows |-> list.rows,
                 hasMore |-> list.hasMore, loadingMore |-> TRUE]
         /\ [list EXCEPT !.loadingMore = FALSE]
              = [status |-> list.status, rows |-> list.rows,
                 hasMore |-> list.hasMore, loadingMore |-> FALSE]
         /\ [list EXCEPT !.status = "error"]
              = [status |-> "error", rows |-> list.rows,
                 hasMore |-> list.hasMore, loadingMore |-> list.loadingMore]
         /\ Replaced(f, h)
              = [status |-> "ready", rows |-> <<Page(f)>>,
                 hasMore |-> h, loadingMore |-> list.loadingMore]
         /\ [Replaced(f, h) EXCEPT !.rows = <<>>]
              = [status |-> "ready", rows |-> <<>>,
                 hasMore |-> h, loadingMore |-> list.loadingMore]
         /\ Extended(f, h)
              = [status |-> list.status, rows |-> Append(list.rows, Page(f)),
                 hasMore |-> h, loadingMore |-> FALSE]
<1>1. list = [status |-> list.status, rows |-> list.rows,
              hasMore |-> list.hasMore, loadingMore |-> list.loadingMore]
  BY DEF Lists
<1>2. ASSUME NEW s, NEW m
      PROVE  /\ [list EXCEPT !.status = s]
                  = [status |-> s, rows |-> list.rows,
                     hasMore |-> list.hasMore,
                     loadingMore |-> list.loadingMore]
             /\ [list EXCEPT !.loadingMore = m]
                  = [status |-> list.status, rows |-> list.rows,
                     hasMore |-> list.hasMore, loadingMore |-> m]
  BY <1>1
<1>3. [list EXCEPT !.status = "loading", !.loadingMore = FALSE]
        = [status |-> "loading", rows |-> list.rows,
           hasMore |-> list.hasMore, loadingMore |-> FALSE]
  <2>1. ASSUME NEW v,
               v = [list EXCEPT !.status = "loading", !.loadingMore = FALSE]
        PROVE  v = [status |-> "loading", rows |-> list.rows,
                    hasMore |-> list.hasMore, loadingMore |-> FALSE]
    BY <2>1 DEF Lists
  <2> QED BY <2>1
<1>4. Replaced(f, h)
        = [status |-> "ready", rows |-> <<Page(f)>>,
           hasMore |-> h, loadingMore |-> list.loadingMore]
  <2>1. ASSUME NEW v,
               v = [list EXCEPT !.status = "ready", !.rows = <<Page(f)>>,
                                !.hasMore = h]
        PROVE  v = [status |-> "ready", rows |-> <<Page(f)>>,
                    hasMore |-> h, loadingMore |-> list.loadingMore]
    BY <2>1 DEF Lists
  <2> QED BY <2>1 DEF Replaced
<1>5. [Replaced(f, h) EXCEPT !.rows = <<>>]
        = [status |-> "ready", rows |-> <<>>,
           hasMore |-> h, loadingMore |-> list.loadingMore]
  BY <1>4
<1>6. Extended(f, h)
        = [status |-> list.status, rows |-> Append(list.rows, Page(f)),
           hasMore |-> h, loadingMore |-> FALSE]
  <2>1. ASSUME NEW v,
               v = [list EXCEPT !.rows = Append(@, Page(f)), !.hasMore = h,
                                !.loadingMore = FALSE]
        PROVE  v = [status |-> list.status,
                    rows |-> Append(list.rows, Page(f)),
                    hasMore |-> h, loadingMore |-> FALSE]
    BY <2>1 DEF Lists
  <2> QED BY <2>1 DEF Extended
<1> QED BY <1>2, <1>3, <1>4, <1>5, <1>6

(* A list that is loaded, or shown, or could not be.                       *)
LEMMA ListLoads ==
  ASSUME wanted' \in Filter,
         NEW rows \in Seq([filter : Filter, number : 1..MaxPages]),
         NEW more \in BOOLEAN,
         Len(rows) <= MaxPages, more => Len(rows) < MaxPages,
         list' = [status |-> "loading", rows |-> rows, hasMore |-> more,
                  loadingMore |-> FALSE],
         fetching' = {Fetch("load", wanted', 1)}
  PROVE  PageIInv'
BY DEF PageIInv, Lists, Awaited, ListIsOneQuery

LEMMA ListShows ==
  ASSUME wanted' \in Filter,
         NEW rows \in Seq([filter : Filter, number : 1..MaxPages]),
         NEW more \in BOOLEAN,
         Len(rows) <= MaxPages, more => Len(rows) < MaxPages,
         \A i \in DOMAIN rows : rows[i] = [filter |-> wanted', number |-> i],
         list' = [status |-> "ready", rows |-> rows, hasMore |-> more,
                  loadingMore |-> FALSE],
         fetching' = {}
  PROVE  PageIInv'
BY DEF PageIInv, Lists, Awaited, ListIsOneQuery

LEMMA ListFails ==
  ASSUME wanted' \in Filter,
         NEW rows \in Seq([filter : Filter, number : 1..MaxPages]),
         NEW more \in BOOLEAN,
         Len(rows) <= MaxPages, more => Len(rows) < MaxPages,
         list' = [status |-> "error", rows |-> rows, hasMore |-> more,
                  loadingMore |-> FALSE],
         fetching' = {}
  PROVE  PageIInv'
BY DEF PageIInv, Lists, Awaited, ListIsOneQuery

LEMMA ArrivalSteps ==
  ASSUME PageIInv, NEW f \in fetching,
         Arrives(f) \/ NothingFound(f) \/ FetchFails(f)
  PROVE  PageIInv'
<1> USE PagesAssumption
<1>1. /\ list \in Lists /\ wanted' = wanted /\ wanted \in Filter
      /\ Len(list.rows) \in Nat /\ Len(list.rows) <= MaxPages
      /\ list.hasMore \in BOOLEAN /\ list.loadingMore \in BOOLEAN
      /\ list.hasMore => Len(list.rows) < MaxPages
      /\ list.rows \in Seq([filter : Filter, number : 1..MaxPages])
      /\ list.loadingMore => list.status = "ready" /\ Len(list.rows) < MaxPages
      /\ fetching = Awaited /\ fetching' = fetching \ {f}
  <2>1. wanted' = wanted /\ fetching' = fetching \ {f}
    BY DEF Arrives, NothingFound, FetchFails
  <2> HIDE DEF Arrives, NothingFound, FetchFails
  <2> QED BY <2>1 DEF PageIInv, Lists
<1>2. CASE list.status = "loading"
  <2>1. /\ f = Fetch("load", wanted, 1) /\ fetching' = {}
        /\ list.loadingMore = FALSE
    BY <1>1, <1>2 DEF Awaited
  <2>2. f \in Fetches /\ f.kind = "load" /\ f.number = 1
        /\ Page(f) = [filter |-> wanted, number |-> 1]
    BY <1>1, <2>1 DEF Fetch, Fetches, Page
  <2>3. CASE Arrives(f)
    <3>1. PICK h \in BOOLEAN : (h => 1 < MaxPages) /\ list' = Replaced(f, h)
      BY <2>2, <2>3 DEF Arrives
    <3> DEFINE rows == <<Page(f)>>
    <3>2. /\ rows \in Seq([filter : Filter, number : 1..MaxPages])
          /\ Len(rows) = 1
          /\ \A i \in DOMAIN rows :
               rows[i] = [filter |-> wanted', number |-> i]
      BY <1>1, <2>2
    <3>3. list' = [status |-> "ready", rows |-> rows, hasMore |-> h,
                   loadingMore |-> FALSE]
      BY <1>1, <2>1, <2>2, <3>1, ListUpdates
    <3>4. Len(rows) <= MaxPages /\ (h => Len(rows) < MaxPages)
      BY <3>1, <3>2
    <3> HIDE DEF rows
    <3> QED BY <1>1, <2>1, <3>2, <3>3, <3>4, ListShows
  <2>4. CASE NothingFound(f)
    <3> DEFINE rows == <<>>
    <3>1. /\ rows \in Seq([filter : Filter, number : 1..MaxPages])
          /\ Len(rows) = 0 /\ DOMAIN rows = {}
      OBVIOUS
    <3>2. PICK h \in BOOLEAN :
            ~h /\ list' = [status |-> "ready", rows |-> rows, hasMore |-> h,
                          loadingMore |-> FALSE]
      BY <1>1, <2>1, <2>2, <2>4, ListUpdates DEF NothingFound
    <3> HIDE DEF rows
    <3>3. Len(rows) <= MaxPages /\ (h => Len(rows) < MaxPages)
      BY <3>1, <3>2
    <3> QED BY <1>1, <2>1, <3>1, <3>2, <3>3, ListShows
  <2>5. CASE FetchFails(f)
    <3>1. list' = [status |-> "error", rows |-> list.rows,
                   hasMore |-> list.hasMore, loadingMore |-> FALSE]
      BY <1>1, <2>1, <2>2, <2>5, ListUpdates DEF FetchFails
    <3> QED BY <1>1, <2>1, <3>1, ListFails
  <2> QED BY <2>3, <2>4, <2>5
<1>3. CASE list.status # "loading"
  <2>1. /\ list.loadingMore /\ list.status = "ready"
        /\ f = Fetch("more", wanted, Len(list.rows) + 1) /\ fetching' = {}
    BY <1>1, <1>3 DEF Awaited
  <2>2. f \in Fetches /\ f.kind = "more" /\ f.number = Len(list.rows) + 1
        /\ Page(f) = [filter |-> wanted, number |-> Len(list.rows) + 1]
    BY <1>1, <2>1 DEF Fetch, Fetches, Page
  <2>3. \A i \in DOMAIN list.rows :
          list.rows[i] = [filter |-> wanted, number |-> i]
    BY <2>1 DEF PageIInv, ListIsOneQuery
  <2>4. CASE Arrives(f)
    <3>1. PICK h \in BOOLEAN :
            (h => f.number < MaxPages) /\ list' = Extended(f, h)
      BY <2>2, <2>4 DEF Arrives
    <3> DEFINE old == list.rows
               rows == Append(old, Page(f))
    <3>2. list' = [status |-> "ready", rows |-> rows, hasMore |-> h,
                   loadingMore |-> FALSE]
      <4>1. Extended(f, h)
              = [status |-> list.status, rows |-> Append(list.rows, Page(f)),
                 hasMore |-> h, loadingMore |-> FALSE]
        BY <1>1, <2>2, ListUpdates
      <4> QED BY <2>1, <3>1, <4>1
    <3>3. Page(f) \in [filter : Filter, number : 1..MaxPages]
      BY <1>1, <2>1, <2>2
    <3>4. /\ old \in Seq([filter : Filter, number : 1..MaxPages])
          /\ \A i \in 1..Len(old) : old[i] = [filter |-> wanted, number |-> i]
          /\ Len(old) \in Nat
      BY <1>1, <2>3
    <3> HIDE DEF old
    <3>5. /\ rows \in Seq([filter : Filter, number : 1..MaxPages])
          /\ Len(rows) = Len(old) + 1
      BY <3>3, <3>4
    <3>6. \A i \in 1..(Len(old) + 1) :
            rows[i] = [filter |-> wanted, number |-> i]
      BY <2>2, <3>4 DEF old
    <3>7. \A i \in DOMAIN rows : rows[i] = [filter |-> wanted', number |-> i]
      BY <1>1, <3>5, <3>6
    <3>8. Len(rows) <= MaxPages /\ (h => Len(rows) < MaxPages)
      BY <1>1, <2>1, <2>2, <3>1, <3>5 DEF old
    <3> HIDE DEF rows
    <3> QED BY <1>1, <2>1, <3>2, <3>5, <3>7, <3>8, ListShows
  <2>5. CASE FetchFails(f)
    <3>1. list' = [status |-> "ready", rows |-> list.rows,
                   hasMore |-> list.hasMore, loadingMore |-> FALSE]
      BY <1>1, <2>1, <2>2, <2>5, ListUpdates DEF FetchFails
    <3> QED BY <1>1, <2>1, <2>3, <3>1, ListShows
  <2> QED BY <2>2, <2>4, <2>5 DEF NothingFound
<1> QED BY <1>2, <1>3

LEMMA LoadMoreStep ==
  ASSUME PageIInv, LoadMore
  PROVE  PageIInv'
<1>1. /\ list \in Lists /\ wanted' = wanted /\ wanted \in Filter
      /\ list.status = "ready" /\ list.hasMore /\ ~list.loadingMore
      /\ fetching = {} /\ Len(list.rows) < MaxPages
      /\ list' = [list EXCEPT !.loadingMore = TRUE]
      /\ fetching' = {Fetch("more", wanted, Len(list.rows) + 1)}
  BY DEF PageIInv, LoadMore, Awaited
<1>2. list' = [status |-> "ready", rows |-> list.rows,
               hasMore |-> list.hasMore, loadingMore |-> TRUE]
  BY <1>1 DEF Lists
<1>3. list' \in Lists
  BY <1>1, <1>2 DEF Lists
<1>4. ListIsOneQuery'
  BY <1>1, <1>2 DEF PageIInv, ListIsOneQuery
<1>5. fetching' = Awaited'
  BY <1>1, <1>2 DEF Awaited
<1> QED BY <1>1, <1>2, <1>3, <1>4, <1>5 DEF PageIInv

LEMMA LoadSteps ==
  ASSUME PageIInv,
         \/ \E filter \in Filter : SetQuery(filter) \/ Reopen(filter)
         \/ Refresh
  PROVE  PageIInv'
<1>1. /\ list \in Lists /\ wanted \in Filter /\ Len(list.rows) <= MaxPages
      /\ list.hasMore \in BOOLEAN
      /\ list.rows \in Seq([filter : Filter, number : 1..MaxPages])
      /\ list.hasMore => Len(list.rows) < MaxPages
  BY DEF PageIInv, Lists
<1>2. wanted' \in Filter /\ fetching' = {Fetch("load", wanted', 1)}
  BY <1>1 DEF SetQuery, Reopen, Refresh, Load, NotAborted
<1>3. CASE \E filter \in Filter : Reopen(filter)
  <2> DEFINE rows == <<>>
  <2>1. /\ rows \in Seq([filter : Filter, number : 1..MaxPages])
        /\ Len(rows) = 0
    OBVIOUS
  <2>2. PICK h \in BOOLEAN :
          ~h /\ list' = [status |-> "loading", rows |-> rows, hasMore |-> h,
                        loadingMore |-> FALSE]
    BY <1>3 DEF Reopen, NewList
  <2> HIDE DEF rows
  <2>3. Len(rows) <= MaxPages /\ (h => Len(rows) < MaxPages)
    BY <2>1, <2>2, PagesAssumption
  <2> QED BY <1>2, <2>1, <2>2, <2>3, ListLoads
<1>4. CASE Refresh \/ \E filter \in Filter : SetQuery(filter)
  <2>1. list' = [list EXCEPT !.status = "loading", !.loadingMore = FALSE]
    BY <1>4 DEF SetQuery, Refresh, Load
  <2>2. list' = [status |-> "loading", rows |-> list.rows,
                 hasMore |-> list.hasMore, loadingMore |-> FALSE]
    BY <1>1, <2>1 DEF Lists
  <2> QED BY <1>1, <1>2, <2>2, ListLoads
<1> QED BY <1>3, <1>4

LEMMA PageInductive == PageSpec => []PageIInv
<1>1. PageInit => PageIInv
  BY PagesAssumption
  DEF PageInit, NewList, PageIInv, Lists, Awaited, ListIsOneQuery
<1>2. PageIInv /\ UNCHANGED pageVars => PageIInv'
  BY DEF pageVars, PageIInv, Awaited, ListIsOneQuery
<1>3. PageIInv /\ [PageNext]_pageVars => PageIInv'
  BY <1>2, ArrivalSteps, LoadMoreStep, LoadSteps DEF PageNext
<1> QED BY <1>1, <1>3, PTL DEF PageSpec

(* The list shows one query in order, and waits only for what is being     *)
(* fetched (MatchesView.vue:122-157).                                      *)
THEOREM ListCorrect == PageSpec => []ListInv
<1> QED BY PageInductive, PageIInvList, PTL
-----------------------------------------------------------------------------
(* The web client.  Beyond the types: an answer to a call is about the     *)
(* owner of the token the call carried, hands out a token of the user it   *)
(* names, and refuses only a token that is not accepted for good: one that *)
(* is accepted now may have been accepted again since.                     *)

Lasting == accepted \ again

Kept(a, owners, valid) ==
  a.at # "free" =>
    /\ a.token <= Len(owners)
    /\ a.at = "sent" /\ a.kind = "signin" => a.who \in Person
    /\ a.at = "answered" =>
         /\ a.result # "none"
         /\ a.result = "ok" /\ a.kind \in {"signin", "password"} =>
              a.fresh \in DOMAIN owners /\ owners[a.fresh] = a.who
         /\ a.result = "ok" /\ a.kind \in {"me", "save"} =>
              a.token \in DOMAIN owners /\ owners[a.token] = a.who
         /\ a.result = "unauthorized" /\ a.kind # "signin" =>
              a.token \notin valid

Held(t, calls, p) ==
  t.loading # None =>
    /\ calls[t.loading] # Free
    /\ calls[t.loading].tab = p /\ calls[t.loading].kind = "me"

WebIInv ==
  /\ issued \in Seq(Person) /\ Len(issued) <= MaxTokens
  /\ accepted \subseteq DOMAIN issued /\ ended \subseteq DOMAIN issued
  /\ accepted \cap ended = {} /\ again \subseteq accepted
  /\ stored \in {NoToken} \cup DOMAIN issued
  /\ tab \in [Tab -> Tabs]
  /\ call \in [Call -> {Free} \cup Calls]
  /\ \A p \in Tab : Held(tab[p], call, p)
  /\ \A c \in Call : Kept(call[c], issued, Lasting)

LEMMA WebTypes == WebIInv => WebTypeOK
BY DEF WebIInv, WebTypeOK, Held

LEMMA CallKinds ==
  ASSUME NEW a \in {Free} \cup Calls
  PROVE  /\ a.at \in {"free", "sent", "answered"}
         /\ a.at = "free" <=> a = Free
         /\ a.at # "free" =>
              /\ a \in Calls /\ a.tab \in Tab \cup {None}
              /\ a.kind \in {"me", "save", "signin", "password", "deletion",
                             "other"}
              /\ a.token \in 0..MaxTokens /\ a.who \in Person \cup {None}
              /\ a.result \in {"none", "ok", "unauthorized"}
              /\ a.fresh \in 0..MaxTokens
BY DEF Free, Calls

LEMMA FreeIsKept ==
  ASSUME NEW owners, NEW valid
  PROVE  Kept(Free, owners, valid)
BY DEF Kept, Free

LEMMA AnswerIsKept ==
  ASSUME NEW a, NEW owners, NEW valid, NEW result \in {"ok", "unauthorized"},
         NEW who, NEW fresh, a.token <= Len(owners),
         result = "ok" /\ a.kind \in {"signin", "password"} =>
           fresh \in DOMAIN owners /\ owners[fresh] = who,
         result = "ok" /\ a.kind \in {"me", "save"} =>
           a.token \in DOMAIN owners /\ owners[a.token] = who,
         result = "unauthorized" /\ a.kind # "signin" => a.token \notin valid
  PROVE  Kept([at |-> "answered", tab |-> a.tab, kind |-> a.kind,
               token |-> a.token, who |-> who, result |-> result,
               fresh |-> fresh], owners, valid)
BY DEF Kept

(* A call stays as it was kept while tokens end and are issued.            *)
LEMMA FewerKept ==
  ASSUME NEW a, NEW owners, NEW valid, NEW fewer \in SUBSET valid,
         Kept(a, owners, valid)
  PROVE  Kept(a, owners, fewer)
BY DEF Kept

LEMMA GrownKept ==
  ASSUME NEW a \in {Free} \cup Calls, NEW owners \in Seq(Person),
         NEW valid \in SUBSET DOMAIN owners,
         NEW who \in Person, NEW more \in SUBSET Nat,
         more \subseteq valid \cup {Len(owners) + 1},
         Kept(a, owners, valid)
  PROVE  Kept(a, Append(owners, who), more)
<1> DEFINE grown == Append(owners, who)
<1>1. /\ Len(owners) \in Nat /\ Len(grown) = Len(owners) + 1
      /\ DOMAIN grown = 1..(Len(owners) + 1) /\ DOMAIN owners = 1..Len(owners)
      /\ \A t \in DOMAIN owners : grown[t] = owners[t]
  OBVIOUS
<1> HIDE DEF grown
<1>2. CASE a = Free
  BY <1>2, FreeIsKept DEF grown
<1>3. CASE a.at # "free"
  <2>1. a.token \in Nat /\ a.token <= Len(owners)
    BY <1>3, CallKinds, TokensAssumption DEF Kept
  <2>2. a.token \notin valid => a.token \notin more
    BY <1>1, <2>1
  <2>3. a.token <= Len(grown)
    BY <1>1, <2>1
  <2>4. \A t \in DOMAIN owners : t \in DOMAIN grown
    BY <1>1
  <2>5. Kept(a, grown, more)
    BY <1>1, <1>3, <2>2, <2>3, <2>4 DEF Kept
  <2> QED BY <2>5 DEF grown
<1> QED BY <1>2, <1>3, CallKinds

LEMMA WebFacts ==
  ASSUME WebIInv
  PROVE  /\ issued \in Seq(Person) /\ Len(issued) \in Nat
         /\ DOMAIN issued = 1..Len(issued) /\ Len(issued) <= MaxTokens
         /\ accepted \subseteq DOMAIN issued /\ ended \subseteq DOMAIN issued
         /\ accepted \cap ended = {} /\ again \subseteq accepted
         /\ Lasting \subseteq DOMAIN issued
         /\ stored \in 0..Len(issued) /\ stored \in 0..MaxTokens
         /\ tab \in [Tab -> Tabs] /\ call \in [Call -> {Free} \cup Calls]
         /\ \A t \in accepted : t \in 1..Len(issued) /\ issued[t] \in Person
BY TokensAssumption DEF WebIInv, NoToken, Lasting

(* No token comes to be accepted for good but a new one.                   *)
LEMMA ChangedFacts ==
  ASSUME WebIInv, NEW who, NEW fresh, fresh \cap DOMAIN issued = {},
         PasswordChanged(who, fresh)
  PROVE  /\ accepted' \subseteq DOMAIN issued \cup fresh
         /\ ended' \subseteq DOMAIN issued
         /\ accepted' \cap ended' = {} /\ again' \subseteq accepted'
         /\ Lasting' \subseteq Lasting \cup fresh
<1>1. PICK left \in SUBSET Of(who) :
        /\ accepted' = (accepted \ Of(who)) \cup left \cup fresh
        /\ ended' = (ended \cup Of(who)) \ left
        /\ again' = accepted' \cap (again \cup ended)
  BY DEF PasswordChanged
<1>2. Of(who) \subseteq accepted \cup ended
  BY DEF Of
<1>3. /\ accepted \subseteq DOMAIN issued /\ ended \subseteq DOMAIN issued
      /\ accepted \cap ended = {}
  BY WebFacts
<1> QED BY <1>1, <1>2, <1>3 DEF Lasting

LEMMA GoneFacts ==
  ASSUME WebIInv, NEW gone, TokensGone(gone)
  PROVE  /\ accepted' \subseteq DOMAIN issued /\ ended' \subseteq DOMAIN issued
         /\ accepted' \cap ended' = {} /\ again' \subseteq accepted'
         /\ Lasting' \subseteq Lasting
BY WebFacts DEF TokensGone, Lasting

(* A new token, and what the password change ended.                        *)
LEMMA TokenIssued ==
  ASSUME WebIInv, NEW who \in Person, Len(issued) < MaxTokens,
         NewToken(who), accepted' \subseteq DOMAIN issued \cup {NextToken},
         ended' \subseteq DOMAIN issued,
         Lasting' \subseteq Lasting \cup {NextToken}
  PROVE  /\ issued' \in Seq(Person) /\ Len(issued') <= MaxTokens
         /\ accepted' \subseteq DOMAIN issued'
         /\ ended' \subseteq DOMAIN issued'
         /\ DOMAIN issued \subseteq DOMAIN issued'
         /\ \A t \in DOMAIN issued : issued'[t] = issued[t]
         /\ NextToken \in DOMAIN issued' /\ issued'[NextToken] = who
         /\ NextToken \in 0..MaxTokens
         /\ \A a \in {Free} \cup Calls :
              Kept(a, issued, Lasting) => Kept(a, issued', Lasting')
<1>1. issued' = Append(issued, who) /\ NextToken = Len(issued) + 1
  BY DEF NewToken, NextToken
<1>2. /\ issued \in Seq(Person) /\ Len(issued) \in Nat
      /\ DOMAIN issued = 1..Len(issued) /\ Lasting \subseteq DOMAIN issued
  BY WebFacts
<1>3. /\ issued' \in Seq(Person) /\ Len(issued') = Len(issued) + 1
      /\ DOMAIN issued' = 1..(Len(issued) + 1)
      /\ \A t \in 1..Len(issued) : issued'[t] = issued[t]
      /\ issued'[Len(issued) + 1] = who
  BY <1>1, <1>2
<1>4. Lasting' \subseteq Lasting \cup {Len(issued) + 1}
      /\ Lasting' \in SUBSET Nat
  BY <1>1, <1>2
<1>5. \A a \in {Free} \cup Calls :
        Kept(a, issued, Lasting) => Kept(a, issued', Lasting')
  BY <1>1, <1>2, <1>4, GrownKept
<1>6. NextToken \in DOMAIN issued' /\ NextToken \in 0..MaxTokens
  BY <1>1, <1>2, <1>3, TokensAssumption
<1>7. Len(issued') <= MaxTokens /\ DOMAIN issued \subseteq DOMAIN issued'
  BY <1>2, <1>3, TokensAssumption
<1>8. accepted' \subseteq DOMAIN issued' /\ ended' \subseteq DOMAIN issued'
  BY <1>1, <1>2, <1>3
<1> QED BY <1>1, <1>2, <1>3, <1>5, <1>6, <1>7, <1>8

(* A call is sent.                                                         *)
LEMMA SendKeeps ==
  ASSUME WebIInv, NEW p \in Tab, NEW c \in Call, NEW who \in Person \cup {None},
         NEW kind \in {"me", "save", "signin", "password", "deletion", "other"},
         Send(p, c, kind, who), kind = "signin" => who \in Person,
         tab' \in [Tab -> Tabs],
         \A q \in Tab : \/ tab'[q].loading = tab[q].loading
                        \/ q = p /\ kind = "me" /\ tab'[q].loading = c
  PROVE  WebIInv'
<1> DEFINE v == [at |-> "sent", tab |-> p, kind |-> kind,
                 token |-> Carried(kind), who |-> who, result |-> "none",
                 fresh |-> NoToken]
<1>1. /\ call[c] = Free /\ call' = [call EXCEPT ![c] = v]
      /\ UNCHANGED <<issued, accepted, ended, again, stored>>
  BY DEF Send, tokenVars
<1>2. Carried(kind) \in 0..MaxTokens /\ Carried(kind) <= Len(issued)
  BY WebFacts, TokensAssumption DEF Carried, NoToken
<1>3. v \in Calls /\ v # Free /\ v.tab = p /\ v.kind = kind
  BY <1>2, TokensAssumption DEF Calls, Free, NoToken
<1>4. Kept(v, issued, Lasting)
  BY <1>2 DEF Kept
<1> HIDE DEF v
<1>5. /\ call' \in [Call -> {Free} \cup Calls] /\ call'[c] = v
      /\ \A d \in Call \ {c} : call'[d] = call[d]
  BY <1>1, <1>3, WebFacts
<1>6. ASSUME NEW q \in Tab
      PROVE  Held(tab'[q], call', q)
  <2>1. Held(tab[q], call, q) /\ tab[q] \in Tabs /\ tab'[q] \in Tabs
    BY WebFacts DEF WebIInv
  <2>2. CASE tab'[q].loading = tab[q].loading
    BY <1>1, <1>5, <2>1, <2>2 DEF Held, Tabs
  <2>3. CASE q = p /\ kind = "me" /\ tab'[q].loading = c
    BY <1>3, <1>5, <2>3 DEF Held
  <2> QED BY <2>2, <2>3
<1>7. \A d \in Call : Kept(call'[d], issued, Lasting)
  BY <1>4, <1>5 DEF WebIInv
<1> QED BY <1>1, <1>5, <1>6, <1>7 DEF WebIInv, Lasting

LEMMA SendSteps ==
  ASSUME WebIInv, NEW p \in Tab, NEW c \in Call,
         \/ LoadUser(p, c) \/ Submit(p, c)
         \/ \E who \in Person : SignIn(p, c, who)
  PROVE  WebIInv'
<1>1. tab \in [Tab -> Tabs]
  BY WebFacts
<1>2. CASE \E who \in Person : SignIn(p, c, who)
  BY <1>1, <1>2, SendKeeps DEF SignIn
<1>3. CASE LoadUser(p, c)
  <2>1. tab' = [tab EXCEPT ![p].loading = c] /\ Send(p, c, "me", None)
    BY <1>3 DEF LoadUser
  <2>2. /\ tab' \in [Tab -> Tabs] /\ tab'[p].loading = c
        /\ \A q \in Tab \ {p} : tab'[q] = tab[q]
    BY <1>1, <2>1 DEF Tabs
  <2> QED BY <1>1, <2>1, <2>2, SendKeeps
<1>4. CASE Submit(p, c)
  <2>1. PICK kind \in {"save", "password", "deletion", "other"} :
          Send(p, c, kind, None)
    BY <1>4 DEF Submit
  <2>2. tab' = tab
    BY <1>4 DEF Submit
  <2> QED BY <1>1, <2>1, <2>2, SendKeeps
<1> QED BY <1>2, <1>3, <1>4

(* A call is answered: its tab still holds it, and the others' are as they *)
(* were.                                                                   *)
LEMMA AnsweredFacts ==
  ASSUME WebIInv, NEW c \in Call, call[c].at = "sent",
         NEW result \in {"ok", "unauthorized"}, NEW who \in Person \cup {None},
         NEW fresh \in 0..MaxTokens, Answered(c, result, who, fresh)
  PROVE  /\ call' \in [Call -> {Free} \cup Calls]
         /\ \A d \in Call \ {c} : call'[d] = call[d]
         /\ \/ call'[c] = Free
            \/ call'[c] = [at |-> "answered", tab |-> call[c].tab,
                           kind |-> call[c].kind, token |-> call[c].token,
                           who |-> who, result |-> result, fresh |-> fresh]
         /\ \A p \in Tab : Held(tab[p], call', p)
<1>1. call \in [Call -> {Free} \cup Calls] /\ call[c] \in Calls
  BY WebFacts, CallKinds
<1> DEFINE old == call[c]
           new == [at |-> "answered", tab |-> old.tab, kind |-> old.kind,
                   token |-> old.token, who |-> who, result |-> result,
                   fresh |-> fresh]
<1>2. new \in Calls /\ new # Free
  BY <1>1 DEF Calls, Free
<1>3. ASSUME NEW v,
             v = [old EXCEPT !.at = "answered", !.result = result,
                             !.who = who, !.fresh = fresh]
      PROVE  v = new
  BY <1>1, <1>3 DEF Calls
<1>4. call' = [call EXCEPT ![c] = IF old.tab = None THEN Free ELSE new]
  BY <1>1, <1>3 DEF Answered
<1> HIDE DEF new
<1>5. /\ call' \in [Call -> {Free} \cup Calls]
      /\ \A d \in Call \ {c} : call'[d] = call[d]
      /\ call'[c] = IF old.tab = None THEN Free ELSE new
  BY <1>1, <1>2, <1>4
<1>6. ASSUME NEW p \in Tab
      PROVE  Held(tab[p], call', p)
  <2>1. Held(tab[p], call, p) /\ tab[p] \in Tabs
    BY WebFacts DEF WebIInv
  <2>2. tab[p].loading \in Call \cup {None}
    BY <2>1 DEF Tabs
  <2>3. CASE tab[p].loading = c
    <3>1. old.tab = p /\ old.kind = "me" /\ p # None /\ c # None
      BY <2>1, <2>3, NoneAssumption DEF Held
    <3>2. call'[c] = new /\ new.tab = p /\ new.kind = "me"
      BY <1>5, <3>1 DEF new
    <3> QED BY <1>2, <2>3, <3>2 DEF Held
  <2>4. CASE tab[p].loading # c
    BY <1>5, <2>1, <2>2, <2>4 DEF Held
  <2> QED BY <2>3, <2>4
<1> QED BY <1>5, <1>6 DEF new

LEMMA RefusedStep ==
  ASSUME WebIInv, NEW c \in Call, Refused(c)
  PROVE  WebIInv'
<1>1. /\ call[c].at = "sent" /\ Answered(c, "unauthorized", None, NoToken)
      /\ call[c].kind # "signin" => call[c].token \notin accepted
      /\ UNCHANGED <<issued, accepted, ended, again, stored, tab>>
  BY DEF Refused, tokenVars
<1>2. NoToken \in 0..MaxTokens
  BY TokensAssumption DEF NoToken
<1>3. /\ call' \in [Call -> {Free} \cup Calls]
      /\ \A d \in Call \ {c} : call'[d] = call[d]
      /\ \/ call'[c] = Free
         \/ call'[c] = [at |-> "answered", tab |-> call[c].tab,
                        kind |-> call[c].kind, token |-> call[c].token,
                        who |-> None, result |-> "unauthorized",
                        fresh |-> NoToken]
      /\ \A p \in Tab : Held(tab[p], call', p)
  BY <1>1, <1>2, AnsweredFacts
<1>4. call[c].token <= Len(issued)
  BY <1>1 DEF WebIInv, Kept
<1>5. Kept(call'[c], issued, Lasting)
  <2> DEFINE v == [at |-> "answered", tab |-> call[c].tab,
                   kind |-> call[c].kind, token |-> call[c].token,
                   who |-> None, result |-> "unauthorized", fresh |-> NoToken]
  <2>0. call[c].kind # "signin" => call[c].token \notin Lasting
    BY <1>1 DEF Lasting
  <2>1. Kept(v, issued, Lasting)
    BY <1>1, <1>4, <2>0, AnswerIsKept
  <2>2. call'[c] = Free \/ call'[c] = v
    BY <1>3
  <2> HIDE DEF v
  <2> QED BY <2>1, <2>2, FreeIsKept
<1>6. \A d \in Call : Kept(call'[d], issued, Lasting)
  BY <1>3, <1>5 DEF WebIInv
<1> QED BY <1>1, <1>3, <1>6 DEF WebIInv, Lasting

LEMMA SignInServedStep ==
  ASSUME WebIInv, NEW c \in Call, SignInServed(c)
  PROVE  WebIInv'
<1>1. /\ call[c].at = "sent" /\ call[c].kind = "signin"
      /\ Len(issued) < MaxTokens /\ NewToken(call[c].who)
      /\ accepted' = accepted \cup {NextToken}
      /\ Answered(c, "ok", call[c].who, NextToken)
      /\ UNCHANGED <<ended, again, stored, tab>>
  BY DEF SignInServed
<1>2. call[c].who \in Person /\ call[c].token <= Len(issued)
  BY <1>1 DEF WebIInv, Kept
<1>3. /\ issued' \in Seq(Person) /\ Len(issued') <= MaxTokens
      /\ accepted' \subseteq DOMAIN issued' /\ ended' \subseteq DOMAIN issued'
      /\ DOMAIN issued \subseteq DOMAIN issued'
      /\ NextToken \in DOMAIN issued' /\ issued'[NextToken] = call[c].who
      /\ NextToken \in 0..MaxTokens
      /\ \A a \in {Free} \cup Calls :
           Kept(a, issued, Lasting) => Kept(a, issued', Lasting')
  <2>1. /\ accepted' \subseteq DOMAIN issued \cup {NextToken}
        /\ ended' \subseteq DOMAIN issued
        /\ Lasting' \subseteq Lasting \cup {NextToken}
    BY <1>1, WebFacts DEF Lasting
  <2> QED BY <1>1, <1>2, <2>1, TokenIssued
<1>4. /\ call' \in [Call -> {Free} \cup Calls]
      /\ \A d \in Call \ {c} : call'[d] = call[d]
      /\ \/ call'[c] = Free
         \/ call'[c] = [at |-> "answered", tab |-> call[c].tab,
                        kind |-> call[c].kind, token |-> call[c].token,
                        who |-> call[c].who, result |-> "ok",
                        fresh |-> NextToken]
      /\ \A p \in Tab : Held(tab[p], call', p)
  BY <1>1, <1>2, <1>3, AnsweredFacts
<1>5. Kept(call[c], issued', Lasting') /\ call[c].token <= Len(issued')
  <2>1. Kept(call[c], issued', Lasting')
    BY <1>3, WebFacts DEF WebIInv
  <2> QED BY <1>1, <2>1 DEF Kept
<1>6. Kept(call'[c], issued', Lasting')
  <2> DEFINE v == [at |-> "answered", tab |-> call[c].tab,
                   kind |-> call[c].kind, token |-> call[c].token,
                   who |-> call[c].who, result |-> "ok", fresh |-> NextToken]
  <2>1. Kept(v, issued', Lasting')
    BY <1>1, <1>3, <1>5, AnswerIsKept
  <2>2. call'[c] = Free \/ call'[c] = v
    BY <1>4
  <2> HIDE DEF v
  <2> QED BY <2>1, <2>2, FreeIsKept
<1>7. \A d \in Call : Kept(call'[d], issued', Lasting')
  BY <1>3, <1>4, <1>6, WebFacts DEF WebIInv
<1>8. accepted' \cap ended' = {} /\ again' \subseteq accepted'
  BY <1>1, WebFacts DEF NextToken
<1> QED BY <1>1, <1>3, <1>4, <1>7, <1>8 DEF WebIInv

LEMMA ServedStep ==
  ASSUME WebIInv, NEW c \in Call, Served(c)
  PROVE  WebIInv'
<1> DEFINE who == issued[call[c].token]
           TokensLeft ==
             /\ accepted' \subseteq DOMAIN issued
             /\ ended' \subseteq DOMAIN issued
             /\ accepted' \cap ended' = {} /\ again' \subseteq accepted'
             /\ Lasting' \subseteq Lasting
<1>1. /\ call[c].at = "sent" /\ call[c].token \in accepted
      /\ stored' = stored /\ tab' = tab
  BY DEF Served
<1>2. /\ who \in Person /\ call[c].token \in DOMAIN issued
      /\ call[c].token <= Len(issued) /\ call[c] \in Calls
      /\ call[c].kind \in {"me", "save", "signin", "password", "deletion",
                           "other"}
  BY <1>1, WebFacts, CallKinds
<1>3. NoToken \in 0..MaxTokens
  BY TokensAssumption DEF NoToken
<1>4. ASSUME Answered(c, "ok", who, NoToken),
             call[c].kind \in {"me", "save", "other", "deletion"},
             issued' = issued, TokensLeft
      PROVE  WebIInv'
  <2>1. /\ call' \in [Call -> {Free} \cup Calls]
        /\ \A d \in Call \ {c} : call'[d] = call[d]
        /\ \/ call'[c] = Free
           \/ call'[c] = [at |-> "answered", tab |-> call[c].tab,
                          kind |-> call[c].kind, token |-> call[c].token,
                          who |-> who, result |-> "ok", fresh |-> NoToken]
        /\ \A p \in Tab : Held(tab[p], call', p)
    BY <1>1, <1>2, <1>3, <1>4, AnsweredFacts
  <2>2. Kept(call'[c], issued, Lasting')
    <3> HIDE DEF who
    <3>1. CASE call'[c] = Free
      BY <3>1, FreeIsKept
    <3>2. CASE call'[c] # Free
      BY <1>2, <1>4, <2>1, <3>2 DEF Kept, who
    <3> QED BY <3>1, <3>2
  <2>3. \A d \in Call : Kept(call'[d], issued, Lasting')
    BY <1>4, <2>1, <2>2, FewerKept DEF WebIInv
  <2> QED BY <1>1, <1>4, <2>1, <2>3 DEF WebIInv
<1>5. ASSUME call[c].kind = "password", Len(issued) < MaxTokens,
             NewToken(who), PasswordChanged(who, {NextToken}),
             Answered(c, "ok", who, NextToken)
      PROVE  WebIInv'
  <2> HIDE DEF who
  <2>0. /\ accepted' \subseteq DOMAIN issued \cup {NextToken}
        /\ ended' \subseteq DOMAIN issued
        /\ accepted' \cap ended' = {} /\ again' \subseteq accepted'
        /\ Lasting' \subseteq Lasting \cup {NextToken}
    <3>1. {NextToken} \cap DOMAIN issued = {}
      BY WebFacts DEF NextToken
    <3> QED BY <1>5, <3>1, ChangedFacts
  <2>1. /\ issued' \in Seq(Person) /\ Len(issued') <= MaxTokens
        /\ accepted' \subseteq DOMAIN issued' /\ ended' \subseteq DOMAIN issued'
        /\ DOMAIN issued \subseteq DOMAIN issued'
        /\ NextToken \in DOMAIN issued' /\ issued'[NextToken] = who
        /\ NextToken \in 0..MaxTokens
        /\ \A a \in {Free} \cup Calls :
             Kept(a, issued, Lasting) => Kept(a, issued', Lasting')
    BY <1>2, <1>5, <2>0, TokenIssued
  <2>2. /\ call' \in [Call -> {Free} \cup Calls]
        /\ \A d \in Call \ {c} : call'[d] = call[d]
        /\ \/ call'[c] = Free
           \/ call'[c] = [at |-> "answered", tab |-> call[c].tab,
                          kind |-> call[c].kind, token |-> call[c].token,
                          who |-> who, result |-> "ok", fresh |-> NextToken]
        /\ \A p \in Tab : Held(tab[p], call', p)
    BY <1>1, <1>2, <1>5, <2>1, AnsweredFacts
  <2>3. call[c].token <= Len(issued')
    <3>1. Kept(call[c], issued', Lasting')
      BY <2>1, WebFacts DEF WebIInv
    <3> QED BY <1>1, <3>1 DEF Kept
  <2>4. Kept(call'[c], issued', Lasting')
    <3> DEFINE v == [at |-> "answered", tab |-> call[c].tab,
                     kind |-> call[c].kind, token |-> call[c].token,
                     who |-> who, result |-> "ok", fresh |-> NextToken]
    <3>1. Kept(v, issued', Lasting')
      BY <1>5, <2>1, <2>3, AnswerIsKept
    <3>2. call'[c] = Free \/ call'[c] = v
      BY <2>2
    <3> HIDE DEF v
    <3> QED BY <3>1, <3>2, FreeIsKept
  <2>5. \A d \in Call : Kept(call'[d], issued', Lasting')
    BY <2>1, <2>2, <2>4, WebFacts DEF WebIInv
  <2> QED BY <1>1, <2>0, <2>1, <2>2, <2>5 DEF WebIInv
<1>6. CASE call[c].kind = "password"
  <2>1. /\ Len(issued) < MaxTokens /\ NewToken(who)
        /\ PasswordChanged(who, {NextToken})
        /\ Answered(c, "ok", who, NextToken)
    BY <1>6 DEF Served
  <2> HIDE DEF who
  <2> QED BY <1>5, <1>6, <2>1
<1>7. CASE call[c].kind = "deletion"
  <2>1. /\ Answered(c, "ok", who, NoToken) /\ issued' = issued
        /\ TokensGone(Of(who))
    BY <1>7 DEF Served
  <2>2. TokensLeft
    BY <2>1, GoneFacts
  <2> HIDE DEF who, TokensLeft
  <2> QED BY <1>4, <1>7, <2>1, <2>2
<1>8. CASE call[c].kind \notin {"password", "deletion"}
  <2>1. /\ Answered(c, "ok", who, NoToken) /\ issued' = issued
        /\ call[c].kind \in {"me", "save", "other"}
        /\ UNCHANGED <<accepted, ended, again>>
    BY <1>8 DEF Served, tokenVars
  <2>2. TokensLeft
    BY <2>1, WebFacts DEF Lasting
  <2> HIDE DEF who, TokensLeft
  <2> QED BY <1>4, <2>1, <2>2
<1> QED BY <1>6, <1>7, <1>8

LEMMA TokensStep ==
  ASSUME WebIInv, TokenEnds \/ ChangedElsewhere
  PROVE  WebIInv'
<1>1. /\ UNCHANGED <<issued, stored, tab, call>>
      /\ \/ \E t : TokensGone({t})
         \/ \E who : PasswordChanged(who, {})
  BY DEF TokenEnds, ChangedElsewhere
<1>2. /\ accepted' \subseteq DOMAIN issued /\ ended' \subseteq DOMAIN issued
      /\ accepted' \cap ended' = {} /\ again' \subseteq accepted'
      /\ Lasting' \subseteq Lasting
  BY <1>1, GoneFacts, ChangedFacts
<1>3. \A c \in Call : Kept(call[c], issued, Lasting')
  BY <1>2, FewerKept DEF WebIInv
<1> QED BY <1>1, <1>2, <1>3 DEF WebIInv

LEMMA TabTypes ==
  ASSUME NEW t
  PROVE  /\ Opened(t) \in Tabs /\ Opened(t).loading = None
         /\ Opened(t).user = None /\ Opened(t).signedIn = (t # NoToken)
BY DEF Opened, Tabs

LEMMA SignOutStep ==
  ASSUME WebIInv, NEW p \in Tab, SignOut(p)
  PROVE  WebIInv'
<1>1. /\ stored' = NoToken /\ tab' = [tab EXCEPT ![p] = Opened(NoToken)]
      /\ UNCHANGED <<issued, accepted, ended, again, call>>
  BY DEF SignOut, SignedOut, tokenVars
<1>2. /\ tab' \in [Tab -> Tabs] /\ tab'[p] = Opened(NoToken)
      /\ \A q \in Tab \ {p} : tab'[q] = tab[q]
  BY <1>1, WebFacts, TabTypes
<1>3. \A q \in Tab : Held(tab'[q], call', q)
  BY <1>1, <1>2, TabTypes DEF WebIInv, Held
<1> QED BY <1>1, <1>2, <1>3 DEF WebIInv, Lasting

LEMMA ReloadStep ==
  ASSUME WebIInv, NEW p \in Tab, Reload(p)
  PROVE  WebIInv'
<1>1. /\ tab' = [tab EXCEPT ![p] = Opened(stored)]
      /\ UNCHANGED <<issued, accepted, ended, again, stored>>
  BY DEF Reload, tokenVars
<1>2. ASSUME NEW c \in Call
      PROVE  /\ call'[c] \in {Free} \cup Calls
             /\ Kept(call'[c], issued, Lasting)
             /\ call[c].tab # p => call'[c] = call[c]
  <2>1. call[c] \in {Free} \cup Calls /\ Kept(call[c], issued, Lasting)
    BY WebFacts DEF WebIInv
  <2>2. CASE call[c].at = "sent" /\ call[c].tab = p
    <3> DEFINE v == [call[c] EXCEPT !.tab = None]
    <3>1. call'[c] = v
      BY <2>2 DEF Reload
    <3>2. /\ v \in Calls /\ v.at = "sent" /\ v.token = call[c].token
          /\ v.kind = call[c].kind /\ v.who = call[c].who
      BY <2>1, <2>2, CallKinds DEF Calls
    <3> HIDE DEF v
    <3>3. Kept(v, issued, Lasting)
      BY <2>1, <2>2, <3>2 DEF Kept
    <3> QED BY <2>2, <3>1, <3>2, <3>3
  <2>3. CASE call[c].at = "answered" /\ call[c].tab = p
    BY <2>3, FreeIsKept DEF Reload
  <2>4. CASE ~(call[c].at \in {"sent", "answered"} /\ call[c].tab = p)
    BY <2>1, <2>4 DEF Reload
  <2> QED BY <2>1, <2>2, <2>3, <2>4, CallKinds
<1>3. call' \in [Call -> {Free} \cup Calls]
  BY <1>2 DEF Reload
<1>4. /\ tab' \in [Tab -> Tabs] /\ tab'[p] = Opened(stored)
      /\ \A q \in Tab \ {p} : tab'[q] = tab[q]
  BY <1>1, WebFacts, TabTypes
<1>5. ASSUME NEW q \in Tab
      PROVE  Held(tab'[q], call', q)
  <2>1. CASE q = p
    BY <1>4, <2>1, TabTypes DEF Held
  <2>2. CASE q # p
    <3>1. Held(tab[q], call, q) /\ tab'[q] = tab[q] /\ tab[q] \in Tabs
      BY <1>4, <2>2, WebFacts DEF WebIInv
    <3>2. tab[q].loading \in Call \cup {None}
      BY <3>1 DEF Tabs
    <3> QED BY <1>2, <2>2, <3>1, <3>2 DEF Held
  <2> QED BY <2>1, <2>2
<1> QED BY <1>1, <1>2, <1>3, <1>4, <1>5 DEF WebIInv, Lasting

(* What an answer makes of its tab and of the token.                       *)
LEMMA ReceiveFacts ==
  ASSUME WebIInv, NEW p \in Tab, NEW c \in Call, Receive(p, c)
  PROVE  /\ tab[p] \in Tabs /\ call[c] \in Calls /\ call[c].at = "answered"
         /\ call[c].tab = p /\ call' = [call EXCEPT ![c] = Free]
         /\ UNCHANGED <<issued, accepted, ended, again>>
         /\ \A q \in Tab \ {p} : tab'[q] = tab[q]
         /\ tab' \in [Tab -> Tabs]
         /\ \/ /\ stored' = NoToken /\ tab'[p] = SignedOut
               /\ EndsSession(c) \/ (call[c].result = "ok"
                                     /\ call[c].kind = "deletion")
            \/ /\ call[c].result = "ok"
               /\ call[c].kind \in {"signin", "password"}
               /\ stored' = call[c].fresh /\ tab'[p].user = call[c].who
               /\ tab'[p].loading = tab[p].loading
               /\ call[c].fresh \in DOMAIN issued
               /\ issued[call[c].fresh] = call[c].who
            \/ /\ call[c].result = "ok" /\ call[c].kind \in {"me", "save"}
               /\ stored' = stored /\ tab'[p].user = call[c].who
               /\ tab'[p].loading = IF tab[p].loading = c THEN None
                                    ELSE tab[p].loading
               /\ call[c].token \in DOMAIN issued
               /\ issued[call[c].token] = call[c].who
            \/ /\ stored' = stored /\ tab'[p] = tab[p]
               /\ call[c].kind # "me"
<1>1. /\ call[c].at = "answered" /\ call[c].tab = p
      /\ call' = [call EXCEPT ![c] = Free]
      /\ UNCHANGED <<issued, accepted, ended, again>>
  BY DEF Receive, tokenVars
<1>2. /\ call[c] \in Calls /\ tab[p] \in Tabs /\ tab \in [Tab -> Tabs]
      /\ call[c].result \in {"ok", "unauthorized"}
      /\ call[c].who \in Person \cup {None}
  BY <1>1, WebFacts, CallKinds DEF WebIInv, Kept
<1>3. CASE EndsSession(c) \/ (call[c].result = "ok"
                              /\ call[c].kind = "deletion")
  <2>1. stored' = NoToken /\ tab' = [tab EXCEPT ![p] = SignedOut]
    <3>1. CASE EndsSession(c)
      BY <3>1 DEF Receive, EndsSession
    <3>2. CASE call[c].result = "ok" /\ call[c].kind = "deletion"
      BY <3>2 DEF Receive
    <3> QED BY <1>3, <3>1, <3>2
  <2> QED BY <1>1, <1>2, <1>3, <2>1, TabTypes DEF SignedOut
<1>4. CASE call[c].result = "ok" /\ call[c].kind \in {"signin", "password"}
  <2>1. stored' = call[c].fresh /\ tab' = [tab EXCEPT ![p] = Started(p, c)]
    BY <1>4 DEF Receive, EndsSession
  <2>2. /\ call[c].fresh \in DOMAIN issued
        /\ issued[call[c].fresh] = call[c].who
    BY <1>1, <1>4 DEF WebIInv, Kept
  <2>3. /\ Started(p, c) \in Tabs /\ Started(p, c).user = call[c].who
        /\ Started(p, c).loading = tab[p].loading
    BY <1>2 DEF Started, Tabs
  <2> QED BY <1>1, <1>2, <1>4, <2>1, <2>2, <2>3
<1>5. CASE call[c].result = "ok" /\ call[c].kind \in {"me", "save"}
  <2>1. stored' = stored /\ tab' = [tab EXCEPT ![p] = Loaded(p, c)]
    BY <1>5 DEF Receive, EndsSession
  <2>2. /\ call[c].token \in DOMAIN issued
        /\ issued[call[c].token] = call[c].who
    BY <1>1, <1>5 DEF WebIInv, Kept
  <2>3. /\ Loaded(p, c) \in Tabs /\ Loaded(p, c).user = call[c].who
        /\ Loaded(p, c).loading = IF tab[p].loading = c THEN None
                                  ELSE tab[p].loading
    BY <1>2 DEF Loaded, Tabs
  <2> QED BY <1>1, <1>2, <1>5, <2>1, <2>2, <2>3
<1>6. CASE /\ ~EndsSession(c)
           /\ ~(call[c].result = "ok"
                /\ call[c].kind \in {"deletion", "signin", "password", "me",
                                     "save"})
  <2>1. stored' = stored /\ tab' = [tab EXCEPT ![p] = @]
    BY <1>6 DEF Receive
  <2>2. call[c].kind # "me"
    BY <1>2, <1>6 DEF EndsSession
  <2> QED BY <1>1, <1>2, <2>1, <2>2
<1> QED BY <1>3, <1>4, <1>5, <1>6

(* A call that is over was awaited by no other tab.                        *)
LEMMA CallOver ==
  ASSUME WebIInv, NEW p \in Tab, NEW c \in Call,
         call[c] # Free, call[c].tab = p, call' = [call EXCEPT ![c] = Free],
         tab' \in [Tab -> Tabs], \A q \in Tab \ {p} : tab'[q] = tab[q],
         \/ tab'[p].loading = None
         \/ tab'[p].loading = tab[p].loading /\ tab[p].loading # c
  PROVE  /\ call' \in [Call -> {Free} \cup Calls]
         /\ \A q \in Tab : Held(tab'[q], call', q)
         /\ \A d \in Call : Kept(call'[d], issued, Lasting)
<1>1. /\ call' \in [Call -> {Free} \cup Calls] /\ call'[c] = Free
      /\ \A d \in Call \ {c} : call'[d] = call[d]
  BY WebFacts
<1>2. ASSUME NEW q \in Tab
      PROVE  Held(tab'[q], call', q)
  <2>1. Held(tab[q], call, q) /\ tab[q] \in Tabs
    BY WebFacts DEF WebIInv
  <2>2. tab[q].loading \in Call \cup {None}
    BY <2>1 DEF Tabs
  <2> QED BY <1>1, <2>1, <2>2 DEF Held
<1>3. \A d \in Call : Kept(call'[d], issued, Lasting)
  BY <1>1, FreeIsKept DEF WebIInv
<1> QED BY <1>1, <1>2, <1>3

LEMMA ReceiveStep ==
  ASSUME WebIInv, NEW p \in Tab, NEW c \in Call, Receive(p, c)
  PROVE  WebIInv'
<1>1. /\ call[c] # Free /\ call[c].tab = p
      /\ call' = [call EXCEPT ![c] = Free] /\ tab' \in [Tab -> Tabs]
      /\ \A q \in Tab \ {p} : tab'[q] = tab[q]
      /\ UNCHANGED <<issued, accepted, ended, again>>
  BY ReceiveFacts DEF Free
<1>2. tab[p].loading = c => call[c].kind = "me"
  <2>1. tab[p].loading = c => Held(tab[p], call, p) /\ c # None
    BY NoneAssumption DEF WebIInv
  <2> QED BY <2>1 DEF Held
<1>3. \/ tab'[p].loading = None
      \/ tab'[p].loading = tab[p].loading /\ tab[p].loading # c
  BY <1>2, ReceiveFacts, TabTypes DEF SignedOut
<1>4. stored' \in {NoToken} \cup DOMAIN issued
  BY ReceiveFacts DEF WebIInv
<1>5. /\ call' \in [Call -> {Free} \cup Calls]
      /\ \A q \in Tab : Held(tab'[q], call', q)
      /\ \A d \in Call : Kept(call'[d], issued, Lasting)
  BY <1>1, <1>3, CallOver
<1> QED BY <1>1, <1>4, <1>5 DEF WebIInv, Lasting

LEMMA FailsFacts ==
  ASSUME WebIInv, NEW p \in Tab, NEW c \in Call, Fails(p, c)
  PROVE  /\ call[c] # Free /\ call[c].tab = p
         /\ call' = [call EXCEPT ![c] = Free]
         /\ UNCHANGED <<issued, accepted, ended, again, stored>>
         /\ tab' \in [Tab -> Tabs]
         /\ \A q \in Tab \ {p} : tab'[q] = tab[q]
         /\ tab'[p].signedIn = tab[p].signedIn /\ tab'[p].user = tab[p].user
         /\ tab'[p].loading = IF tab[p].loading = c THEN None
                              ELSE tab[p].loading
<1>1. tab \in [Tab -> Tabs] /\ tab[p] \in Tabs
  BY WebFacts
<1> DEFINE l == IF tab[p].loading = c THEN None ELSE tab[p].loading
           v == [tab[p] EXCEPT !.loading = l]
<1>2. /\ v \in Tabs /\ v.signedIn = tab[p].signedIn
      /\ v.user = tab[p].user /\ v.loading = l
  BY <1>1 DEF Tabs
<1>3. tab' = [tab EXCEPT ![p] = v]
  BY DEF Fails
<1> HIDE DEF v, l
<1>4. tab'[p] = v /\ tab' \in [Tab -> Tabs]
      /\ \A q \in Tab \ {p} : tab'[q] = tab[q]
  BY <1>1, <1>2, <1>3
<1> QED BY <1>2, <1>4 DEF Fails, l, tokenVars

LEMMA FailsKeeps ==
  ASSUME WebIInv, NEW p \in Tab, NEW c \in Call, Fails(p, c)
  PROVE  WebIInv'
<1>1. /\ call[c] # Free /\ call[c].tab = p
      /\ call' = [call EXCEPT ![c] = Free]
      /\ UNCHANGED <<issued, accepted, ended, again, stored>>
      /\ tab' \in [Tab -> Tabs]
      /\ \A q \in Tab \ {p} : tab'[q] = tab[q]
      /\ \/ tab'[p].loading = None
         \/ tab'[p].loading = tab[p].loading /\ tab[p].loading # c
  BY FailsFacts
<1>2. /\ call' \in [Call -> {Free} \cup Calls]
      /\ \A q \in Tab : Held(tab'[q], call', q)
      /\ \A d \in Call : Kept(call'[d], issued, Lasting)
  BY <1>1, CallOver
<1> QED BY <1>1, <1>2 DEF WebIInv, Lasting

LEMMA WebInductive == WebSpec => []WebIInv
<1>1. WebInit => WebIInv
  <2> SUFFICES ASSUME WebInit
               PROVE  WebIInv
    OBVIOUS
  <2>1. /\ issued = <<>> /\ stored = NoToken
        /\ accepted = {} /\ ended = {} /\ again = {}
        /\ \A p \in Tab : tab[p] = Opened(NoToken)
        /\ \A c \in Call : call[c] = Free
        /\ tab \in [Tab -> Tabs] /\ call \in [Call -> {Free} \cup Calls]
    BY TabTypes DEF WebInit
  <2>2. issued \in Seq(Person) /\ Len(issued) <= MaxTokens
    BY <2>1, TokensAssumption
  <2>3. \A p \in Tab : Held(tab[p], call, p)
    BY <2>1, TabTypes DEF Held
  <2>4. \A c \in Call : Kept(call[c], issued, Lasting)
    BY <2>1, FreeIsKept
  <2> QED BY <2>1, <2>2, <2>3, <2>4 DEF WebIInv
<1>2. WebIInv /\ UNCHANGED webVars => WebIInv'
  BY DEF webVars, tokenVars, WebIInv, Lasting
<1>3. WebIInv /\ [WebNext]_webVars => WebIInv'
  BY <1>2, SendSteps, RefusedStep, SignInServedStep, ServedStep,
     TokensStep, SignOutStep, ReloadStep, ReceiveStep, FailsKeeps
  DEF WebNext
<1> QED BY <1>1, <1>3, PTL DEF WebSpec

(* What the tabs and the calls hold stays in its type, and a tab that      *)
(* waits for its user waits for a call in flight (stores/session.ts).      *)
THEOREM WebTypeCorrect == WebSpec => []WebTypeOK
<1> QED BY WebInductive, WebTypes, PTL

(* A tab comes to show another user than the one its calls act for only    *)
(* through another tab, or an answer to a call that was sent under an      *)
(* earlier session (stores/session.ts:31-90).                              *)
THEOREM ShownIsOwner == WebSpec => ShownUserIsOwners
<1>1. WebIInv /\ [WebNext]_webVars =>
        [\A p \in Tab : ~ShowsAnother(p) /\ ShowsAnother(p)' =>
           \/ tab'[p] = tab[p]
           \/ \E c \in Call :
                /\ call[c] # Free /\ call'[c] = Free
                /\ call[c].tab = p /\ call[c].token # stored]_webVars
  <2> SUFFICES ASSUME WebIInv, WebNext, NEW p \in Tab, ~ShowsAnother(p),
                      ShowsAnother(p)', tab'[p] # tab[p]
               PROVE  \E c \in Call :
                        /\ call[c] # Free /\ call'[c] = Free
                        /\ call[c].tab = p /\ call[c].token # stored
    OBVIOUS
  <2>0. /\ tab'[p].signedIn /\ tab'[p].user # None /\ stored' # NoToken
        /\ tab'[p].user # issued'[stored'] /\ tab \in [Tab -> Tabs]
    BY WebFacts DEF ShowsAnother
  <2>1. ASSUME NEW q \in Tab, SignOut(q) \/ Reload(q)
        PROVE  FALSE
    BY <2>0, <2>1, TabTypes DEF SignOut, SignedOut, Reload
  <2>2. ASSUME NEW q \in Tab, NEW c \in Call, LoadUser(q, c)
        PROVE  FALSE
    BY <2>0, <2>2 DEF LoadUser, Tabs
  <2>3. ASSUME NEW q \in Tab, NEW c \in Call, Fails(q, c)
        PROVE  FALSE
    BY <2>0, <2>3, FailsFacts DEF ShowsAnother
  <2>4. ASSUME NEW q \in Tab, NEW c \in Call, Receive(q, c)
        PROVE  /\ call[c] # Free /\ call'[c] = Free
               /\ call[c].tab = p /\ call[c].token # stored
    <3>1. q = p
      BY <2>0, <2>4, ReceiveFacts
    <3>2. call[c] # Free /\ call'[c] = Free /\ call[c].tab = p
      BY <2>4, <3>1, WebFacts, ReceiveFacts DEF Free
    <3>3. call[c].token # stored
      BY <2>0, <2>4, <3>1, ReceiveFacts, TabTypes DEF SignedOut
    <3> QED BY <3>2, <3>3
  <2>5. tab' = tab \/ \E q \in Tab : \/ SignOut(q) \/ Reload(q)
                                     \/ \E c \in Call : \/ LoadUser(q, c)
                                                        \/ Receive(q, c)
                                                        \/ Fails(q, c)
    BY DEF WebNext, Submit, SignIn, Refused, SignInServed, Served, TokenEnds,
           ChangedElsewhere
  <2> QED BY <2>1, <2>2, <2>3, <2>4, <2>5
<1> QED BY <1>1, WebInductive, PTL DEF WebSpec, ShownUserIsOwners

(* A session the API accepts is lost to the browser only when the user     *)
(* leaves it, when another takes its place, or through the late 401 of a   *)
(* call that carried another token, or that was refused before the session *)
(* was accepted again (main.ts:9-15, api/client.ts:100,                    *)
(* users/account.go:122-142).                                              *)
THEOREM AcceptedKept == WebSpec => AcceptedSessionKept
<1>1. WebIInv /\ [WebNext]_webVars =>
        [(stored # NoToken /\ stored \in accepted' /\ stored' = NoToken) =>
           \/ \E p \in Tab :
                tab[p].signedIn /\ ~tab'[p].signedIn /\ call' = call
           \/ \E c \in Call :
                /\ call[c] # Free /\ call'[c] = Free
                /\ \/ call[c].kind = "deletion" /\ call[c].result = "ok"
                   \/ /\ call[c].kind # "signin"
                      /\ call[c].token # stored \/ stored \in again]_webVars
  <2> SUFFICES ASSUME WebIInv, WebNext, stored # NoToken,
                      stored \in accepted', stored' = NoToken
               PROVE  \/ \E p \in Tab :
                           /\ tab[p].signedIn /\ ~tab'[p].signedIn
                           /\ call' = call
                      \/ \E c \in Call :
                           /\ call[c] # Free /\ call'[c] = Free
                           /\ \/ /\ call[c].kind = "deletion"
                                 /\ call[c].result = "ok"
                              \/ /\ call[c].kind # "signin"
                                 /\ \/ call[c].token # stored
                                    \/ stored \in again
    OBVIOUS
  <2>1. ASSUME NEW p \in Tab, SignOut(p)
        PROVE  tab[p].signedIn /\ ~tab'[p].signedIn /\ call' = call
    <3>1. tab'[p] = Opened(NoToken) /\ tab[p].signedIn /\ call' = call
      BY <2>1, WebFacts DEF SignOut, SignedOut
    <3>2. ~Opened(NoToken).signedIn
      BY DEF Opened
    <3> QED BY <3>1, <3>2
  <2>2. ASSUME NEW p \in Tab, NEW c \in Call, Receive(p, c)
        PROVE  /\ call[c] # Free /\ call'[c] = Free
               /\ \/ call[c].kind = "deletion" /\ call[c].result = "ok"
                  \/ /\ call[c].kind # "signin"
                     /\ call[c].token # stored \/ stored \in again
    <3>1. call[c] # Free /\ call'[c] = Free /\ call[c].at = "answered"
      BY <2>2, WebFacts, ReceiveFacts DEF Free
    <3>2. accepted' = accepted /\ NoToken \notin DOMAIN issued
      BY <2>2, WebFacts, ReceiveFacts DEF NoToken
    <3>3. CASE EndsSession(c)
      <4>1. call[c].kind # "signin" /\ call[c].token \notin Lasting
        BY <3>1, <3>3 DEF EndsSession, WebIInv, Kept
      <4> QED BY <3>1, <3>2, <4>1 DEF Lasting
    <3>4. CASE ~EndsSession(c)
      <4>1. call[c].kind = "deletion" /\ call[c].result = "ok"
        BY <2>2, <3>2, <3>4, ReceiveFacts
      <4> QED BY <3>1, <4>1
    <3> QED BY <3>3, <3>4
  <2>3. stored' = stored \/ \E p \in Tab : \/ SignOut(p)
                                           \/ \E c \in Call : Receive(p, c)
    BY DEF WebNext, Reload, Send, LoadUser, Submit, SignIn, Fails, Refused,
           SignInServed, Served, TokenEnds,
           ChangedElsewhere
  <2> QED BY <2>1, <2>2, <2>3
<1> QED BY <1>1, WebInductive, PTL DEF WebSpec, AcceptedSessionKept

-----------------------------------------------------------------------------
(* The modules side by side, as they are checked.                          *)

LEMMA SideBySide ==
  MCSpec => Spec /\ WebSpec /\ PageSpec /\ SuggestionSpec
<1>1. MCInit => Init /\ WebInit /\ PageInit /\ SuggestionInit
  BY DEF MCInit
<1>2. [MCNext]_mcVars => /\ [Next]_vars /\ [WebNext]_webVars
                         /\ [PageNext]_pageVars
                         /\ [SuggestionNext]_suggestionVars
  BY DEF MCNext, mcVars
<1> QED
  BY <1>1, <1>2, PTL DEF MCSpec, Spec, WebSpec, PageSpec, SuggestionSpec

(* The web client's tabs and its list are right at any time                *)
(* (MatchesView.vue, stores/session.ts).                                   *)
THEOREM ClientCorrect == MCSpec => []ClientInv
<1>1. WebTypeOK /\ ListInv => ClientInv
  BY DEF ClientInv
<1> QED BY <1>1, SideBySide, WebTypeCorrect, ListCorrect, PTL
=============================================================================
