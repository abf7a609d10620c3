--------------------------- MODULE Letters_proofs ----------------------------
(***************************************************************************)
(* Theorems about Accounts, the limiter and the letters, for any requests, *)
(* users, addresses, phone numbers, limit and window: the accounts' types, *)
(* that everybody can sign in, that a locked row stays as it is, that an   *)
(* address is shared only after a race, also while letters are written;    *)
(* that the limiter keeps its limit and its word; that a letter names only *)
(* its user's contact details; and that what is kept of an LLM's answer    *)
(* explains its score.                                                     *)
(***************************************************************************)
EXTENDS Letters, FiniteSetTheorems, SequenceTheorems, WellFoundedInduction,
  TLAPS

-----------------------------------------------------------------------------
(* What a request holds, by where it is.                                   *)

(* An update that has looked for its email.                                *)
Checked == {"phone", "write"}

LEMMA Stages ==
  /\ Updating = {"email"} \cup Checked
  /\ {"idle", "insert"} \cap Updating = {}
  /\ "email" \notin Checked /\ "phone" \in Checked /\ "write" \in Checked
  /\ Idle.at = "idle"
BY DEF Updating, Checked, Idle

LEMMA RequestTypes ==
  /\ Idle \in Requests
  /\ \A e \in Emails, p \in Phones, o \in SUBSET Address :
       [at |-> "insert", email |-> e, phone |-> p, overtaken |-> o]
         \in Requests
  /\ \A at \in Updating, i \in UserID, s \in SUBSET {"email", "phone"},
        e \in Emails, p \in Phones, o \in SUBSET Address :
       [at |-> at, id |-> i, asks |-> s, email |-> e, phone |-> p,
        overtaken |-> o] \in Requests
BY DEF Requests

LEMMA RequestKinds ==
  ASSUME NEW r \in Requests
  PROVE  /\ r.at \in {"idle", "insert"} \cup Updating
         /\ r.at = "idle" <=> r = Idle
         /\ r.at # "idle" =>
              /\ r.email \in Emails /\ r.phone \in Phones
              /\ r.overtaken \subseteq Address
         /\ r.at \in Updating =>
              r.id \in UserID /\ r.asks \in SUBSET {"email", "phone"}
         /\ r.at = "insert" =>
              r = [at |-> "insert", email |-> r.email, phone |-> r.phone,
                   overtaken |-> r.overtaken]
         /\ r.at \in Updating =>
              r = [at |-> r.at, id |-> r.id, asks |-> r.asks,
                   email |-> r.email, phone |-> r.phone,
                   overtaken |-> r.overtaken]
BY DEF Requests, Idle, Updating

(* A request whose check is overtaken is the same but for that.            *)
Overtaken(r, a) == [r EXCEPT !.overtaken = @ \cup {a}]

LEMMA OvertakenType ==
  ASSUME NEW r \in Requests, r # Idle, NEW a \in Address
  PROVE  /\ Overtaken(r, a) \in Requests /\ Overtaken(r, a) # Idle
         /\ Overtaken(r, a).at = r.at
         /\ Overtaken(r, a).email = r.email
         /\ Overtaken(r, a).overtaken = r.overtaken \cup {a}
         /\ r.at \in Updating =>
              Overtaken(r, a).id = r.id /\ Overtaken(r, a).asks = r.asks
<1> DEFINE s == Overtaken(r, a)
<1>1. CASE r.at = "insert"
  <2>1. s = [at |-> "insert", email |-> r.email, phone |-> r.phone,
             overtaken |-> r.overtaken \cup {a}]
    BY <1>1, RequestKinds DEF Overtaken
  <2>2. r.email \in Emails /\ r.phone \in Phones
        /\ r.overtaken \cup {a} \in SUBSET Address
    BY <1>1, RequestKinds
  <2> HIDE DEF s
  <2>3. s \in Requests
    BY <2>1, <2>2, RequestTypes
  <2>4. QED
    BY <1>1, <2>1, <2>3, RequestKinds DEF s
<1>2. CASE r.at \in Updating
  <2>0. r = [at |-> r.at, id |-> r.id, asks |-> r.asks,
             email |-> r.email, phone |-> r.phone,
             overtaken |-> r.overtaken]
    BY <1>2, RequestKinds
  <2>1. s = [at |-> r.at, id |-> r.id, asks |-> r.asks, email |-> r.email,
             phone |-> r.phone, overtaken |-> r.overtaken \cup {a}]
    BY <2>0 DEF Overtaken
  <2>2. r.email \in Emails /\ r.phone \in Phones /\ r.id \in UserID
        /\ r.asks \in SUBSET {"email", "phone"}
        /\ r.overtaken \cup {a} \in SUBSET Address
    BY <1>2, RequestKinds, Stages
  <2> HIDE DEF s
  <2>3. s \in Requests
    BY <1>2, <2>1, <2>2, RequestTypes
  <2>4. QED
    BY <1>2, <2>1, <2>3, RequestKinds, Stages DEF s
<1>3. QED
  BY <1>1, <1>2, RequestKinds

LEMMA NormalisedType ==
  ASSUME NEW e \in Emails
  PROVE  /\ Normalised(e) \in Emails
         /\ Normalised(e).written = "canonical"
         /\ Normalised(e).address = e.address
BY DEF Normalised, Emails

(* Two canonical emails are the same when their addresses are.             *)
LEMMA SameEmail ==
  ASSUME NEW e \in Emails, NEW f \in Emails,
         e.written = f.written, e.address = f.address
  PROVE  e = f
BY DEF Emails

LEMMA UpdatedType ==
  ASSUME NEW row \in Rows, NEW r \in Requests, r.at \in Updating
  PROVE  /\ Updated(row, r) \in Rows
         /\ Updated(row, r).id = row.id
         /\ Updated(row, r).email =
              IF "email" \in r.asks THEN r.email ELSE row.email
<1>1. r.email \in Emails /\ r.phone \in Phones
  BY RequestKinds, Stages
<1>2. QED
  BY <1>1 DEF Updated, Rows

-----------------------------------------------------------------------------
(* The inductive invariant.                                                *)

(* An update has locked its row, which is there.                           *)
LockedInv ==
  \A q \in Request :
    request[q].at \in Updating =>
      /\ rowLock[request[q].id] = q
      /\ \E u \in users : u.id = request[q].id

(* Rows and requests hold canonical emails, and an email that is going to  *)
(* be written is not blank.                                                *)
CanonicalInv ==
  /\ SignInFindsEverybody
  /\ \A q \in Request :
       LET r == request[q]
       IN /\ r # Idle => r.email.written = "canonical"
          /\ r.at = "insert" \/ (r.at \in Updating /\ "email" \in r.asks) =>
               r.email.address \in Address

(* What a request found of its address still holds: nobody else has it     *)
(* unless the check was overtaken, or the user has it as it is.            *)
CheckedInv ==
  \A q \in Request :
    LET r == request[q]
        a == r.email.address
    IN /\ r.at = "insert" /\ a \notin r.overtaken =>
            \A u \in users : u.email.address # a
       /\ r.at \in Checked /\ "email" \in r.asks /\ a \notin r.overtaken =>
            \/ \E u \in users : u.id = r.id /\ u.email = r.email
            \/ \A u \in users : u.id # r.id => u.email.address # a

AccountsInv ==
  /\ TypeOK
  /\ LockedInv
  /\ CanonicalInv
  /\ SharedOnlyByRace
  /\ CheckedInv

LEMMA UserFacts ==
  ASSUME TypeOK, NEW u \in users
  PROVE  /\ u \in Rows
         /\ u.id \in UserID /\ u.email \in Emails /\ u.phone \in Phones
         /\ u.email.address \in Address \cup {Blank}
BY DEF TypeOK, Rows, Emails

(* What a request that ends by writing an address does to the others.      *)
LEMMA OvertakesFacts ==
  ASSUME TypeOK, NEW q \in Request, NEW a \in Address, Overtakes(q, a)
  PROVE  /\ request' \in [Request -> Requests]
         /\ request'[q] = Idle
         /\ \A p \in Request : p # q =>
              /\ request[p] = Idle => request'[p] = Idle
              /\ request[p] # Idle => request'[p] = Overtaken(request[p], a)
         /\ raced' \subseteq Address /\ raced \subseteq raced'
         /\ a \in request[q].overtaken => a \in raced'
<1>1. \A p \in Request : request'[p] =
        IF p = q THEN Idle
        ELSE IF request[p] = Idle THEN Idle ELSE Overtaken(request[p], a)
  BY DEF Overtakes, Overtaken
<1>2. \A p \in Request : request'[p] \in Requests
  BY <1>1, OvertakenType, RequestTypes DEF TypeOK
<1>3. request' \in [Request -> Requests]
  <2>1. request' = [p \in Request |-> request'[p]]
    BY DEF Overtakes
  <2>2. QED
    BY <1>2, <2>1
<1>4. QED
  BY <1>1, <1>3 DEF Overtakes, TypeOK

-----------------------------------------------------------------------------
(* One lemma per action that changes something.                            *)

LEMMA SignupStep ==
  ASSUME AccountsInv, NEW q \in Request, NEW e \in Emails, NEW p \in Phones,
         Signup(q, e, p)
  PROVE  AccountsInv'
<1> DEFINE r == [at |-> "insert", email |-> Normalised(e), phone |-> p,
                 overtaken |-> {}]
<1>0. TypeOK /\ request \in [Request -> Requests]
  BY DEF AccountsInv, TypeOK
<1>1. /\ Normalised(e) \in Emails /\ Normalised(e).written = "canonical"
      /\ Normalised(e).address \in Address
  BY NormalisedType DEF Signup, ValidEmail, Emails
<1>2. r \in Requests
  BY <1>1, RequestTypes
<1>3. /\ request' = [request EXCEPT ![q] = r]
      /\ users' = users /\ rowLock' = rowLock /\ raced' = raced
  BY DEF Signup
<1>4. /\ r.at = "insert" /\ r.email = Normalised(e) /\ r.at # "idle"
      /\ r.at \notin Updating /\ r.at \notin Checked
  BY Stages
<1>5. request'[q] = r /\ \A o \in Request : o # q => request'[o] = request[o]
  BY <1>0, <1>3
<1>6. \A u \in users : u.email.address # Normalised(e).address
  <2> SUFFICES ASSUME NEW u \in users,
                      u.email.address = Normalised(e).address
               PROVE  FALSE
    OBVIOUS
  <2>1. u.email = Normalised(e)
    BY <1>0, <1>1, UserFacts, SameEmail
    DEF AccountsInv, CanonicalInv, SignInFindsEverybody
  <2>2. u \in Matching(Normalised(e), p)
    BY <2>1 DEF Matching
  <2>3. QED
    BY <2>2 DEF Signup
<1> HIDE DEF r
<1>7. TypeOK'
  BY <1>0, <1>2, <1>3 DEF TypeOK
<1>8. LockedInv'
  BY <1>3, <1>4, <1>5 DEF AccountsInv, LockedInv
<1>9. CanonicalInv'
  BY <1>1, <1>3, <1>4, <1>5 DEF AccountsInv, CanonicalInv, SignInFindsEverybody
<1>10. SharedOnlyByRace'
  BY <1>3 DEF AccountsInv, SharedOnlyByRace
<1>11. CheckedInv'
  BY <1>3, <1>4, <1>5, <1>6 DEF AccountsInv, CheckedInv
<1>12. QED
  BY <1>7, <1>8, <1>9, <1>10, <1>11 DEF AccountsInv

LEMMA UpdateStep ==
  ASSUME AccountsInv, NEW q \in Request, NEW row \in users,
         NEW asks \in SUBSET {"email", "phone"},
         NEW e \in Emails, NEW p \in Phones,
         UpdateProfile(q, row, asks, e, p)
  PROVE  AccountsInv'
<1> DEFINE r == [at |-> "email", id |-> row.id, asks |-> asks,
                 email |-> Normalised(e), phone |-> p, overtaken |-> {}]
<1>0. TypeOK /\ request \in [Request -> Requests]
      /\ rowLock \in [UserID -> Request \cup {NULL}]
  BY DEF AccountsInv, TypeOK
<1>1. /\ Normalised(e) \in Emails /\ Normalised(e).written = "canonical"
      /\ "email" \in asks => Normalised(e).address \in Address
      /\ row.id \in UserID
  BY <1>0, UserFacts, NormalisedType DEF UpdateProfile, ValidEmail, Emails
<1>2. r \in Requests /\ r.at \in Updating
  BY <1>1, RequestTypes, Stages
<1>3. /\ request' = [request EXCEPT ![q] = r]
      /\ rowLock' = [rowLock EXCEPT ![row.id] = q]
      /\ rowLock[row.id] = NULL
      /\ users' = users /\ raced' = raced
  BY DEF UpdateProfile, LockRow
<1>4. /\ r.email = Normalised(e) /\ r.id = row.id /\ r.asks = asks
      /\ r.at # "insert" /\ r.at \notin Checked /\ r.at # "idle"
  BY Stages
<1>5. request'[q] = r /\ \A o \in Request : o # q => request'[o] = request[o]
  BY <1>0, <1>3
<1> HIDE DEF r
<1>7. TypeOK'
  BY <1>0, <1>1, <1>2, <1>3 DEF TypeOK
<1>8. LockedInv'
  <2> SUFFICES ASSUME NEW o \in Request, request'[o].at \in Updating
               PROVE  /\ rowLock'[request'[o].id] = o
                      /\ \E u \in users' : u.id = request'[o].id
    BY DEF LockedInv
  <2>1. CASE o = q
    BY <1>0, <1>1, <1>2, <1>3, <1>4, <1>5, <2>1
  <2>2. CASE o # q
    <3>1. /\ request'[o] = request[o] /\ rowLock[request[o].id] = o
          /\ request[o].id \in UserID
          /\ \E u \in users : u.id = request[o].id
      BY <1>0, <1>5, <2>2, RequestKinds DEF AccountsInv, LockedInv
    <3>2. request[o].id # row.id
      BY <1>3, <3>1, NullAssumption
    <3>3. QED
      BY <1>0, <1>3, <3>1, <3>2
  <2>3. QED
    BY <2>1, <2>2
<1>9. CanonicalInv'
  BY <1>1, <1>3, <1>4, <1>5 DEF AccountsInv, CanonicalInv, SignInFindsEverybody
<1>10. SharedOnlyByRace'
  BY <1>3 DEF AccountsInv, SharedOnlyByRace
<1>11. CheckedInv'
  BY <1>3, <1>4, <1>5 DEF AccountsInv, CheckedInv
<1>12. QED
  BY <1>7, <1>8, <1>9, <1>10, <1>11 DEF AccountsInv

(* An update goes on to another statement, which has seen of the email     *)
(* what it should.                                                         *)
LEMMA StageStep ==
  ASSUME AccountsInv, NEW q \in Request, NEW v \in Requests,
         request[q].at \in Updating, v.at \in Updating,
         v.id = request[q].id, v.asks = request[q].asks,
         v.email = request[q].email,
         request' = [request EXCEPT ![q] = v],
         users' = users, rowLock' = rowLock, raced' = raced,
         v.at \in Checked /\ "email" \in v.asks
           /\ v.email.address \notin v.overtaken =>
             \/ \E u \in users : u.id = v.id /\ u.email = v.email
             \/ \A u \in users :
                  u.id # v.id => u.email.address # v.email.address
  PROVE  AccountsInv'
<1>0. TypeOK /\ request \in [Request -> Requests]
  BY DEF AccountsInv, TypeOK
<1>1. request'[q] = v /\ \A o \in Request : o # q => request'[o] = request[o]
  BY <1>0
<1>2. v.at # "insert" /\ v # Idle /\ request[q] # Idle
  BY Stages
<1>3. TypeOK'
  BY <1>0 DEF TypeOK
<1>4. LockedInv'
  BY <1>1 DEF AccountsInv, LockedInv
<1>5. CanonicalInv'
  BY <1>1, <1>2 DEF AccountsInv, CanonicalInv, SignInFindsEverybody
<1>6. SharedOnlyByRace'
  BY DEF AccountsInv, SharedOnlyByRace
<1>7. CheckedInv'
  <2>1. CheckedInv
    BY DEF AccountsInv
  <2>2. QED
    BY <1>1, <1>2, <2>1 DEF CheckedInv
<1>8. QED
  BY <1>3, <1>4, <1>5, <1>6, <1>7 DEF AccountsInv

(* The row an update has locked.                                           *)
LEMMA LockedRow ==
  ASSUME AccountsInv, NEW q \in Request, request[q].at \in Updating
  PROVE  /\ Row(request[q]) \in users
         /\ Row(request[q]).id = request[q].id
BY DEF AccountsInv, LockedInv, Row

LEMMA CheckEmailStep ==
  ASSUME AccountsInv, NEW q \in Request, CheckEmail(q)
  PROVE  AccountsInv'
<1> DEFINE r == request[q]
           v == [r EXCEPT !.at = "phone", !.overtaken = {}]
<1>0. TypeOK
  BY DEF AccountsInv
<1>1. r \in Requests /\ r.at = "email" /\ r.at \in Updating
  BY Stages DEF CheckEmail, AccountsInv, TypeOK
<1>2. r = [at |-> r.at, id |-> r.id, asks |-> r.asks, email |-> r.email,
           phone |-> r.phone, overtaken |-> r.overtaken]
      /\ r.id \in UserID /\ r.asks \in SUBSET {"email", "phone"}
      /\ r.email \in Emails /\ r.phone \in Phones
  BY <1>1, RequestKinds, Stages
<1>3. r \in [at : Updating, id : UserID, asks : SUBSET {"email", "phone"},
             email : Emails, phone : Phones, overtaken : SUBSET Address]
  <2>1. r.overtaken \in SUBSET Address
    BY <1>1, RequestKinds, Stages
  <2>2. QED
    BY <1>1, <1>2, <2>1
<1>4. v \in Requests /\ v.at \in Updating
  BY <1>3, Stages DEF Requests
<1>5. /\ request' = [request EXCEPT ![q] = v]
      /\ users' = users /\ rowLock' = rowLock /\ raced' = raced
      /\ "email" \in r.asks => ~EmailTaken(Row(r), r.email)
  BY DEF CheckEmail
<1>6. v.id = r.id /\ v.asks = r.asks /\ v.email = r.email
  BY <1>3
<1>7. Row(r) \in users /\ Row(r).id = r.id
  BY <1>1, LockedRow
<1> HIDE DEF v
<1>8. ASSUME "email" \in r.asks, Row(r).email # r.email,
             NEW u \in users, u.id # r.id
      PROVE  u.email.address # r.email.address
  <2>1. r.email.written = "canonical" /\ u.email.written = "canonical"
    BY <1>1, Stages DEF AccountsInv, CanonicalInv, SignInFindsEverybody
  <2>2. u.email # r.email
    BY <1>5, <1>7, <1>8 DEF EmailTaken, Others
  <2>3. QED
    BY <1>0, <1>2, <2>1, <2>2, UserFacts, SameEmail
<1>9. QED
  BY <1>1, <1>4, <1>5, <1>6, <1>7, <1>8, StageStep

LEMMA CheckPhoneStep ==
  ASSUME AccountsInv, NEW q \in Request, CheckPhone(q)
  PROVE  AccountsInv'
<1> DEFINE r == request[q]
           v == [r EXCEPT !.at = "write"]
<1>1. r \in Requests /\ r.at = "phone" /\ r.at \in Updating
      /\ r.at \in Checked
  BY Stages DEF CheckPhone, AccountsInv, TypeOK, Checked
<1>2. r = [at |-> r.at, id |-> r.id, asks |-> r.asks, email |-> r.email,
           phone |-> r.phone, overtaken |-> r.overtaken]
      /\ r.id \in UserID /\ r.asks \in SUBSET {"email", "phone"}
      /\ r.email \in Emails /\ r.phone \in Phones
      /\ r.overtaken \in SUBSET Address
  BY <1>1, RequestKinds, Stages
<1>3. v = [at |-> "write", id |-> r.id, asks |-> r.asks, email |-> r.email,
           phone |-> r.phone, overtaken |-> r.overtaken]
  BY <1>2
<1>4. v \in Requests /\ v.at \in Updating
  BY <1>2, <1>3, RequestTypes DEF Updating
<1>5. /\ request' = [request EXCEPT ![q] = v]
      /\ users' = users /\ rowLock' = rowLock /\ raced' = raced
  BY DEF CheckPhone
<1>6. /\ v.id = r.id /\ v.asks = r.asks /\ v.email = r.email
      /\ v.overtaken = r.overtaken
  BY <1>3
<1> HIDE DEF v
<1>7. "email" \in r.asks /\ r.email.address \notin r.overtaken =>
        \/ \E u \in users : u.id = r.id /\ u.email = r.email
        \/ \A u \in users : u.id # r.id => u.email.address # r.email.address
  BY <1>1 DEF AccountsInv, CheckedInv
<1>8. QED
  BY <1>1, <1>4, <1>5, <1>6, <1>7, StageStep

LEMMA InsertStep ==
  ASSUME AccountsInv, NEW q \in Request, NEW i \in UserID, InsertUser(q, i)
  PROVE  AccountsInv'
<1> DEFINE r == request[q]
           a == r.email.address
           new == [id |-> i, email |-> r.email, phone |-> r.phone]
<1>0. TypeOK
  BY DEF AccountsInv
<1>1. /\ r \in Requests /\ r.at = "insert" /\ r.email \in Emails
      /\ r.phone \in Phones /\ r.email.written = "canonical" /\ a \in Address
      /\ r # Idle
  BY RequestKinds DEF AccountsInv, TypeOK, CanonicalInv, InsertUser
<1>2. /\ users' = users \cup {new} /\ rowLock' = rowLock
      /\ \A u \in users : u.id # i
      /\ Overtakes(q, a)
  BY DEF InsertUser
<1>3. new \in Rows /\ new.id = i /\ new.email = r.email
  BY <1>1 DEF Rows
<1>4. /\ request' \in [Request -> Requests]
      /\ request'[q] = Idle
      /\ \A o \in Request : o # q =>
           /\ request[o] = Idle => request'[o] = Idle
           /\ request[o] # Idle => request'[o] = Overtaken(request[o], a)
      /\ raced' \subseteq Address /\ raced \subseteq raced'
      /\ a \in r.overtaken => a \in raced'
  BY <1>0, <1>1, <1>2, OvertakesFacts
<1>5. ASSUME NEW o \in Request, request'[o] # Idle
      PROVE  /\ o # q /\ request[o] \in Requests /\ request[o] # Idle
             /\ request'[o].at = request[o].at
             /\ request'[o].email = request[o].email
             /\ request'[o].overtaken = request[o].overtaken \cup {a}
             /\ request[o].at \in Updating =>
                  /\ request'[o].id = request[o].id
                  /\ request'[o].asks = request[o].asks
  BY <1>0, <1>1, <1>4, <1>5, OvertakenType DEF TypeOK
<1>6. Idle.at = "idle" /\ "idle" \notin Updating /\ "idle" \notin Checked
  BY Stages
<1> HIDE DEF r, new
<1>7. TypeOK'
  <2>1. users' \subseteq Rows
    BY <1>0, <1>2, <1>3 DEF TypeOK
  <2>2. \A u, v \in users' : u.id = v.id => u = v
    BY <1>0, <1>2, <1>3 DEF TypeOK
  <2>3. QED
    BY <1>0, <1>2, <1>4, <2>1, <2>2 DEF TypeOK
<1>8. LockedInv'
  <2> SUFFICES ASSUME NEW o \in Request, request'[o].at \in Updating
               PROVE  /\ rowLock'[request'[o].id] = o
                      /\ \E u \in users' : u.id = request'[o].id
    BY DEF LockedInv
  <2>1. request'[o] # Idle
    BY <1>6
  <2>2. request[o].at \in Updating /\ request'[o].id = request[o].id
    BY <1>5, <2>1
  <2>3. QED
    BY <1>2, <2>2 DEF AccountsInv, LockedInv
<1>9. CanonicalInv'
  <2>1. SignInFindsEverybody'
    BY <1>1, <1>2, <1>3 DEF AccountsInv, CanonicalInv, SignInFindsEverybody
  <2>2. ASSUME NEW o \in Request, request'[o] # Idle
        PROVE  /\ request'[o].email.written = "canonical"
               /\ \/ request'[o].at = "insert"
                  \/ request'[o].at \in Updating /\ "email" \in request'[o].asks
                  => request'[o].email.address \in Address
    BY <1>5, <2>2 DEF AccountsInv, CanonicalInv
  <2>3. QED
    BY <1>6, <2>1, <2>2 DEF CanonicalInv
<1>10. SharedOnlyByRace'
  <2> SUFFICES ASSUME NEW u \in users', NEW v \in users',
                      u.email.address = v.email.address, u.id # v.id
               PROVE  u.email.address \in raced'
    BY DEF SharedOnlyByRace
  <2>1. CASE u \in users /\ v \in users
    BY <1>4, <2>1 DEF AccountsInv, SharedOnlyByRace
  <2>2. CASE u \notin users \/ v \notin users
    <3>1. /\ u.email.address = a
          /\ \E w \in users : w.email.address = a
      BY <1>2, <1>3, <2>2
    <3>2. a \in r.overtaken
      BY <1>1, <3>1 DEF AccountsInv, CheckedInv, r
    <3>3. QED
      BY <1>4, <3>1, <3>2
  <2>3. QED
    BY <2>1, <2>2
<1>11. CheckedInv'
  <2> SUFFICES ASSUME NEW o \in Request,
                      request'[o].email.address \notin request'[o].overtaken,
                      \/ request'[o].at = "insert"
                      \/ /\ request'[o].at \in Checked
                         /\ "email" \in request'[o].asks
               PROVE
        /\ request'[o].at = "insert" =>
             \A u \in users' : u.email.address # request'[o].email.address
        /\ request'[o].at \in Checked =>
             \/ \E u \in users' : u.id = request'[o].id
                                  /\ u.email = request'[o].email
             \/ \A u \in users' : u.id # request'[o].id =>
                  u.email.address # request'[o].email.address
    BY DEF CheckedInv
  <2>1. request'[o] # Idle
    BY <1>6
  <2>2. /\ request[o].at = request'[o].at
        /\ request[o].email = request'[o].email
        /\ request[o].email.address # a
        /\ request[o].email.address \notin request[o].overtaken
    BY <1>5, <2>1
  <2>3. CASE request[o].at = "insert"
    BY <1>2, <1>3, <2>2, <2>3 DEF AccountsInv, CheckedInv
  <2>4. CASE request[o].at \in Checked
    <3>1. request'[o].id = request[o].id /\ request'[o].asks = request[o].asks
      BY <1>5, <2>1, <2>4, Stages
    <3>2. \/ \E u \in users : u.id = request[o].id
                              /\ u.email = request[o].email
          \/ \A u \in users : u.id # request[o].id =>
               u.email.address # request[o].email.address
      BY <2>2, <2>4, <3>1 DEF AccountsInv, CheckedInv
    <3>3. QED
      BY <1>2, <1>3, <2>2, <2>4, <3>1, <3>2, Stages
  <2>5. QED
    BY <2>2, <2>3, <2>4
<1>12. QED
  BY <1>7, <1>8, <1>9, <1>10, <1>11 DEF AccountsInv

LEMMA FailsStep ==
  ASSUME AccountsInv, NEW q \in Request, Fails(q)
  PROVE  AccountsInv'
<1>0. TypeOK /\ request \in [Request -> Requests]
      /\ rowLock \in [UserID -> Request \cup {NULL}]
  BY DEF AccountsInv, TypeOK
<1>1. /\ request' = [request EXCEPT ![q] = Idle]
      /\ rowLock' =
           [i \in UserID |-> IF rowLock[i] = q THEN NULL ELSE rowLock[i]]
      /\ users' = users /\ raced' = raced
  BY DEF Fails
<1>2. /\ request'[q] = Idle
      /\ \A o \in Request : o # q => request'[o] = request[o]
  BY <1>0, <1>1
<1>3. Idle.at = "idle" /\ "idle" \notin Updating /\ "idle" \notin Checked
  BY Stages
<1>4. TypeOK'
  BY <1>0, <1>1, RequestTypes DEF TypeOK
<1>5. LockedInv'
  <2> SUFFICES ASSUME NEW o \in Request, request'[o].at \in Updating
               PROVE  /\ rowLock'[request'[o].id] = o
                      /\ \E u \in users' : u.id = request'[o].id
    BY DEF LockedInv
  <2>1. o # q /\ request'[o] = request[o]
    BY <1>2, <1>3
  <2>2. rowLock[request[o].id] = o /\ request[o].id \in UserID
    BY <1>0, <2>1, RequestKinds DEF AccountsInv, LockedInv
  <2>3. QED
    BY <1>1, <2>1, <2>2 DEF AccountsInv, LockedInv
<1>6. CanonicalInv'
  BY <1>1, <1>2, <1>3 DEF AccountsInv, CanonicalInv, SignInFindsEverybody
<1>7. SharedOnlyByRace'
  BY <1>1 DEF AccountsInv, SharedOnlyByRace
<1>8. CheckedInv'
  BY <1>1, <1>2, <1>3 DEF AccountsInv, CheckedInv
<1>9. QED
  BY <1>4, <1>5, <1>6, <1>7, <1>8 DEF AccountsInv

LEMMA DeleteStep ==
  ASSUME AccountsInv, NEW q \in Request, NEW row \in users, DeleteUser(q, row)
  PROVE  AccountsInv'
<1>0. TypeOK
  BY DEF AccountsInv
<1>1. /\ request' = request /\ rowLock' = rowLock /\ raced' = raced
      /\ users' = users \ {row} /\ rowLock[row.id] = NULL
  BY DEF DeleteUser
<1>2. \A o \in Request : request[o].at \in Updating => request[o].id # row.id
  BY <1>1, NullAssumption DEF AccountsInv, LockedInv
<1>3. TypeOK'
  BY <1>0, <1>1 DEF TypeOK
<1>4. LockedInv'
  BY <1>1, <1>2 DEF AccountsInv, LockedInv
<1>5. CanonicalInv'
  BY <1>1 DEF AccountsInv, CanonicalInv, SignInFindsEverybody
<1>6. SharedOnlyByRace'
  BY <1>1 DEF AccountsInv, SharedOnlyByRace
<1>7. CheckedInv'
  BY <1>1, <1>2, Stages DEF AccountsInv, CheckedInv
<1>8. QED
  BY <1>3, <1>4, <1>5, <1>6, <1>7 DEF AccountsInv

(* The row a request writes to is the one it has locked.                   *)
LEMMA WrittenRow ==
  ASSUME AccountsInv, NEW q \in Request, WriteProfile(q)
  PROVE  \E row \in users :
           LET r == request[q]
               new == Updated(row, r)
           IN /\ r \in Requests /\ r.at \in Updating /\ r.id = row.id
              /\ new \in Rows /\ new.id = row.id
              /\ new.email = IF "email" \in r.asks THEN r.email ELSE row.email
              /\ users' = {u \in users : u.id # row.id} \cup {new}
              /\ rowLock' = [rowLock EXCEPT ![row.id] = NULL]
<1>1. request[q] \in Requests /\ request[q].at \in Updating
  BY DEF AccountsInv, TypeOK, WriteProfile, Updating
<1> DEFINE row == Row(request[q])
<1>2. row \in users /\ row.id = request[q].id
  BY <1>1, LockedRow
<1>3. row \in Rows
  BY <1>2 DEF AccountsInv, TypeOK
<1>4. /\ users' = Others(request[q].id) \cup {Updated(row, request[q])}
      /\ rowLock' = [rowLock EXCEPT ![request[q].id] = NULL]
  BY DEF WriteProfile
<1> HIDE DEF row
<1>5. /\ Updated(row, request[q]) \in Rows
      /\ Updated(row, request[q]).id = row.id
      /\ Updated(row, request[q]).email =
           IF "email" \in request[q].asks THEN request[q].email ELSE row.email
  BY <1>1, <1>2, <1>3, UpdatedType
<1>6. /\ users' = {u \in users : u.id # row.id} \cup {Updated(row, request[q])}
      /\ rowLock' = [rowLock EXCEPT ![row.id] = NULL]
  BY <1>2, <1>4 DEF Others
<1> USE <1>2
<1>7. WITNESS row \in users
<1>8. QED
  BY <1>1, <1>5, <1>6

LEMMA WriteStep ==
  ASSUME AccountsInv, NEW q \in Request, WriteProfile(q)
  PROVE  AccountsInv'
<1>0. TypeOK
  BY DEF AccountsInv
<1> DEFINE r == request[q]
           a == r.email.address
<1>1. PICK row \in users :
        LET new == Updated(row, r)
        IN /\ r \in Requests /\ r.at \in Updating /\ r.id = row.id
           /\ new \in Rows /\ new.id = row.id
           /\ new.email = IF "email" \in r.asks THEN r.email ELSE row.email
           /\ users' = {u \in users : u.id # row.id} \cup {new}
           /\ rowLock' = [rowLock EXCEPT ![row.id] = NULL]
  BY WrittenRow
<1> DEFINE new == Updated(row, r)
<1>2. /\ r \in Requests /\ r.at \in Updating /\ r.id = row.id /\ r # Idle
      /\ r.email \in Emails /\ r.email.written = "canonical"
      /\ "email" \in r.asks => a \in Address
      /\ r.overtaken \subseteq Address
  BY <1>1, RequestKinds, Stages DEF AccountsInv, CanonicalInv
<1>3. /\ new \in Rows /\ new.id = row.id
      /\ "email" \in r.asks => new.email = r.email
      /\ "email" \notin r.asks => new.email = row.email
      /\ users' = {u \in users : u.id # row.id} \cup {new}
      /\ rowLock' = [rowLock EXCEPT ![row.id] = NULL]
      /\ row.id \in UserID
      /\ \A u \in users : u.id = row.id => u = row
  BY <1>0, <1>1, UserFacts DEF TypeOK
<1>4. /\ request' \in [Request -> Requests]
      /\ request'[q] = Idle
      /\ raced' \subseteq Address /\ raced \subseteq raced'
      /\ "email" \in r.asks /\ a \in r.overtaken => a \in raced'
  <2>1. CASE "email" \in r.asks
    <3>1. Overtakes(q, a)
      BY <2>1 DEF WriteProfile
    <3>2. QED
      BY <1>0, <1>2, <2>1, <3>1, OvertakesFacts
  <2>2. CASE "email" \notin r.asks
    <3>1. request' = [request EXCEPT ![q] = Idle] /\ raced' = raced
      BY <2>2 DEF WriteProfile
    <3>2. QED
      BY <1>0, <2>2, <3>1, RequestTypes DEF TypeOK
  <2>3. QED
    BY <2>1, <2>2
<1>5. ASSUME NEW o \in Request, request'[o] # Idle
      PROVE  /\ o # q /\ request[o] \in Requests /\ request[o] # Idle
             /\ request'[o].at = request[o].at
             /\ request'[o].email = request[o].email
             /\ request[o].overtaken \subseteq request'[o].overtaken
             /\ "email" \in r.asks => a \in request'[o].overtaken
             /\ request[o].at \in Updating =>
                  /\ request'[o].id = request[o].id
                  /\ request'[o].asks = request[o].asks
                  /\ request[o].id # row.id
  <2>0. o # q /\ request[o] \in Requests
    BY <1>0, <1>4, <1>5 DEF TypeOK
  <2>1. request[o].at \in Updating => request[o].id # row.id
    BY <1>2, <2>0 DEF AccountsInv, LockedInv
  <2>2. CASE "email" \in r.asks
    <3>1. Overtakes(q, a)
      BY <2>2 DEF WriteProfile
    <3>2. request[o] # Idle /\ request'[o] = Overtaken(request[o], a)
      BY <1>0, <1>2, <1>5, <2>0, <2>2, <3>1, OvertakesFacts
    <3>3. QED
      BY <1>2, <2>0, <2>1, <2>2, <3>2, OvertakenType
  <2>3. CASE "email" \notin r.asks
    <3>1. request' = [request EXCEPT ![q] = Idle]
      BY <2>3 DEF WriteProfile
    <3>2. request'[o] = request[o]
      BY <1>0, <2>0, <3>1 DEF TypeOK
    <3>3. QED
      BY <1>5, <2>0, <2>1, <2>3, <3>2
  <2>4. QED
    BY <2>2, <2>3
<1>6. Idle.at = "idle" /\ "idle" \notin Updating /\ "idle" \notin Checked
  BY Stages
<1> HIDE DEF new, r
<1>7. TypeOK'
  <2>1. users' \subseteq Rows
    BY <1>0, <1>3 DEF TypeOK
  <2>2. \A u, v \in users' : u.id = v.id => u = v
    BY <1>0, <1>3 DEF TypeOK
  <2>3. rowLock' \in [UserID -> Request \cup {NULL}]
    BY <1>0, <1>3 DEF TypeOK
  <2>4. QED
    BY <1>4, <2>1, <2>2, <2>3 DEF TypeOK
<1>8. LockedInv'
  <2> SUFFICES ASSUME NEW o \in Request, request'[o].at \in Updating
               PROVE  /\ rowLock'[request'[o].id] = o
                      /\ \E u \in users' : u.id = request'[o].id
    BY DEF LockedInv
  <2>1. request'[o] # Idle
    BY <1>6
  <2>2. /\ request[o].at \in Updating /\ request'[o].id = request[o].id
        /\ request[o].id # row.id /\ request[o].id \in UserID
    BY <1>5, <2>1, RequestKinds
  <2>3. rowLock[request[o].id] = o /\ \E u \in users : u.id = request[o].id
    BY <2>2 DEF AccountsInv, LockedInv
  <2>4. rowLock'[request[o].id] = o
    BY <1>0, <1>3, <2>2, <2>3 DEF TypeOK
  <2>5. QED
    BY <1>3, <2>2, <2>3, <2>4
<1>9. CanonicalInv'
  <2>1. SignInFindsEverybody'
    BY <1>2, <1>3 DEF AccountsInv, CanonicalInv, SignInFindsEverybody
  <2>2. ASSUME NEW o \in Request, request'[o] # Idle
        PROVE  /\ request'[o].email.written = "canonical"
               /\ \/ request'[o].at = "insert"
                  \/ request'[o].at \in Updating /\ "email" \in request'[o].asks
                  => request'[o].email.address \in Address
    BY <1>5, <2>2 DEF AccountsInv, CanonicalInv
  <2>3. QED
    BY <1>6, <2>1, <2>2 DEF CanonicalInv
<1>10. \A u \in users' :
         \/ u \in users /\ u.id # row.id
         \/ u = new
  BY <1>3
<1>11. ASSUME NEW v \in users, v.id # row.id,
              v.email.address = new.email.address
       PROVE  v.email.address \in raced'
  <2>1. CASE new.email = row.email
    <3>1. v.email.address \in raced
      BY <1>11, <2>1 DEF AccountsInv, SharedOnlyByRace
    <3>2. QED
      BY <1>4, <3>1
  <2>2. CASE new.email # row.email
    <3>1. "email" \in r.asks /\ new.email = r.email /\ r.email # row.email
      BY <1>3, <2>2
    <3>2. a \in r.overtaken
      <4>1. SUFFICES ASSUME a \notin r.overtaken
                     PROVE  FALSE
        OBVIOUS
      <4>2. \/ \E u \in users : u.id = r.id /\ u.email = r.email
            \/ \A u \in users : u.id # r.id => u.email.address # a
        BY <1>2, <3>1, <4>1
        DEF AccountsInv, CheckedInv, WriteProfile, Checked, r
      <4>3. QED
        BY <1>2, <1>3, <1>11, <3>1, <4>2
    <3>3. QED
      BY <1>4, <1>11, <3>1, <3>2
  <2>3. QED
    BY <2>1, <2>2
<1>12. SharedOnlyByRace'
  <2> SUFFICES ASSUME NEW u \in users', NEW v \in users',
                      u.email.address = v.email.address, u.id # v.id
               PROVE  u.email.address \in raced'
    BY DEF SharedOnlyByRace
  <2>1. CASE u \in users /\ v \in users /\ u.id # row.id /\ v.id # row.id
    BY <1>4, <2>1 DEF AccountsInv, SharedOnlyByRace
  <2>2. CASE u = new \/ v = new
    BY <1>3, <1>10, <1>11, <2>2
  <2>3. QED
    BY <1>10, <2>1, <2>2
<1>13. CheckedInv'
  <2> SUFFICES ASSUME NEW o \in Request,
                      request'[o].email.address \notin request'[o].overtaken,
                      \/ request'[o].at = "insert"
                      \/ /\ request'[o].at \in Checked
                         /\ "email" \in request'[o].asks
               PROVE
        /\ request'[o].at = "insert" =>
             \A u \in users' : u.email.address # request'[o].email.address
        /\ request'[o].at \in Checked =>
             \/ \E u \in users' : u.id = request'[o].id
                                  /\ u.email = request'[o].email
             \/ \A u \in users' : u.id # request'[o].id =>
                  u.email.address # request'[o].email.address
    BY DEF CheckedInv
  <2>1. request'[o] # Idle
    BY <1>6
  <2>2. /\ request[o].at = request'[o].at
        /\ request[o].email = request'[o].email
        /\ request[o].email.address \notin request[o].overtaken
        /\ "email" \in r.asks => request[o].email.address # a
    BY <1>5, <2>1
  <2>3. new.email.address = request[o].email.address
          => row.email.address = request[o].email.address
    BY <1>3, <2>2 DEF r
  <2>4. CASE request[o].at = "insert"
    <3>1. \A u \in users : u.email.address # request[o].email.address
      BY <2>2, <2>4 DEF AccountsInv, CheckedInv
    <3>2. QED
      BY <1>10, <2>2, <2>3, <2>4, <3>1
  <2>5. CASE request[o].at \in Checked
    <3>1. /\ request'[o].id = request[o].id
          /\ request'[o].asks = request[o].asks
          /\ request[o].id # row.id
      BY <1>5, <2>1, <2>5, Stages
    <3>2. \/ \E u \in users : u.id = request[o].id
                              /\ u.email = request[o].email
          \/ \A u \in users : u.id # request[o].id =>
               u.email.address # request[o].email.address
      BY <2>2, <2>5, <3>1 DEF AccountsInv, CheckedInv
    <3>3. CASE \E u \in users : u.id = request[o].id
                                /\ u.email = request[o].email
      BY <1>3, <2>2, <2>5, <3>1, <3>3, Stages
    <3>4. CASE \A u \in users : u.id # request[o].id =>
                 u.email.address # request[o].email.address
      BY <1>10, <1>3, <2>2, <2>3, <2>5, <3>1, <3>4, Stages
    <3>5. QED
      BY <3>2, <3>3, <3>4
  <2>6. QED
    BY <2>2, <2>4, <2>5
<1>14. QED
  BY <1>7, <1>8, <1>9, <1>12, <1>13 DEF AccountsInv

-----------------------------------------------------------------------------
(* Users with an address each, and no request under way.                   *)
LEMMA AccountsBegin ==
  ASSUME users \subseteq Rows,
         \A u, v \in users : u.id = v.id \/ u.email.address = v.email.address
                               => u = v,
         SignInFindsEverybody,
         rowLock = [i \in UserID |-> NULL],
         request = [q \in Request |-> Idle],
         raced = {}
  PROVE  AccountsInv
<1>1. \A q \in Request : /\ request[q] = Idle /\ Idle.at = "idle"
                         /\ Idle.at \notin Updating
                         /\ Idle.at \notin Checked
  BY Stages
<1>2. TypeOK
  BY RequestTypes DEF TypeOK
<1>3. LockedInv /\ CheckedInv
  BY <1>1 DEF LockedInv, CheckedInv
<1>4. CanonicalInv /\ SharedOnlyByRace
  BY <1>1 DEF CanonicalInv, SharedOnlyByRace
<1>5. QED
  BY <1>2, <1>3, <1>4 DEF AccountsInv

LEMMA AccountsStep == AccountsInv /\ [Next]_vars => AccountsInv'
<1> SUFFICES ASSUME AccountsInv, [Next]_vars
             PROVE  AccountsInv'
  OBVIOUS
<1>1. CASE UNCHANGED vars
  BY <1>1 DEF vars, AccountsInv, TypeOK, LockedInv, CanonicalInv,
    SignInFindsEverybody, SharedOnlyByRace, CheckedInv
<1>2. ASSUME NEW q \in Request, RequestSteps(q)
      PROVE  AccountsInv'
  BY <1>2, SignupStep, UpdateStep, CheckEmailStep, CheckPhoneStep,
    InsertStep, WriteStep, FailsStep, DeleteStep DEF RequestSteps
<1>3. QED
  BY <1>1, <1>2 DEF Next

LEMMA AccountsInductive == Spec => []AccountsInv
<1>1. Init => AccountsInv
  BY AccountsBegin DEF Init, SignInFindsEverybody
<1>2. QED
  BY <1>1, AccountsStep, PTL DEF Spec

(* Every variable stays in its type, and there is one row per id.          *)
THEOREM TypeCorrect == Spec => []TypeOK
<1>1. AccountsInv => TypeOK
  BY DEF AccountsInv
<1>2. QED
  BY <1>1, AccountsInductive, PTL

(* Two accounts share an address only after a race (user.go:302-345,       *)
(* users/account.go:59-72).                                                *)
THEOREM SharedByRace == Spec => []SharedOnlyByRace
<1>1. AccountsInv => SharedOnlyByRace
  BY DEF AccountsInv
<1>2. QED
  BY <1>1, AccountsInductive, PTL

(* Signin, which looks for the canonical spelling, finds every row         *)
(* (user.go:101-110).                                                      *)
THEOREM SignIn == Spec => []SignInFindsEverybody
<1>1. AccountsInv => SignInFindsEverybody
  BY DEF AccountsInv, CanonicalInv
<1>2. QED
  BY <1>1, AccountsInductive, PTL

(* Nobody changes the row a profile update has locked                      *)
(* (users/account.go:43-53).                                               *)
THEOREM LockedStays == Spec => LockedRowStays
<1>1. AccountsInv /\ [Next]_vars =>
        [\A q \in Request :
           request[q].at \in Updating =>
             /\ \E u \in users : u.id = request[q].id
             /\ request'[q] # Idle =>
                  \A u \in users : u.id = request[q].id => u \in users']_vars
  <2> SUFFICES ASSUME AccountsInv, [Next]_vars, NEW q \in Request,
                      request[q].at \in Updating
               PROVE  /\ \E u \in users : u.id = request[q].id
                      /\ request'[q] # Idle =>
                           \A u \in users : u.id = request[q].id => u \in users'
    OBVIOUS
  <2>0. /\ rowLock[request[q].id] = q
        /\ \E u \in users : u.id = request[q].id
        /\ TypeOK
    BY DEF AccountsInv, LockedInv
  <2>1. SUFFICES ASSUME request'[q] # Idle, NEW u \in users,
                        u.id = request[q].id
                 PROVE  u \in users'
    BY <2>0
  <2>2. CASE users' = users
    BY <2>1, <2>2
  <2>3. ASSUME NEW o \in Request, NEW i \in UserID, InsertUser(o, i)
        PROVE  u \in users'
    BY <2>1, <2>3 DEF InsertUser
  <2>4. ASSUME NEW o \in Request, WriteProfile(o)
        PROVE  u \in users'
    <3>1. request'[o] = Idle
      <4>1. CASE "email" \in request[o].asks
        BY <2>4, <4>1 DEF WriteProfile, Overtakes
      <4>2. CASE "email" \notin request[o].asks
        BY <2>0, <2>4, <4>2 DEF WriteProfile, TypeOK
      <4>3. QED
        BY <4>1, <4>2
    <3>2. o # q
      BY <2>1, <3>1
    <3>3. PICK row \in users :
            /\ request[o].at \in Updating /\ request[o].id = row.id
            /\ users' = {v \in users : v.id # row.id}
                          \cup {Updated(row, request[o])}
      BY <2>4, WrittenRow
    <3>4. rowLock[request[o].id] = o
      BY <3>3 DEF AccountsInv, LockedInv
    <3>5. u.id # row.id
      BY <2>0, <2>1, <3>2, <3>3, <3>4
    <3>6. QED
      BY <2>1, <3>3, <3>5
  <2>5. ASSUME NEW o \in Request, NEW row \in users, DeleteUser(o, row)
        PROVE  u \in users'
    BY <2>0, <2>1, <2>5, NullAssumption DEF DeleteUser
  <2>6. QED
    BY <2>2, <2>3, <2>4, <2>5 DEF Next, RequestSteps, Signup, UpdateProfile,
      CheckEmail, CheckPhone, Fails, vars
<1>2. QED
  BY <1>1, AccountsInductive, PTL DEF Spec, LockedRowStays

-----------------------------------------------------------------------------
(* The limiter.  First the least-number principle: the search for the      *)
(* first hit that counts ends.                                             *)

LEMMA LeastNumber ==
  ASSUME NEW T \in SUBSET Nat, T # {}
  PROVE  \E m \in T : \A k \in T : m <= k
<1>1. PICK m \in T : \A k \in T : ~(<<k, m>> \in OpToRel(<, Nat))
  BY NatLessThanWellFounded, WFMin
<1>2. \A k \in T : ~(k < m)
  BY <1>1, Zenon DEF OpToRel
<1> QED BY <1>2

LEMMA ExpiredFacts ==
  ASSUME NEW k \in Key, hits[k] \in Seq(Nat), clock \in Nat
  PROVE  /\ Expired(k) \in 0..Len(hits[k])
         /\ \A i \in 1..Expired(k) : ~Counts(hits[k][i])
         /\ Expired(k) < Len(hits[k]) => Counts(hits[k][Expired(k) + 1])
<1> DEFINE size == Len(hits[k])
           counting == {n \in 0..size : n = size \/ Counts(hits[k][n + 1])}
<1>1. size \in Nat /\ counting \in SUBSET Nat /\ size \in counting
  OBVIOUS
<1>2. PICK n \in counting : \A m \in counting : n <= m
  <2> HIDE DEF counting, size
  <2> QED BY <1>1, LeastNumber
<1>3. n \in 0..size /\ (n < size => Counts(hits[k][n + 1]))
  OBVIOUS
<1>4. \A i \in 1..n : ~Counts(hits[k][i])
  <2> SUFFICES ASSUME NEW i \in 1..n, Counts(hits[k][i])
               PROVE  FALSE
    OBVIOUS
  <2>1. i - 1 \in 0..size /\ (i - 1) + 1 = i /\ i - 1 < n
    BY <1>1, <1>3
  <2>2. i - 1 \in counting
    BY <2>1
  <2> HIDE DEF counting
  <2> QED BY <1>1, <1>2, <1>3, <2>1, <2>2
<1> QED BY <1>3, <1>4 DEF Expired

-----------------------------------------------------------------------------
(* The limiter's inductive invariant: the hits that are kept are the last  *)
(* of the events allowed, and those no longer kept have expired.           *)

Ordered(k) ==
  /\ \A i \in 1..Len(allowed[k]) : allowed[k][i] <= clock
  /\ \A i, j \in 1..Len(allowed[k]) : i <= j => allowed[k][i] <= allowed[k][j]

LastOf(h, k) ==
  /\ Len(h) <= Len(allowed[k])
  /\ \A i \in 1..Len(h) : h[i] = allowed[k][Len(allowed[k]) - Len(h) + i]
  /\ \A i \in 1..(Len(allowed[k]) - Len(h)) : allowed[k][i] + Window <= clock

(* A refusal names the time when the oldest of the last Limit expires.     *)
RetryNamed(k) ==
  retryAt[k] # 0 =>
    /\ Len(allowed[k]) >= Limit
    /\ retryAt[k] = allowed[k][Len(allowed[k]) - Limit + 1] + Window

WindowIInv ==
  /\ WindowTypeOK
  /\ NeverOverLimit
  /\ \A k \in Key : Ordered(k) /\ LastOf(hits[k], k) /\ RetryNamed(k)

LEMMA RecentFacts ==
  ASSUME WindowIInv, NEW k \in Key
  PROVE  /\ Recent(k) \in Seq(Nat)
         /\ LastOf(Recent(k), k)
         /\ Len(Recent(k)) > 0 => Counts(Recent(k)[1])
         /\ Len(Recent(k)) <= Limit
<1> USE WindowAssumption
<1> DEFINE h == hits[k]
           A == allowed[k]
           r == Recent(k)
           e == Expired(k)
           size == Len(h)
           n == Len(A)
<1>1. /\ h \in Seq(Nat) /\ A \in Seq(Nat) /\ clock \in Nat
      /\ Ordered(k) /\ LastOf(h, k)
  BY DEF WindowIInv, WindowTypeOK
<1>2. /\ e \in 0..size
      /\ \A i \in 1..e : ~Counts(h[i])
      /\ e < size => Counts(h[e + 1])
  BY <1>1, ExpiredFacts
<1>3. /\ size \in Nat /\ n \in Nat /\ size <= n
      /\ \A i \in 1..size : h[i] \in Nat
      /\ \A i \in 1..n : A[i] \in Nat
  <2>1. size <= n
    BY <1>1 DEF LastOf
  <2>2. h \in Seq(Nat) /\ A \in Seq(Nat)
    BY <1>1
  <2> HIDE DEF h, A
  <2> QED BY <2>1, <2>2
<1>4. /\ r \in Seq(Nat) /\ Len(r) = size - e
      /\ \A i \in 1..(size - e) : r[i] = h[e + i]
  <2>1. r = SubSeq(h, e + 1, size)
    BY DEF Recent
  <2> HIDE DEF r, h, e, size
  <2>2. \A i \in (e + 1)..size : h[i] \in Nat
    BY <1>2, <1>3
  <2>3. e + 1 \in Int /\ size \in Int /\ size - (e + 1) + 1 = size - e
        /\ (IF e + 1 <= size THEN size - (e + 1) + 1 ELSE 0) = size - e
        /\ \A i \in Nat : (e + 1) + i - 1 = e + i
    BY <1>2, <1>3
  <2>4. /\ SubSeq(h, e + 1, size) \in Seq(Nat)
        /\ Len(SubSeq(h, e + 1, size)) = size - e
        /\ \A i \in 1..(size - e) : SubSeq(h, e + 1, size)[i] = h[e + i]
    <3>1. h \in Seq(Nat) /\ size = Len(h)
      BY <1>1 DEF h, size
    <3>2. e \in 0..size /\ size \in Nat
      BY <1>2, <1>3
    <3> QED BY <3>1, <3>2
  <2> QED BY <2>1, <2>4
<1>5. /\ \A i \in 1..size : h[i] = A[n - size + i]
      /\ \A i \in 1..(n - size) : A[i] + Window <= clock
      /\ \A i \in 1..n : A[i] <= clock
      /\ \A i \in 1..(n - Limit) : A[i + Limit] >= A[i] + Window
  BY <1>1 DEF LastOf, Ordered, WindowIInv, NeverOverLimit
<1> HIDE DEF r, h, A, e, size, n
<1>6. \A i \in 1..(size - e) : r[i] = A[n - (size - e) + i]
  <2> SUFFICES ASSUME NEW i \in 1..(size - e)
               PROVE  h[e + i] = A[n - (size - e) + i]
    BY <1>4
  <2>1. e + i \in 1..size /\ n - size + (e + i) = n - (size - e) + i
    BY <1>2, <1>3
  <2> QED BY <1>5, <2>1
<1>7. \A i \in 1..(n - (size - e)) : A[i] + Window <= clock
  <2> SUFFICES ASSUME NEW i \in 1..(n - (size - e)), i > n - size
               PROVE  A[i] + Window <= clock
    BY <1>2, <1>3, <1>5
  <2> DEFINE j == i - (n - size)
  <2>1. j \in 1..e /\ j \in 1..size /\ n - size + j = i
    BY <1>2, <1>3
  <2> HIDE DEF j
  <2>2. h[j] = A[i] /\ h[j] \in Nat /\ ~(h[j] > clock - Window)
    BY <1>2, <1>3, <1>5, <2>1 DEF Counts
  <2> QED BY <1>1, <2>2
<1>8. LastOf(r, k)
  BY <1>2, <1>3, <1>4, <1>6, <1>7 DEF LastOf, A, n
<1>9. Len(r) > 0 => Counts(r[1])
  <2>1. size - e > 0 => e < size /\ 1 \in 1..(size - e)
    BY <1>2, <1>3
  <2> QED BY <1>2, <1>4, <2>1
<1>10. Len(r) <= Limit
  <2> SUFFICES ASSUME size - e > Limit
               PROVE  FALSE
    BY <1>2, <1>3, <1>4
  <2> DEFINE i == n - (size - e) + 1
  <2>1. /\ i \in 1..(n - Limit) /\ i + Limit \in 1..n /\ i \in 1..n
        /\ 1 \in 1..(size - e)
    BY <1>2, <1>3
  <2>2. r[1] = A[i]
    BY <1>6, <2>1
  <2> HIDE DEF i
  <2>3. A[i] > clock - Window
    BY <1>4, <1>9, <2>1, <2>2 DEF Counts
  <2>4. A[i] \in Nat /\ A[i + Limit] \in Nat /\ clock \in Nat
    BY <1>1, <1>3, <2>1
  <2>5. A[i + Limit] >= A[i] + Window /\ A[i + Limit] <= clock
    BY <1>5, <2>1
  <2> DEFINE a == A[i]
             b == A[i + Limit]
  <2> HIDE DEF a, b
  <2>6. a > clock - Window /\ a \in Nat /\ b \in Nat /\ b >= a + Window
        /\ b <= clock
    BY <2>3, <2>4, <2>5 DEF a, b
  <2> QED BY <2>4, <2>6
<1> QED BY <1>4, <1>8, <1>9, <1>10 DEF r

(* Sweeping forgets only keys without recent hits.                         *)
LEMMA SweptFacts ==
  ASSUME WindowIInv, NEW sweeps \in BOOLEAN, NEW k \in Key
  PROVE  /\ HitsAfter(sweeps) \in [Key -> Seq(Nat)]
         /\ LastOf(HitsAfter(sweeps)[k], k)
<1>1. hits \in [Key -> Seq(Nat)] /\ \A j \in Key : LastOf(hits[j], j)
  BY DEF WindowIInv, WindowTypeOK
<1>2. Recent(k) = <<>> => LastOf(<<>>, k)
  BY RecentFacts
<1> QED BY <1>1, <1>2 DEF HitsAfter, Swept

LEMMA AllowKeeps ==
  ASSUME WindowIInv, NEW k \in Key, NEW sweeps \in BOOLEAN, Allow(k, sweeps)
  PROVE  WindowIInv'
<1> USE WindowAssumption DEF Allow
<1> DEFINE r == Recent(k)
           A == allowed[k]
           n == Len(allowed[k])
<1>1. /\ allowed \in [Key -> Seq(Nat)] /\ retryAt \in [Key -> Nat]
      /\ clock \in Nat /\ clock' = clock
      /\ HitsAfter(sweeps) \in [Key -> Seq(Nat)]
  BY SweptFacts DEF WindowIInv, WindowTypeOK
<1>2. /\ r \in Seq(Nat) /\ LastOf(r, k) /\ Len(r) < Limit
  BY RecentFacts DEF WithinLimit
<1> HIDE DEF r
<1>3. /\ hits'[k] = Append(r, clock) /\ allowed'[k] = Append(A, clock)
      /\ retryAt'[k] = 0
      /\ \A j \in Key \ {k} : /\ hits'[j] = HitsAfter(sweeps)[j]
                              /\ allowed'[j] = allowed[j]
                              /\ retryAt'[j] = retryAt[j]
  BY <1>1 DEF r
<1>4. WindowTypeOK'
  <2>1. Append(r, clock) \in Seq(Nat) /\ Append(A, clock) \in Seq(Nat)
    BY <1>1, <1>2
  <2> QED BY <1>1, <2>1 DEF WindowTypeOK, r
<1>5. /\ A \in Seq(Nat) /\ n \in Nat /\ Len(r) \in Nat /\ Len(r) <= n
      /\ Len(Append(A, clock)) = n + 1 /\ Len(Append(r, clock)) = Len(r) + 1
      /\ \A i \in 1..n : A[i] \in Nat /\ Append(A, clock)[i] = A[i]
      /\ Append(A, clock)[n + 1] = clock
      /\ \A i \in 1..Len(r) : Append(r, clock)[i] = r[i]
      /\ Append(r, clock)[Len(r) + 1] = clock
  <2>1. A \in Seq(Nat) /\ n \in Nat /\ n = Len(A)
    BY <1>1
  <2>2. Len(r) \in Nat /\ Len(r) <= n
    BY <1>2 DEF LastOf
  <2> HIDE DEF A, n
  <2>3. /\ Len(Append(A, clock)) = n + 1
        /\ \A i \in 1..n : A[i] \in Nat /\ Append(A, clock)[i] = A[i]
        /\ Append(A, clock)[n + 1] = clock
    BY <1>1, <2>1
  <2>4. /\ Len(Append(r, clock)) = Len(r) + 1
        /\ \A i \in 1..Len(r) : Append(r, clock)[i] = r[i]
        /\ Append(r, clock)[Len(r) + 1] = clock
    BY <1>1, <1>2
  <2> QED BY <2>1, <2>2, <2>3, <2>4
<1>6. Ordered(k) /\ \A i \in 1..(n - Limit) : A[i + Limit] >= A[i] + Window
  BY DEF WindowIInv, NeverOverLimit
<1> DEFINE B == Append(A, clock)
           s == Append(r, clock)
<1> HIDE DEF B, s, A, n
<1>7. /\ \A i \in 1..(n + 1) : B[i] <= clock
      /\ \A i, j \in 1..(n + 1) : i <= j => B[i] <= B[j]
  <2>1. \A i \in 1..(n + 1) : (i \in 1..n /\ B[i] = A[i])
                              \/ (i = n + 1 /\ B[i] = clock)
    BY <1>5 DEF B
  <2>2. \A i \in 1..n : A[i] <= clock
    BY <1>6 DEF Ordered, A, n
  <2>3. \A i, j \in 1..n : i <= j => A[i] <= A[j]
    BY <1>6 DEF Ordered, A, n
  <2>4. \A i \in 1..(n + 1) : B[i] <= clock
    <3>1. clock <= clock
      BY <1>1
    <3> QED BY <2>1, <2>2, <3>1
  <2>5. \A i, j \in 1..(n + 1) : i <= j /\ i # n + 1 /\ j # n + 1 =>
          B[i] <= B[j]
    BY <1>5, <2>1, <2>3
  <2>6. \A i, j \in 1..(n + 1) : i <= j /\ i = n + 1 => j = n + 1
    BY <1>5
  <2>7. B[n + 1] = clock
    BY <1>5 DEF B
  <2> QED BY <1>1, <2>4, <2>5, <2>6, <2>7
<1>8. \A i \in 1..(n + 1 - Limit) : B[i + Limit] >= B[i] + Window
  <2> SUFFICES ASSUME NEW i \in 1..(n + 1 - Limit)
               PROVE  B[i + Limit] >= B[i] + Window
    OBVIOUS
  <2>1. CASE i <= n - Limit
    <3>1. i \in 1..(n - Limit) /\ i \in 1..n /\ i + Limit \in 1..n
      BY <1>5, <2>1
    <3> QED BY <1>5, <1>6, <3>1 DEF B
  <2>2. CASE i = n + 1 - Limit
    <3>1. i \in 1..n /\ i \in 1..(n - Len(r)) /\ i + Limit = n + 1
      <4> DEFINE l == Len(r)
      <4>1. l \in Nat /\ l < Limit
        BY <1>2, <1>5
      <4> HIDE DEF l
      <4>2. i \in 1..n /\ i \in 1..(n - l) /\ i + Limit = n + 1
        BY <1>5, <2>2, <4>1
      <4> QED BY <4>2 DEF l
    <3>2. A[i] + Window <= clock
      BY <1>2, <3>1 DEF LastOf, A, n
    <3> QED BY <1>1, <1>5, <3>1, <3>2 DEF B
  <2>3. n \in Int /\ Limit \in Int
    BY <1>5
  <2>4. i <= n - Limit \/ i = n + 1 - Limit
    BY <2>3
  <2> QED BY <2>1, <2>2, <2>4
<1>9. /\ Len(s) <= n + 1
      /\ \A i \in 1..Len(s) : s[i] = B[(n + 1) - Len(s) + i]
      /\ \A i \in 1..((n + 1) - Len(s)) : B[i] + Window <= clock
  <2>1. Len(s) = Len(r) + 1
    BY <1>5 DEF s
  <2>2. ASSUME NEW i \in 1..Len(s)
        PROVE  s[i] = B[(n + 1) - Len(s) + i]
    <3>1. CASE i = Len(r) + 1
      <4>1. (n + 1) - Len(s) + i = n + 1
        BY <1>5, <2>1, <3>1
      <4> QED BY <1>5, <3>1, <4>1 DEF s, B
    <3>2. CASE i \in 1..Len(r)
      <4>1. (n + 1) - Len(s) + i = n - Len(r) + i /\ n - Len(r) + i \in 1..n
        <5> DEFINE l == Len(r)
        <5>1. l \in Nat /\ n \in Nat /\ l <= n /\ i \in 1..l
          BY <1>5, <3>2
        <5> HIDE DEF l
        <5>2. (n + 1) - (l + 1) + i = n - l + i /\ n - l + i \in 1..n
          BY <5>1
        <5> QED BY <2>1, <5>2 DEF l
      <4>2. r[i] = A[n - Len(r) + i]
        BY <1>2, <3>2 DEF LastOf, A, n
      <4> QED BY <1>5, <3>2, <4>1, <4>2 DEF s, B
    <3> QED BY <1>5, <2>1, <3>1, <3>2
  <2>3. ASSUME NEW i \in 1..((n + 1) - Len(s))
        PROVE  B[i] + Window <= clock
    <3>1. i \in 1..(n - Len(r)) /\ i \in 1..n
      BY <1>5, <2>1
    <3>2. A[i] + Window <= clock
      BY <1>2, <3>1 DEF LastOf, A, n
    <3> QED BY <1>5, <3>1, <3>2 DEF B
  <2> QED BY <1>5, <2>1, <2>2, <2>3
<1>10. allowed'[k] = B /\ hits'[k] = s /\ Len(B) = n + 1
  BY <1>3, <1>5 DEF B, s, A
<1>11. Ordered(k)' /\ LastOf(hits[k], k)' /\ RetryNamed(k)'
  <2>1. Len(allowed'[k]) = n + 1 /\ clock' = clock /\ retryAt'[k] = 0
    BY <1>1, <1>3, <1>10
  <2>2. Ordered(k)'
    BY <1>7, <1>10, <2>1 DEF Ordered
  <2>3. LastOf(hits[k], k)'
    BY <1>9, <1>10, <2>1 DEF LastOf
  <2>4. RetryNamed(k)'
    BY <2>1 DEF RetryNamed
  <2> QED BY <2>2, <2>3, <2>4
<1>12. NeverOverLimit'
  <2>1. ASSUME NEW j \in Key
        PROVE  \A i \in 1..(Len(allowed'[j]) - Limit) :
                 allowed'[j][i + Limit] >= allowed'[j][i] + Window
    <3>1. CASE j = k
      <4>1. allowed'[j] = B /\ Len(allowed'[j]) = n + 1
        BY <1>10, <3>1
      <4>2. \A i \in 1..(Len(B) - Limit) : B[i + Limit] >= B[i] + Window
        BY <1>5, <1>8, <1>10
      <4> QED BY <4>1, <4>2, Zenon
    <3>2. CASE j # k
      <4>1. allowed'[j] = allowed[j]
        BY <1>3, <3>2
      <4>2. NeverOverLimit
        BY DEF WindowIInv
      <4> QED BY <4>1, <4>2 DEF NeverOverLimit
    <3> QED BY <3>1, <3>2
  <2> QED BY <2>1 DEF NeverOverLimit
<1>13. \A j \in Key \ {k} : Ordered(j)' /\ LastOf(hits[j], j)' /\ RetryNamed(j)'
  <2>1. \A j \in Key \ {k} : /\ Ordered(j) /\ RetryNamed(j)
                             /\ LastOf(HitsAfter(sweeps)[j], j)
    BY SweptFacts DEF WindowIInv
  <2> SUFFICES ASSUME NEW j \in Key \ {k}
               PROVE  Ordered(j)' /\ LastOf(hits[j], j)' /\ RetryNamed(j)'
    OBVIOUS
  <2>2. /\ hits'[j] = HitsAfter(sweeps)[j] /\ allowed'[j] = allowed[j]
        /\ retryAt'[j] = retryAt[j] /\ clock' = clock
    BY <1>1, <1>3
  <2>3. Ordered(j)'
    BY <2>1, <2>2 DEF Ordered
  <2>4. LastOf(hits[j], j)'
    BY <2>1, <2>2 DEF LastOf
  <2>5. RetryNamed(j)'
    BY <2>1, <2>2 DEF RetryNamed
  <2> QED BY <2>3, <2>4, <2>5
<1> QED BY <1>4, <1>11, <1>12, <1>13 DEF WindowIInv

LEMMA RefuseKeeps ==
  ASSUME WindowIInv, NEW k \in Key, NEW sweeps \in BOOLEAN, Refuse(k, sweeps)
  PROVE  WindowIInv'
<1> USE WindowAssumption DEF Refuse
<1> DEFINE r == Recent(k)
           A == allowed[k]
           n == Len(allowed[k])
<1>1. /\ allowed \in [Key -> Seq(Nat)] /\ retryAt \in [Key -> Nat]
      /\ clock \in Nat /\ clock' = clock /\ allowed' = allowed
      /\ HitsAfter(sweeps) \in [Key -> Seq(Nat)]
  BY SweptFacts DEF WindowIInv, WindowTypeOK
<1>2. /\ r \in Seq(Nat) /\ LastOf(r, k) /\ Len(r) = Limit
  BY RecentFacts DEF WithinLimit
<1>3. OldestHit(k) = r[1]
  BY DEF OldestHit
<1> HIDE DEF r
<1>4. /\ hits'[k] = r /\ retryAt'[k] = r[1] + Window
      /\ \A j \in Key \ {k} : /\ hits'[j] = HitsAfter(sweeps)[j]
                              /\ retryAt'[j] = retryAt[j]
  BY <1>1, <1>3 DEF r
<1>5. /\ n \in Nat /\ Limit <= n /\ 1 \in 1..Len(r)
      /\ r[1] = A[n - Limit + 1] /\ r[1] \in Nat
  BY <1>1, <1>2 DEF LastOf
<1>6. WindowTypeOK'
  <2>1. r[1] + Window \in Nat
    BY <1>5
  <2> QED BY <1>1, <1>2, <1>3, <2>1 DEF WindowTypeOK, r
<1>7. NeverOverLimit'
  BY <1>1 DEF WindowIInv, NeverOverLimit
<1>8. Ordered(k)' /\ LastOf(hits[k], k)' /\ RetryNamed(k)'
  <2>1. Ordered(k)'
    BY <1>1 DEF WindowIInv, Ordered
  <2>2. LastOf(hits[k], k)'
    <3>1. hits'[k] = r /\ allowed'[k] = allowed[k] /\ clock' = clock
      BY <1>1, <1>4
    <3> HIDE DEF Refuse
    <3> QED BY <1>2, <3>1 DEF LastOf
  <2>3. RetryNamed(k)'
    <3>1. Len(allowed'[k]) = n /\ n >= Limit
      BY <1>1, <1>5
    <3>2. retryAt'[k] = allowed'[k][n - Limit + 1] + Window
      BY <1>1, <1>4, <1>5
    <3> QED BY <3>1, <3>2 DEF RetryNamed
  <2> QED BY <2>1, <2>2, <2>3
<1>9. \A j \in Key \ {k} : Ordered(j)' /\ LastOf(hits[j], j)' /\ RetryNamed(j)'
  <2>1. \A j \in Key \ {k} : /\ Ordered(j) /\ RetryNamed(j)
                             /\ LastOf(HitsAfter(sweeps)[j], j)
    BY SweptFacts DEF WindowIInv
  <2> QED BY <1>1, <1>4, <2>1 DEF Ordered, LastOf, RetryNamed
<1> QED BY <1>6, <1>7, <1>8, <1>9 DEF WindowIInv

LEMMA PassKeeps ==
  ASSUME WindowIInv, Pass
  PROVE  WindowIInv'
<1> USE WindowAssumption DEF Pass
<1>1. /\ clock \in Nat /\ allowed \in [Key -> Seq(Nat)]
      /\ \A k \in Key : \A i \in 1..Len(allowed[k]) : allowed[k][i] \in Nat
  BY DEF WindowIInv, WindowTypeOK
<1>2. WindowTypeOK' /\ NeverOverLimit'
  BY DEF WindowIInv, WindowTypeOK, NeverOverLimit
<1>3. ASSUME NEW k \in Key
      PROVE  Ordered(k)' /\ LastOf(hits[k], k)' /\ RetryNamed(k)'
  <2>1. Ordered(k) /\ LastOf(hits[k], k) /\ RetryNamed(k)
    BY DEF WindowIInv
  <2>2. Len(hits[k]) \in Nat /\ Len(allowed[k]) \in Nat
    BY DEF WindowIInv, WindowTypeOK
  <2>3. \A i \in 1..(Len(allowed[k]) - Len(hits[k])) :
          i \in 1..Len(allowed[k])
    BY <2>2
  <2>4. Ordered(k)'
    BY <1>1, <2>1 DEF Ordered
  <2>5. LastOf(hits[k], k)'
    <3>1. ASSUME NEW i \in 1..(Len(allowed[k]) - Len(hits[k]))
          PROVE  allowed[k][i] + Window <= clock + 1
      <4>1. allowed[k][i] + Window <= clock /\ allowed[k][i] \in Nat
        BY <1>1, <2>1, <2>3 DEF LastOf
      <4> QED BY <1>1, <4>1
    <3> QED BY <2>1, <3>1 DEF LastOf
  <2>6. RetryNamed(k)'
    BY <2>1 DEF RetryNamed
  <2> QED BY <2>4, <2>5, <2>6
<1> QED BY <1>2, <1>3 DEF WindowIInv

LEMMA WindowIInvRetry == WindowIInv => RetryIsRight
<1> USE WindowAssumption
<1> SUFFICES ASSUME WindowIInv, NEW k \in Key, retryAt[k] # 0
             PROVE  WithinLimit(k) <=> clock >= retryAt[k]
  BY DEF RetryIsRight
<1> DEFINE r == Recent(k)
           A == allowed[k]
           n == Len(allowed[k])
           i == n - Limit + 1
<1>1. /\ r \in Seq(Nat) /\ LastOf(r, k) /\ Len(r) <= Limit
      /\ Len(r) > 0 => Counts(r[1])
  BY RecentFacts
<1>2. /\ A \in Seq(Nat) /\ clock \in Nat /\ n >= Limit
      /\ retryAt[k] = A[i] + Window
  BY DEF WindowIInv, WindowTypeOK, RetryNamed
<1> HIDE DEF r
<1>3. n \in Nat /\ i \in 1..n /\ A[i] \in Nat /\ Len(r) \in Nat /\ Len(r) <= n
  <2>1. Len(r) \in Nat /\ Len(r) <= n
    BY <1>1 DEF LastOf
  <2>2. n \in Nat /\ n = Len(A)
    BY <1>2
  <2> HIDE DEF A, n
  <2>3. i \in 1..n
    BY <1>2, <2>2
  <2>4. A[i] \in Nat
    BY <1>2, <2>2, <2>3
  <2> QED BY <2>1, <2>2, <2>3, <2>4
<1>4. CASE Len(r) = Limit
  <2>1. n - Len(r) + 1 = i /\ 1 \in 1..Len(r)
    BY <1>3, <1>4
  <2>2. r[1] = A[i]
    BY <1>1, <2>1 DEF LastOf
  <2>3. A[i] > clock - Window
    BY <1>1, <1>4, <2>2 DEF Counts
  <2>4. ~WithinLimit(k)
    BY <1>4 DEF WithinLimit, r
  <2>5. ~(clock >= A[i] + Window)
    <3> HIDE DEF A, i
    <3> QED BY <1>2, <1>3, <2>3
  <2> QED BY <1>2, <2>4, <2>5
<1>5. CASE Len(r) < Limit
  <2>1. i \in 1..(n - Len(r))
    BY <1>3, <1>5
  <2>2. A[i] + Window <= clock
    BY <1>1, <2>1 DEF LastOf
  <2>3. WithinLimit(k)
    BY <1>5 DEF WithinLimit, r
  <2>4. clock >= A[i] + Window
    <3> HIDE DEF A, i
    <3> QED BY <1>2, <1>3, <2>2
  <2> QED BY <1>2, <2>3, <2>4
<1> QED BY <1>1, <1>3, <1>4, <1>5

LEMMA WindowInductive == WindowSpec => []WindowIInv
<1>1. WindowInit => WindowIInv
  <2> SUFFICES ASSUME WindowInit
               PROVE  WindowIInv
    OBVIOUS
  <2> USE DEF WindowInit
  <2>1. \A k \in Key : allowed[k] = <<>> /\ hits[k] = <<>> /\ retryAt[k] = 0
    OBVIOUS
  <2>2. WindowTypeOK
    BY DEF WindowTypeOK
  <2>3. NeverOverLimit
    BY <2>1, WindowAssumption DEF NeverOverLimit
  <2>4. \A k \in Key : Ordered(k) /\ LastOf(hits[k], k) /\ RetryNamed(k)
    BY <2>1 DEF Ordered, LastOf, RetryNamed
  <2> QED BY <2>2, <2>3, <2>4 DEF WindowIInv
<1>2. WindowIInv /\ [WindowNext]_windowVars => WindowIInv'
  <2> SUFFICES ASSUME WindowIInv, [WindowNext]_windowVars
               PROVE  WindowIInv'
    OBVIOUS
  <2>1. CASE UNCHANGED windowVars
    BY <2>1 DEF windowVars, WindowIInv, WindowTypeOK, NeverOverLimit, Ordered,
                LastOf, RetryNamed
  <2>2. CASE WindowNext
    BY <2>2, AllowKeeps, RefuseKeeps, PassKeeps DEF WindowNext
  <2> QED BY <2>1, <2>2
<1> QED BY <1>1, <1>2, PTL DEF WindowSpec

(* No window of time, wherever it begins, has more than Limit events of a  *)
(* key, and a refusal names the time from which the next is allowed        *)
(* (ratelimit.go:52-88).                                                   *)
THEOREM WithinTheLimit == WindowSpec => []WindowInv
<1>1. WindowIInv => WindowInv
  BY WindowIInvRetry DEF WindowIInv, WindowInv
<1> QED BY <1>1, WindowInductive, PTL

(* The letters' requests use the limiter as it is meant to be: what Create *)
(* and its refusals do to it are its steps                                 *)
(* (servers/coverletter/coverletter.go).                                   *)
THEOREM LettersAreLimited == LettersSpec => WindowSpec
<1>1. LettersInit => WindowInit
  BY DEF LettersInit
<1>2. [LettersNext]_lettersVars => [WindowNext]_windowVars
  BY KeyAssumption
  DEF LettersNext, lettersVars, WindowNext, Account, Create, TooMany,
      LatestCVText, GetProfile, LetterFails, WriteLetter, Match, TimePasses,
      windowVars
<1> QED BY <1>1, <1>2, PTL DEF LettersSpec, WindowSpec

-----------------------------------------------------------------------------
(* The letters.  Their requests are the accounts' too, which begin with    *)
(* the scenario's users.                                                   *)

HereInv == here \in Scenarios

LEMMA LettersBegin == LettersInit => AccountsInv /\ HereInv
<1> SUFFICES ASSUME LettersInit
             PROVE  AccountsInv /\ HereInv
  OBVIOUS
<1>1. here \in Scenarios /\ users = here.users
  BY DEF LettersInit
<1>2. /\ users \subseteq Rows
      /\ \A u, v \in users : u.id = v.id \/ u.email.address = v.email.address
                            => u = v
      /\ \A u \in users : u.email.written = "canonical"
  BY <1>1, ScenariosAssumption
<1>3. AccountsInv
  BY <1>2, AccountsBegin DEF LettersInit, SignInFindsEverybody
<1> QED BY <1>1, <1>3 DEF HereInv

LEMMA LettersAreAccounts ==
  HereInv /\ [LettersNext]_lettersVars => [Next]_vars /\ HereInv'
<1> SUFFICES ASSUME HereInv, [LettersNext]_lettersVars
             PROVE  [Next]_vars /\ HereInv'
  OBVIOUS
<1>1. here.requests \subseteq Request
  BY ScenariosAssumption DEF HereInv
<1>2. here' = here
  BY DEF LettersNext, lettersVars, Account, Create, TooMany, LatestCVText,
         GetProfile, LetterFails, WriteLetter, Match, TimePasses
<1>3. [Next]_vars
  BY <1>1
  DEF LettersNext, lettersVars, Next, Account, Create, TooMany, LatestCVText,
      GetProfile, LetterFails, WriteLetter, Match, TimePasses
<1> QED BY <1>2, <1>3 DEF HereInv

LEMMA LettersAccounts == LettersSpec => [](AccountsInv /\ HereInv)
<1>1. AccountsInv /\ HereInv /\ [LettersNext]_lettersVars
        => (AccountsInv /\ HereInv)'
  BY LettersAreAccounts, AccountsStep
<1> QED BY <1>1, LettersBegin, PTL DEF LettersSpec

(* Two accounts share an address only after a race while letters are       *)
(* written as well (user.go:302-345, users/account.go:59-72).              *)
THEOREM SharedByRaceInLetters == LettersSpec => []SharedOnlyByRace
<1>1. AccountsInv => SharedOnlyByRace
  BY DEF AccountsInv
<1> QED BY <1>1, LettersAccounts, PTL

(* What a letter is checked against is its user's, until the profile       *)
(* changes; and what it names is then the user's.                          *)
OwnIsTheirs(l) ==
  l.at = "write" =>
    l.moved \/ \E u \in users : /\ u.id = l.user
                                /\ l.own.email = u.email.address
                                /\ l.own.phone = u.phone

NamesTheirs(s, u) ==
  /\ u.id = s.user
  /\ \A c \in s.contacts :
       \/ c = u.email.address
       \/ c \in Short
       \/ u.phone # Blank /\ SamePhone(c, u.phone)

LEMMA NotForeign ==
  ASSUME NEW contacts \in SUBSET Contact, NEW own,
         Foreign(contacts, own) = {}, NEW c \in contacts
  PROVE  \/ c = own.email
         \/ c \in Short
         \/ own.phone # Blank /\ SamePhone(c, own.phone)
<1>1. CASE c \in Address
  BY <1>1 DEF Foreign
<1>2. CASE c \in Number /\ c \notin Short
  <2>1. SamePhone(c, own.phone)
    BY <1>2 DEF Foreign
  <2>2. own.phone # Blank
    BY <2>1, NumberAssumption DEF SamePhone
  <2> QED BY <2>1, <2>2
<1> QED BY <1>1, <1>2 DEF Contact

LetterInv ==
  /\ here \in Scenarios
  /\ letter \in [Writer -> Letter]
  /\ sent \in [Writer ->
       {NULL} \cup [user : UserID, contacts : SUBSET Contact, moved : BOOLEAN]]
  /\ \A w \in Writer : OwnIsTheirs(letter[w])

LEMMA LetterKinds ==
  ASSUME NEW l \in Letter
  PROVE  /\ l.at \in {"idle", "cv", "profile", "write"}
         /\ l.at = "idle" => l = Idle
         /\ l.at \in {"cv", "profile"} =>
              /\ l \in [at : {"cv", "profile"}, user : UserID]
              /\ [l EXCEPT !.at = "profile"] = [at |-> "profile", user |-> l.user]
         /\ l.at = "write" =>
              l \in [at : {"write"}, user : UserID,
                    own : [email : Address \cup {Blank}, phone : Phones],
                    attempt : 1..Attempts, moved : BOOLEAN]
BY DEF Letter, Idle

(* A letter's turn, and what stays of the others'.                         *)
LEMMA TurnsFacts ==
  ASSUME LetterInv, NEW w \in Writer, NEW v \in Letter, Turns(w, v),
         users' = users, here' = here, sent' = sent, OwnIsTheirs(v)
  PROVE  LetterInv'
<1>1. \A x \in Writer : letter'[x] = IF x = w THEN v ELSE letter[x]
  BY DEF LetterInv, Turns
<1>2. letter' \in [Writer -> Letter]
  BY DEF LetterInv, Turns
<1> QED BY <1>1, <1>2 DEF LetterInv, OwnIsTheirs

(* The letters' own steps, but for the writing, and those of others.       *)
LEMMA OtherLetterSteps ==
  ASSUME LetterInv, TypeOK, NEW w \in Writer,
         \/ \E i \in UserID, sweeps \in BOOLEAN : Create(w, i, sweeps)
         \/ LatestCVText(w) \/ GetProfile(w) \/ LetterFails(w)
  PROVE  LetterInv'
<1> USE AttemptsAssumption
<1>1. letter[w] \in Letter /\ sent \in [Writer -> {NULL} \cup
        [user : UserID, contacts : SUBSET Contact, moved : BOOLEAN]]
  BY DEF LetterInv
<1>2. \A i \in UserID : [at |-> "cv", user |-> i] \in Letter
                      /\ [at |-> "profile", user |-> i] \in Letter
  BY DEF Letter
<1>3. Idle \in Letter /\ Idle.at = "idle"
  BY DEF Letter, Idle
<1>4. ASSUME NEW i \in UserID, NEW sweeps \in BOOLEAN, Create(w, i, sweeps)
      PROVE  LetterInv'
  <2>1. \A x \in Writer :
          letter'[x] = IF x = w THEN [at |-> "cv", user |-> i] ELSE letter[x]
    BY <1>4 DEF LetterInv, Create, Turns
  <2>2. letter' \in [Writer -> Letter]
    BY <1>2, <1>4 DEF LetterInv, Create, Turns
  <2>3. users' = users /\ here' = here
    BY <1>4 DEF Create, vars
  <2>4. sent' \in [Writer -> {NULL} \cup
          [user : UserID, contacts : SUBSET Contact, moved : BOOLEAN]]
    BY <1>1, <1>4 DEF Create
  <2> QED BY <2>1, <2>2, <2>3, <2>4 DEF LetterInv, OwnIsTheirs
<1>5. CASE LatestCVText(w)
  <2>1. letter[w].user \in UserID
        /\ [letter[w] EXCEPT !.at = "profile"]
             = [at |-> "profile", user |-> letter[w].user]
    BY <1>1, <1>5, LetterKinds DEF LatestCVText
  <2>2. Turns(w, [at |-> "profile", user |-> letter[w].user])
    BY <1>5, <2>1 DEF LatestCVText
  <2>3. OwnIsTheirs([at |-> "profile", user |-> letter[w].user])
    BY DEF OwnIsTheirs
  <2>4. users' = users /\ here' = here /\ sent' = sent
    BY <1>5 DEF LatestCVText, vars
  <2> QED BY <1>2, <2>1, <2>2, <2>3, <2>4, TurnsFacts
<1>6. CASE GetProfile(w)
  <2>1. PICK u \in users :
          /\ u.id = letter[w].user
          /\ u.email.address \in Address \cup {Blank} /\ u.phone \in Phones
          /\ Turns(w, [at |-> "write", user |-> u.id,
                       own |-> [email |-> u.email.address, phone |-> u.phone],
                       attempt |-> 1, moved |-> FALSE])
    BY <1>6, UserFacts DEF GetProfile
  <2> DEFINE v == [at |-> "write", user |-> u.id,
                   own |-> [email |-> u.email.address, phone |-> u.phone],
                   attempt |-> 1, moved |-> FALSE]
  <2>2. u.id \in UserID
    BY <1>1, <1>6, <2>1, LetterKinds DEF GetProfile
  <2>3. v \in Letter
    BY <2>1, <2>2 DEF Letter
  <2>4. OwnIsTheirs(v)
    BY DEF OwnIsTheirs
  <2>5. users' = users /\ here' = here /\ sent' = sent
    BY <1>6 DEF GetProfile, vars
  <2> HIDE DEF v
  <2> QED BY <2>1, <2>3, <2>4, <2>5, TurnsFacts DEF v
<1>7. CASE LetterFails(w)
  <2>1. users' = users /\ here' = here /\ sent' = sent /\ Turns(w, Idle)
    BY <1>7 DEF LetterFails, vars
  <2> QED BY <1>3, <2>1, TurnsFacts DEF OwnIsTheirs
<1> QED BY <1>4, <1>5, <1>6, <1>7

(* Only what passes the checks is sent.                                    *)
LEMMA WriteLetterStep ==
  ASSUME LetterInv, NEW w \in Writer, NEW d \in Drafts, WriteLetter(w, d)
  PROVE  /\ LetterInv'
         /\ \A x \in Writer :
              sent'[x] # sent[x] =>
                sent'[x].moved \/ \E u \in users :
                  NamesTheirs(sent'[x], u)
<1> DEFINE l == letter[w]
<1>1. /\ l \in [at : {"write"}, user : UserID,
               own : [email : Address \cup {Blank}, phone : Phones],
               attempt : 1..Attempts, moved : BOOLEAN]
      /\ OwnIsTheirs(l) /\ l.at = "write"
  BY LetterKinds DEF WriteLetter, LetterInv
<1>2. users' = users /\ here' = here
  BY DEF WriteLetter, vars
<1>3. Idle \in Letter /\ OwnIsTheirs(Idle)
  BY DEF Letter, Idle, OwnIsTheirs
<1>4. CASE Passes(l, d)
  <2> DEFINE s == [user |-> l.user, contacts |-> d.contacts,
                   moved |-> l.moved]
  <2>1. sent' = [sent EXCEPT ![w] = s] /\ Turns(w, Idle)
    BY <1>4 DEF WriteLetter
  <2>2. s \in [user : UserID, contacts : SUBSET Contact, moved : BOOLEAN]
    BY <1>1, DraftAssumption
  <2>3. s.moved \/ \E u \in users : NamesTheirs(s, u)
    BY <1>1, <1>4, NotForeign, DraftAssumption
    DEF OwnIsTheirs, Passes, NamesTheirs
  <2> HIDE DEF s
  <2>4. /\ sent' \in [Writer -> {NULL} \cup
             [user : UserID, contacts : SUBSET Contact, moved : BOOLEAN]]
        /\ \A x \in Writer : sent'[x] = IF x = w THEN s ELSE sent[x]
    BY <2>1, <2>2 DEF LetterInv
  <2>5. /\ letter' \in [Writer -> Letter]
        /\ \A x \in Writer : letter'[x] = IF x = w THEN Idle ELSE letter[x]
    BY <1>3, <2>1 DEF LetterInv, Turns
  <2>6. LetterInv'
    BY <1>2, <1>3, <2>4, <2>5 DEF LetterInv, OwnIsTheirs
  <2> QED BY <2>3, <2>4, <2>6
<1>5. CASE ~Passes(l, d)
  <2>1. sent' = sent
    BY <1>5 DEF WriteLetter
  <2>2. CASE Turns(w, Idle)
    BY <1>2, <1>3, <2>1, <2>2, TurnsFacts
  <2>3. CASE l.attempt < Attempts /\ Turns(w, [l EXCEPT !.attempt = @ + 1])
    <3> DEFINE v == [l EXCEPT !.attempt = @ + 1]
    <3>1. l.attempt \in Nat /\ l.attempt + 1 \in 1..Attempts
      BY <1>1, <2>3, AttemptsAssumption
    <3>2. v \in Letter
      BY <1>1, <3>1 DEF Letter
    <3>3. v.at = l.at /\ v.moved = l.moved /\ v.user = l.user /\ v.own = l.own
      BY <1>1
    <3>4. Turns(w, v)
      BY <2>3
    <3> HIDE DEF v
    <3>5. OwnIsTheirs(v)
      BY <1>1, <3>3 DEF OwnIsTheirs
    <3> QED BY <1>2, <2>1, <3>2, <3>4, <3>5, TurnsFacts
  <2> QED BY <1>5, <2>1, <2>2, <2>3 DEF WriteLetter
<1> QED BY <1>4, <1>5

(* A letter whose user's row has changed has moved.                        *)
LEMMA AccountMoves ==
  ASSUME LetterInv, NEW q, Account(q)
  PROVE  LetterInv'
<1> USE DEF Account
<1>1. ASSUME NEW w \in Writer
      PROVE  letter'[w] \in Letter /\ OwnIsTheirs(letter[w])'
  <2> DEFINE l == letter[w]
  <2>1. l \in Letter /\ OwnIsTheirs(l)
    BY DEF LetterInv
  <2>2. CASE /\ l.at = "write"
             /\ RowsIn(users', l.user) # RowsIn(users, l.user)
    <3>1. letter'[w] = [l EXCEPT !.moved = TRUE]
      BY <2>2
    <3>2. l \in [at : {"write"}, user : UserID,
                own : [email : Address \cup {Blank}, phone : Phones],
                attempt : 1..Attempts, moved : BOOLEAN]
      BY <2>1, <2>2, LetterKinds
    <3> HIDE DEF l
    <3>3. [l EXCEPT !.moved = TRUE] \in Letter
          /\ [l EXCEPT !.moved = TRUE].moved
      BY <3>2 DEF Letter
    <3> QED BY <3>1, <3>3 DEF OwnIsTheirs
  <2>3. CASE ~(/\ l.at = "write"
               /\ RowsIn(users', l.user) # RowsIn(users, l.user))
    <3>1. letter'[w] = l
      BY <2>3
    <3>2. l.at = "write" => RowsIn(users', l.user) = RowsIn(users, l.user)
      BY <2>3
    <3> HIDE DEF l
    <3>3. \A u \in users : l.at = "write" /\ u.id = l.user => u \in users'
      BY <3>2 DEF RowsIn
    <3> QED BY <2>1, <3>1, <3>3 DEF OwnIsTheirs
  <2> QED BY <2>2, <2>3
<1>2. letter' \in [Writer -> Letter]
  BY <1>1
<1> QED BY <1>1, <1>2 DEF LetterInv

LEMMA LetterStep ==
  ASSUME LetterInv, TypeOK, LettersNext
  PROVE  /\ LetterInv'
         /\ \A x \in Writer :
              sent'[x] # sent[x] /\ sent'[x] # NULL =>
                sent'[x].moved \/ \E u \in users :
                  NamesTheirs(sent'[x], u)
<1>1. here.writers \subseteq Writer
  BY ScenariosAssumption DEF LetterInv
<1>2. ASSUME NEW q, Account(q)
      PROVE  LetterInv' /\ sent' = sent
  BY <1>2, AccountMoves DEF Account
<1>3. ASSUME NEW w \in Writer, NEW i \in UserID, NEW sweeps \in BOOLEAN,
             Create(w, i, sweeps)
      PROVE  /\ LetterInv'
             /\ \A x \in Writer : sent'[x] = sent[x] \/ sent'[x] = NULL
  BY <1>3, OtherLetterSteps DEF Create, LetterInv
<1>4. ASSUME NEW w \in Writer, NEW i \in UserID, NEW sweeps \in BOOLEAN,
             TooMany(w, i, sweeps)
      PROVE  LetterInv' /\ sent' = sent
  BY <1>4 DEF TooMany, vars, letterVars, LetterInv, OwnIsTheirs
<1>5. ASSUME NEW w \in Writer,
             LatestCVText(w) \/ GetProfile(w) \/ LetterFails(w)
      PROVE  LetterInv' /\ sent' = sent
  BY <1>5, OtherLetterSteps DEF LatestCVText, GetProfile, LetterFails
<1>6. ASSUME (\E a \in Answers : Match(a)) \/ TimePasses
      PROVE  LetterInv' /\ sent' = sent
  BY <1>6 DEF Match, TimePasses, vars, letterVars, LetterInv, OwnIsTheirs
<1> QED
  BY <1>1, <1>2, <1>3, <1>4, <1>5, <1>6, WriteLetterStep DEF LettersNext

(* A letter names no contact details but those its user has at the moment  *)
(* it is sent, unless the profile changed under way                        *)
(* (coverletter.go:115-181, checks.go:93-108).                             *)
THEOREM LettersNameOwn == LettersSpec => LettersNameTheirUser
<1>1. LettersInit => LetterInv
  BY DEF LettersInit, LetterInv, OwnIsTheirs, Letter, Idle
<1>2. LetterInv /\ TypeOK /\ [LettersNext]_lettersVars => LetterInv'
  <2>1. LetterInv /\ UNCHANGED lettersVars => LetterInv'
    BY DEF lettersVars, vars, letterVars, LetterInv, OwnIsTheirs
  <2> QED BY <2>1, LetterStep
<1>3. LetterInv /\ TypeOK /\ [LettersNext]_lettersVars =>
        [\A w \in Writer :
           LET s == sent'[w]
           IN s # sent[w] /\ s # NULL =>
                s.moved \/ \E u \in users :
                  /\ u.id = s.user
                  /\ \A c \in s.contacts :
                       \/ c = u.email.address
                       \/ c \in Short
                       \/ u.phone # Blank /\ SamePhone(c, u.phone)
        ]_lettersVars
  BY LetterStep DEF NamesTheirs
<1>4. AccountsInv => TypeOK
  BY DEF AccountsInv
<1> QED
  BY <1>1, <1>2, <1>3, <1>4, LettersAccounts, PTL
  DEF LettersSpec, LettersNameTheirUser

-----------------------------------------------------------------------------
(* What is kept of an answer.  The loops of the matcher go through a list; *)
(* f[i] is what such a loop has made of the first i.                       *)

TakenBy(s, good, n, f, k) ==
  f = [i \in 0..k |->
         IF i = 0 THEN <<>>
         ELSE IF s[i] \in good /\ Len(f[i - 1]) < n
              THEN Append(f[i - 1], s[i]) ELSE f[i - 1]]

KeptBy(s, f, k) ==
  f = [i \in 0..k |-> IF i = 0 THEN <<>> ELSE KeptFirst(f[i - 1], s[i])]

LEMMA TakenExists ==
  ASSUME NEW s, NEW good, NEW n, NEW k \in Nat
  PROVE  \E f : TakenBy(s, good, n, f, k)
<1> DEFINE T == {j \in Nat : ~\E f : TakenBy(s, good, n, f, j)}
<1> SUFFICES ASSUME T # {}
             PROVE  FALSE
  OBVIOUS
<1>1. PICK m \in T : \A j \in T : m <= j
  BY LeastNumber
<1>2. m # 0
  <2>1. TakenBy(s, good, n, [i \in 0..0 |-> <<>>], 0)
    BY DEF TakenBy
  <2> QED BY <1>1, <2>1
<1>3. m - 1 \in Nat /\ m - 1 \notin T
  <2>1. m \in Nat
    BY <1>1
  <2>2. m - 1 \in Nat /\ ~(m <= m - 1)
    BY <1>2, <2>1
  <2> HIDE DEF T
  <2> QED BY <1>1, <2>2
<1>4. PICK g : TakenBy(s, good, n, g, m - 1)
  BY <1>3
<1> DEFINE Step(f, i) == IF i = 0 THEN <<>>
                         ELSE IF s[i] \in good /\ Len(f[i - 1]) < n
                              THEN Append(f[i - 1], s[i]) ELSE f[i - 1]
           h == [i \in 0..m |-> Step(g, i)]
<1>5. \A i \in 0..(m - 1) : h[i] = g[i]
  <2>1. g = [i \in 0..(m - 1) |-> Step(g, i)]
    BY <1>4 DEF TakenBy
  <2> HIDE DEF Step
  <2>2. \A i \in 0..(m - 1) : g[i] = Step(g, i) /\ i \in 0..m
    BY <1>3, <2>1
  <2> QED BY <2>2
<1>6. \A i \in 0..m : i # 0 => i - 1 \in 0..(m - 1)
  BY <1>3
<1>7. \A i \in 0..m : Step(g, i) = Step(h, i)
  <2> SUFFICES ASSUME NEW i \in 0..m
               PROVE  Step(g, i) = Step(h, i)
    OBVIOUS
  <2>1. i # 0 => h[i - 1] = g[i - 1]
    BY <1>5, <1>6
  <2> HIDE DEF h
  <2> QED BY <2>1
<1>8. TakenBy(s, good, n, h, m)
  <2>1. h = [i \in 0..m |-> Step(h, i)]
    <3> HIDE DEF Step
    <3> QED BY <1>7
  <2> QED BY <2>1 DEF TakenBy
<1> QED BY <1>1, <1>8

LEMMA KeptExists ==
  ASSUME NEW s, NEW k \in Nat
  PROVE  \E f : KeptBy(s, f, k)
<1> DEFINE T == {j \in Nat : ~\E f : KeptBy(s, f, j)}
<1> SUFFICES ASSUME T # {}
             PROVE  FALSE
  OBVIOUS
<1>1. PICK m \in T : \A j \in T : m <= j
  BY LeastNumber
<1>2. m # 0
  <2>1. KeptBy(s, [i \in 0..0 |-> <<>>], 0)
    BY DEF KeptBy
  <2> QED BY <1>1, <2>1
<1>3. m - 1 \in Nat /\ m - 1 \notin T
  <2>1. m \in Nat
    BY <1>1
  <2>2. m - 1 \in Nat /\ ~(m <= m - 1)
    BY <1>2, <2>1
  <2> HIDE DEF T
  <2> QED BY <1>1, <2>2
<1>4. PICK g : KeptBy(s, g, m - 1)
  BY <1>3
<1> DEFINE Step(f, i) == IF i = 0 THEN <<>> ELSE KeptFirst(f[i - 1], s[i])
           h == [i \in 0..m |-> Step(g, i)]
<1>5. \A i \in 0..(m - 1) : h[i] = g[i]
  <2>1. g = [i \in 0..(m - 1) |-> Step(g, i)]
    BY <1>4 DEF KeptBy
  <2> HIDE DEF Step
  <2>2. \A i \in 0..(m - 1) : g[i] = Step(g, i) /\ i \in 0..m
    BY <1>3, <2>1
  <2> QED BY <2>2
<1>6. \A i \in 0..m : i # 0 => i - 1 \in 0..(m - 1)
  BY <1>3
<1>7. \A i \in 0..m : Step(g, i) = Step(h, i)
  <2> SUFFICES ASSUME NEW i \in 0..m
               PROVE  Step(g, i) = Step(h, i)
    OBVIOUS
  <2>1. i # 0 => h[i - 1] = g[i - 1]
    BY <1>5, <1>6
  <2> HIDE DEF h
  <2> QED BY <2>1
<1>8. KeptBy(s, h, m)
  <2>1. h = [i \in 0..m |-> Step(h, i)]
    <3> HIDE DEF Step
    <3> QED BY <1>7
  <2> QED BY <2>1 DEF KeptBy
<1> QED BY <1>1, <1>8

(* What is taken of a list is of its elements, and no more than it may.    *)
LEMMA TakenFacts ==
  ASSUME NEW S, NEW s \in Seq(S), NEW good, NEW n \in Nat
  PROVE  /\ Taken(s, good, n) \in Seq(S)
         /\ Len(Taken(s, good, n)) <= n
<1> DEFINE Right(f) == f \in Seq(S) /\ Len(f) <= n
<1>1. Len(s) \in Nat
  OBVIOUS
<1>2. PICK f : TakenBy(s, good, n, f, Len(s)) /\ Taken(s, good, n) = f[Len(s)]
  <2>1. \E f : TakenBy(s, good, n, f, Len(s))
    BY <1>1, TakenExists
  <2> QED BY <2>1 DEF TakenBy, Taken
<1>3. /\ f[0] = <<>>
      /\ \A i \in 1..Len(s) :
           f[i] = IF s[i] \in good /\ Len(f[i - 1]) < n
                  THEN Append(f[i - 1], s[i]) ELSE f[i - 1]
  <2> DEFINE Step(i) == IF i = 0 THEN <<>>
                        ELSE IF s[i] \in good /\ Len(f[i - 1]) < n
                             THEN Append(f[i - 1], s[i]) ELSE f[i - 1]
  <2>1. f = [i \in 0..Len(s) |-> Step(i)]
    BY <1>2 DEF TakenBy
  <2>2. /\ 0 \in 0..Len(s)
        /\ \A i \in 1..Len(s) : i \in 0..Len(s) /\ i # 0
    BY <1>1
  <2> HIDE DEF Step
  <2>3. f[0] = Step(0) /\ \A i \in 1..Len(s) : f[i] = Step(i)
    BY <2>1, <2>2
  <2> QED BY <2>2, <2>3 DEF Step
<1> DEFINE B == {k \in Nat : k <= Len(s) /\ ~Right(f[k])}
<1>4. B = {}
  <2> SUFFICES ASSUME B # {}
               PROVE  FALSE
    OBVIOUS
  <2>1. PICK m \in B : \A k \in B : m <= k
    BY LeastNumber
  <2>2. m \in Nat /\ m <= Len(s) /\ ~Right(f[m])
    BY <2>1
  <2>3. m # 0
    <3>1. Right(<<>>)
      BY EmptySeq
    <3> HIDE DEF Right
    <3> QED BY <1>3, <2>2, <3>1
  <2>4. /\ m - 1 \in Nat /\ ~(m <= m - 1) /\ m - 1 <= Len(s)
        /\ m \in 1..Len(s)
    BY <1>1, <2>2, <2>3
  <2>5. m - 1 \notin B
    <3> HIDE DEF B
    <3> QED BY <2>1, <2>4
  <2>6. Right(f[m - 1])
    <3> HIDE DEF Right
    <3> QED BY <2>4, <2>5
  <2> DEFINE g == f[m - 1]
             e == s[m]
  <2>7. f[m] = IF e \in good /\ Len(g) < n THEN Append(g, e) ELSE g
    BY <1>3, <2>4
  <2>8. e \in S /\ g \in Seq(S) /\ Len(g) <= n /\ Len(g) \in Nat
    BY <2>4, <2>6
  <2> HIDE DEF g, e
  <2>9. Right(f[m])
    <3>1. /\ Append(g, e) \in Seq(S) /\ Len(Append(g, e)) = Len(g) + 1
      BY <2>8
    <3> QED BY <2>7, <2>8, <3>1
  <2> QED BY <2>2, <2>9
<1>5. Right(f[Len(s)])
  <2> HIDE DEF Right
  <2> QED BY <1>1, <1>4
<1> QED BY <1>2, <1>5

Score == [criterion : Text, score : Int]
Naming(s, c, k) == {i \in 1..k : s[i].criterion = c}

(* What is kept of the first k scores: of each criterion the first one.    *)
KeptRight(kept, s, k) ==
  /\ kept \in Seq(Score)
  /\ \A c \in EvaluationCriteria :
       LET of == Naming(kept, c, Len(kept))
       IN /\ of = {} <=> Naming(s, c, k) = {}
          /\ \A i, j \in of : i = j
          /\ \A i \in Naming(s, c, k), j \in of :
               (\A h \in Naming(s, c, k) : i <= h)
                 => kept[j].score = Clamp(s[i].score)

LEMMA ClampFacts ==
  ASSUME NEW n \in Int
  PROVE  Clamp(n) \in 0..100 /\ Clamp(n) \in Int
BY DEF Clamp

(* Another score is kept when it is the first of a criterion.              *)
LEMMA KeptOneMore ==
  ASSUME NEW s \in Seq(Score), NEW k \in Nat, k < Len(s), NEW kept,
         KeptRight(kept, s, k)
  PROVE  KeptRight(KeptFirst(kept, s[k + 1]), s, k + 1)
<1> DEFINE p == s[k + 1]
           q == [p EXCEPT !.score = Clamp(@)]
           new == KeptFirst(kept, p)
           n == Len(kept)
           added == /\ p.criterion \in EvaluationCriteria
                    /\ \A i \in DOMAIN kept : kept[i].criterion # p.criterion
<1>1. kept \in Seq(Score) /\ n \in Nat /\ DOMAIN kept = 1..n
  BY DEF KeptRight
<1>2. p \in Score /\ k + 1 \in 1..Len(s)
  OBVIOUS
<1>3. /\ q \in Score /\ q.criterion = p.criterion
      /\ q.score = Clamp(p.score)
  BY <1>2, ClampFacts DEF Score
<1>4. new = IF added THEN Append(kept, q) ELSE kept
  BY DEF KeptFirst
<1>5. \A c : Naming(s, c, k + 1) =
               IF p.criterion = c THEN Naming(s, c, k) \cup {k + 1}
               ELSE Naming(s, c, k)
  <2>1. \A i \in 1..(k + 1) : i \in 1..k \/ i = k + 1
    OBVIOUS
  <2>2. k + 1 \in 1..(k + 1) /\ 1..k \subseteq 1..(k + 1)
    OBVIOUS
  <2> QED BY <2>1, <2>2 DEF Naming
<1>6. \A c : \A i \in Naming(s, c, k) : i \in Nat /\ i < k + 1
  BY DEF Naming
<1> HIDE DEF q
<1>7. CASE added
  <2>1. /\ new = Append(kept, q) /\ new \in Seq(Score) /\ Len(new) = n + 1
        /\ \A i \in 1..n : new[i] = kept[i]
        /\ new[n + 1] = q
    <3>1. new = Append(kept, q)
      <4> HIDE DEF added, new
      <4> QED BY <1>4, <1>7
    <3>2. /\ Append(kept, q) \in Seq(Score)
          /\ Len(Append(kept, q)) = Len(kept) + 1
          /\ \A i \in 1..Len(kept) : Append(kept, q)[i] = kept[i]
          /\ Append(kept, q)[Len(kept) + 1] = q
      <4> HIDE DEF added, new, p
      <4> QED BY <1>1, <1>3
    <3> HIDE DEF new, added
    <3> QED BY <3>1, <3>2
  <2> HIDE DEF new
  <2>2. \A c : Naming(new, c, n + 1) =
                 IF p.criterion = c THEN Naming(kept, c, n) \cup {n + 1}
                 ELSE Naming(kept, c, n)
    <3>1. \A i \in 1..(n + 1) : i \in 1..n \/ i = n + 1
      BY <1>1
    <3>2. n + 1 \in 1..(n + 1) /\ 1..n \subseteq 1..(n + 1)
      BY <1>1
    <3> QED BY <1>3, <2>1, <3>1, <3>2 DEF Naming
  <2>3. Naming(kept, p.criterion, n) = {}
    BY <1>1, <1>7 DEF Naming
  <2>4. Naming(s, p.criterion, k) = {}
    BY <1>7, <2>3 DEF KeptRight
  <2>5. \A c : \A j \in Naming(kept, c, n) : j \in 1..n
    BY DEF Naming
  <2> HIDE DEF p, n
  <2>6. ASSUME NEW c \in EvaluationCriteria
        PROVE  LET of == Naming(new, c, Len(new))
               IN /\ of = {} <=> Naming(s, c, k + 1) = {}
                  /\ \A i, j \in of : i = j
                  /\ \A i \in Naming(s, c, k + 1), j \in of :
                       (\A h \in Naming(s, c, k + 1) : i <= h)
                         => new[j].score = Clamp(s[i].score)
    <3>1. CASE c = p.criterion
      <4>1. /\ Naming(new, c, Len(new)) = {n + 1}
            /\ Naming(s, c, k + 1) = {k + 1}
        BY <1>5, <2>1, <2>2, <2>3, <2>4, <3>1
      <4>2. new[n + 1].score = Clamp(s[k + 1].score)
        BY <1>3, <2>1 DEF p
      <4> QED BY <4>1, <4>2
    <3>2. CASE c # p.criterion
      <4>1. /\ Naming(new, c, Len(new)) = Naming(kept, c, n)
            /\ Naming(s, c, k + 1) = Naming(s, c, k)
        BY <1>5, <2>1, <2>2, <3>2
      <4>2. \A j \in Naming(kept, c, n) : new[j] = kept[j]
        BY <2>1, <2>5
      <4> QED BY <4>1, <4>2 DEF KeptRight, n
    <3> QED BY <3>1, <3>2
  <2>7. KeptRight(new, s, k + 1)
    BY <2>1, <2>6 DEF KeptRight
  <2> QED BY <2>7 DEF new, p
<1>8. CASE ~added
  <2>1. new = kept
    BY <1>4, <1>8
  <2>2. p.criterion \in EvaluationCriteria
          => Naming(kept, p.criterion, n) # {}
    BY <1>1, <1>8 DEF Naming
  <2> HIDE DEF new, p, n
  <2>3. ASSUME NEW c \in EvaluationCriteria
        PROVE  LET of == Naming(kept, c, Len(kept))
               IN /\ of = {} <=> Naming(s, c, k + 1) = {}
                  /\ \A i, j \in of : i = j
                  /\ \A i \in Naming(s, c, k + 1), j \in of :
                       (\A h \in Naming(s, c, k + 1) : i <= h)
                         => kept[j].score = Clamp(s[i].score)
    <3>1. CASE c = p.criterion
      <4>1. Naming(s, c, k) # {} /\ Naming(kept, c, Len(kept)) # {}
        BY <2>2, <3>1 DEF KeptRight, n
      <4>2. Naming(s, c, k + 1) = Naming(s, c, k) \cup {k + 1}
        BY <1>5, <3>1
      <4>3. ASSUME NEW i \in Naming(s, c, k + 1),
                   \A h \in Naming(s, c, k + 1) : i <= h
            PROVE  /\ i \in Naming(s, c, k)
                   /\ \A h \in Naming(s, c, k) : i <= h
        <5>1. PICK h \in Naming(s, c, k) : h \in Nat /\ h < k + 1
          BY <1>6, <4>1
        <5>2. i # k + 1
          BY <4>2, <4>3, <5>1
        <5> QED BY <4>2, <4>3, <5>2
      <4> QED BY <4>1, <4>2, <4>3 DEF KeptRight
    <3>2. CASE c # p.criterion
      <4>1. Naming(s, c, k + 1) = Naming(s, c, k)
        BY <1>5, <3>2
      <4> QED BY <4>1 DEF KeptRight
    <3> QED BY <3>1, <3>2
  <2>4. KeptRight(kept, s, k + 1)
    BY <1>1, <2>3 DEF KeptRight
  <2> QED BY <2>1, <2>4 DEF new, p
<1> QED BY <1>7, <1>8

(* Of each criterion the first score is kept.                              *)
LEMMA BreakdownFacts ==
  ASSUME NEW s \in Seq(Score)
  PROVE  KeptRight(CleanBreakdown(s), s, Len(s))
<1>1. Len(s) \in Nat
  OBVIOUS
<1>2. PICK f : KeptBy(s, f, Len(s)) /\ CleanBreakdown(s) = f[Len(s)]
  <2>1. \E f : KeptBy(s, f, Len(s))
    BY <1>1, KeptExists
  <2> QED BY <2>1 DEF KeptBy, CleanBreakdown
<1>3. /\ f[0] = <<>>
      /\ \A i \in 1..Len(s) : f[i] = KeptFirst(f[i - 1], s[i])
  <2> DEFINE Step(i) == IF i = 0 THEN <<>> ELSE KeptFirst(f[i - 1], s[i])
  <2>1. f = [i \in 0..Len(s) |-> Step(i)]
    BY <1>2 DEF KeptBy
  <2>2. /\ 0 \in 0..Len(s)
        /\ \A i \in 1..Len(s) : i \in 0..Len(s) /\ i # 0
    BY <1>1
  <2> HIDE DEF Step
  <2>3. f[0] = Step(0) /\ \A i \in 1..Len(s) : f[i] = Step(i)
    BY <2>1, <2>2
  <2> QED BY <2>2, <2>3 DEF Step
<1> DEFINE B == {k \in Nat : k <= Len(s) /\ ~KeptRight(f[k], s, k)}
<1>4. B = {}
  <2> SUFFICES ASSUME B # {}
               PROVE  FALSE
    OBVIOUS
  <2>1. PICK m \in B : \A k \in B : m <= k
    BY LeastNumber
  <2>2. m \in Nat /\ m <= Len(s) /\ ~KeptRight(f[m], s, m)
    BY <2>1
  <2>3. m # 0
    <3>1. \A c : Naming(<<>>, c, 0) = {} /\ Naming(s, c, 0) = {}
      BY DEF Naming
    <3>2. <<>> \in Seq(Score) /\ Len(<<>>) = 0
      OBVIOUS
    <3>3. KeptRight(<<>>, s, 0)
      BY <3>1, <3>2 DEF KeptRight
    <3> QED BY <1>3, <2>2, <3>3
  <2>4. /\ m - 1 \in Nat /\ ~(m <= m - 1) /\ m - 1 <= Len(s)
        /\ m - 1 < Len(s) /\ m \in 1..Len(s) /\ (m - 1) + 1 = m
    BY <1>1, <2>2, <2>3
  <2>5. m - 1 \notin B
    <3> HIDE DEF B
    <3> QED BY <2>1, <2>4
  <2>6. KeptRight(f[m - 1], s, m - 1)
    BY <2>4, <2>5
  <2>7. KeptRight(KeptFirst(f[m - 1], s[(m - 1) + 1]), s, (m - 1) + 1)
    BY <2>4, <2>6, KeptOneMore
  <2>8. f[m] = KeptFirst(f[m - 1], s[m])
    BY <1>3, <2>4
  <2> QED BY <2>2, <2>4, <2>7, <2>8
<1>5. KeptRight(f[Len(s)], s, Len(s))
  BY <1>1, <1>4
<1> QED BY <1>2, <1>5

(* Nothing a client sends back is rendered out of its bounds.              *)
LEMMA RenderedIsBounded ==
  ASSUME NEW a \in Response
  PROVE  Bounded(RenderEvaluation(a))
<1> DEFINE n == MaxEvaluationItems
           e == RenderEvaluation(a)
           first == Taken(a.breakdown, Range(a.breakdown), n)
           clamped == [i \in DOMAIN first |->
                         [first[i] EXCEPT !.score = Clamp(@)]]
           good == {r \in Range(a.requirements) : r.requirement # Empty}
           strengths == CleanList(a.strengths, n)
           requirements == Taken(a.requirements, good, n)
<1>1. /\ a.overall \in Int /\ a.breakdown \in Seq(Score)
      /\ a.strengths \in Seq(Text)
      /\ a.requirements \in
           Seq([requirement : Text, importance : Text, met : Text])
  BY DEF Response, Score
<1>2. n \in Nat
  BY MatcherAssumption
<1>3. /\ e.overall = Clamp(a.overall) /\ e.breakdown = clamped
      /\ e.strengths = strengths /\ e.requirements = requirements
      /\ e["breakdown"] = clamped /\ e["strengths"] = strengths
      /\ e["requirements"] = requirements
  BY DEF RenderEvaluation
<1> HIDE DEF e, n
<1>4. Clamp(a.overall) \in 0..100
  BY <1>1, ClampFacts
<1>5. first \in Seq(Score) /\ Len(first) <= n
  BY <1>1, <1>2, TakenFacts
<1>6. Len(strengths) <= n
  BY <1>1, <1>2, TakenFacts DEF CleanList
<1>7. Len(requirements) <= n
  <2> HIDE DEF good
  <2> QED BY <1>1, <1>2, TakenFacts
<1> HIDE DEF first, strengths, requirements
<1>8. DOMAIN first = 1..Len(first) /\ Len(first) \in Nat
      /\ \A i \in 1..Len(first) : first[i] \in Score
  BY <1>5
<1>9. /\ DOMAIN clamped = 1..Len(first)
      /\ \A i \in DOMAIN clamped :
           clamped[i] \in Score /\ clamped[i].score \in 0..100
  <2> SUFFICES ASSUME NEW i \in 1..Len(first)
               PROVE  clamped[i] \in Score /\ clamped[i].score \in 0..100
    BY <1>8
  <2> DEFINE x == first[i]
  <2>1. x \in Score /\ clamped[i] = [x EXCEPT !.score = Clamp(@)]
    BY <1>8
  <2>2. Clamp(x.score) \in 0..100 /\ Clamp(x.score) \in Int
    BY <2>1, ClampFacts DEF Score
  <2> HIDE DEF x, clamped
  <2> QED BY <2>1, <2>2 DEF Score
<1>10. Len(clamped) <= n
  <2>1. clamped \in [1..Len(first) -> Score]
    BY <1>8, <1>9
  <2> HIDE DEF clamped
  <2>2. clamped \in Seq(Score)
    BY <1>8, <2>1, SeqDef
  <2>3. DOMAIN clamped = 1..Len(clamped) /\ Len(clamped) \in Nat
    BY <2>2
  <2>4. Len(clamped) = Len(first)
    BY <1>8, <1>9, <2>3
  <2> QED BY <1>5, <2>4
<1> HIDE DEF clamped
<1> QED BY <1>3, <1>4, <1>6, <1>7, <1>9, <1>10 DEF Bounded, n, e

(* What was kept of a match is what the loops kept of its answer.          *)
Matched(a) ==
  [answer |-> a, kept |-> DecodeResponse(a), shown |-> DecodeRequirements(a),
   rendered |-> RenderEvaluation(a)]

MatchInv == match = NULL \/ \E a \in Answers : match = Matched(a)

(* What is kept and shown of any answer is in its bounds, explains the     *)
(* score and has each criterion's first score, and requests and letters    *)
(* stay in their types (matcher.go:164-262, coverletter.go:235-292).       *)
THEOREM MatchesAreRight == LettersSpec => []LettersInv
<1>1. LettersInit => LetterInv /\ MatchInv
  BY DEF LettersInit, LetterInv, OwnIsTheirs, Letter, Idle, MatchInv
<1>2. LetterInv /\ TypeOK /\ MatchInv /\ [LettersNext]_lettersVars
        => (LetterInv /\ MatchInv)'
  <2> SUFFICES ASSUME LetterInv, TypeOK, MatchInv, [LettersNext]_lettersVars
               PROVE  LetterInv' /\ MatchInv'
    OBVIOUS
  <2>1. LetterInv'
    <3>1. UNCHANGED lettersVars => LetterInv'
      BY DEF lettersVars, vars, letterVars, LetterInv, OwnIsTheirs
    <3> QED BY <3>1, LetterStep
  <2>2. match' = match \/ \E a \in Answers : match' = Matched(a)
    BY DEF lettersVars, LettersNext, Account, Create, TooMany, LatestCVText,
           GetProfile, LetterFails, WriteLetter, Match, TimePasses, Matched
  <2> QED BY <2>1, <2>2 DEF MatchInv
<1>3. AccountsInv /\ WindowIInv /\ LetterInv /\ MatchInv => LettersInv
  <2> SUFFICES ASSUME AccountsInv, WindowIInv, LetterInv, MatchInv
               PROVE  LettersInv
    OBVIOUS
  <2>1. ASSUME match # NULL
        PROVE  /\ Bounded(match.rendered)
               /\ ShownExplainsScore /\ FirstScoreKept
    <3>1. PICK a \in Answers : match = Matched(a)
      BY <2>1 DEF MatchInv
    <3>2. a \in Response /\ a.breakdown \in Seq(Score)
      BY AnswersAssumption DEF Response, Score
    <3> DEFINE d == DecodeResponse(a)
               rs == CleanRequirements(a.requirements)
               kept == CleanBreakdown(a.breakdown)
    <3>3. /\ match.answer = a /\ match.kept = d /\ match.shown = rs
          /\ match.rendered = RenderEvaluation(a)
          /\ d.overall = Capped(Clamp(a.overall), rs)
          /\ d.breakdown = kept
      BY <3>1 DEF Matched, DecodeResponse, DecodeRequirements
    <3> HIDE DEF d, rs, kept
    <3>4. ShownExplainsScore
      BY <3>3 DEF ShownExplainsScore, Capped, MissesMustHave, Range
    <3>5. /\ KeptRight(kept, a.breakdown, Len(a.breakdown))
          /\ DOMAIN a.breakdown = 1..Len(a.breakdown)
      BY <3>2, BreakdownFacts DEF kept
    <3>6. DOMAIN kept = 1..Len(kept)
      BY <3>5 DEF KeptRight
    <3>7. ASSUME NEW c \in EvaluationCriteria
          PROVE  LET Of(s) == {i \in DOMAIN s : s[i].criterion = c}
                 IN /\ Of(kept) = {} <=> Of(a.breakdown) = {}
                    /\ \A j, k \in Of(kept) : j = k
                    /\ \A i \in Of(a.breakdown), j \in Of(kept) :
                         (\A h \in Of(a.breakdown) : i <= h)
                           => kept[j].score = Clamp(a.breakdown[i].score)
      <4>1. /\ {i \in DOMAIN kept : kept[i].criterion = c}
                 = Naming(kept, c, Len(kept))
            /\ {i \in DOMAIN a.breakdown : a.breakdown[i].criterion = c}
                 = Naming(a.breakdown, c, Len(a.breakdown))
        BY <3>5, <3>6 DEF Naming
      <4> QED BY <3>5, <4>1 DEF KeptRight
    <3>8. FirstScoreKept
      BY <3>3, <3>7 DEF FirstScoreKept
    <3> QED BY <3>2, <3>3, <3>4, <3>8, RenderedIsBounded
  <2>2. match = NULL => ShownExplainsScore /\ FirstScoreKept
    BY DEF ShownExplainsScore, FirstScoreKept
  <2>3. LettersTypeOK
    BY <2>1 DEF LettersTypeOK, AccountsInv, WindowIInv, LetterInv
  <2> QED BY <2>1, <2>2, <2>3 DEF LettersInv
<1>4. LettersSpec => []WindowIInv
  BY LettersAreLimited, WindowInductive
<1>5. AccountsInv => TypeOK
  BY DEF AccountsInv
<1> QED
  BY <1>1, <1>2, <1>3, <1>4, <1>5, LettersAccounts, PTL DEF LettersSpec
=============================================================================
