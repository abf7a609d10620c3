------------------------------- MODULE Accounts -------------------------------
(***************************************************************************)
(* Who holds which email address and phone number: signups and profile     *)
(* updates in flight at once over the users table (services/users, with    *)
(* the checks of servers/auth and servers/account).                        *)
(*                                                                         *)
(* A signup looks for the address and inserts its row in two statements.   *)
(* A profile update locks its own row, looks for the email, then for the   *)
(* phone, and writes, in one transaction each of whose statements reads    *)
(* what is committed when it runs.  No index of the table is unique.  An   *)
(* email is an address and the way it is written: the code trims and       *)
(* lowercases it before it is looked up or stored.                         *)
(***************************************************************************)
EXTENDS Integers, FiniteSets

CONSTANTS
  Request,       \* requests that can be in flight at once
  UserID,        \* ids of users, in the order they were made
  Address,       \* email addresses
  Phone, Blank,  \* phone numbers, and none
  NULL

ASSUME IdAssumption == UserID \subseteq Nat /\ IsFiniteSet(UserID)
ASSUME BlankAssumption == Blank \notin Phone /\ Blank \notin Address
ASSUME NullAssumption == NULL \notin Request

VARIABLES
  users,    \* the users table, a set of at most one row per id
  rowLock,  \* the request that has locked a row
  request,  \* what each request in flight holds
  raced     \* addresses written after another write overtook their check

vars == <<users, rowLock, request, raced>>

Emails == [address : Address \cup {Blank}, written : {"canonical", "other"}]
Phones == Phone \cup {Blank}

Rows == [id : UserID, email : Emails, phone : Phones]
Idle == [at |-> "idle"]

(* The next statement of a profile update that has locked its row.         *)
Updating == {"email", "phone", "write"}

Requests ==
  {Idle} \cup [at : {"insert"}, email : Emails, phone : Phones,
               overtaken : SUBSET Address]
  \cup [at : Updating, id : UserID, asks : SUBSET {"email", "phone"},
        email : Emails, phone : Phones, overtaken : SUBSET Address]

TypeOK ==
  /\ users \subseteq Rows
  /\ \A u, v \in users : u.id = v.id => u = v
  /\ rowLock \in [UserID -> Request \cup {NULL}]
  /\ request \in [Request -> Requests]
  /\ raced \subseteq Address

Init ==
  /\ users = {}
  /\ rowLock = [i \in UserID |-> NULL]
  /\ request = [q \in Request |-> Idle]
  /\ raced = {}

-----------------------------------------------------------------------------
(* Checks.                                                                 *)

Normalised(email) == [email EXCEPT !.written = "canonical"]

ValidEmail(email) == email.address # Blank

MatchingBoth(email, phone) ==
  {u \in users : u.email = email /\ phone # Blank /\ u.phone = phone}
(* createUser: a row with the email or the phone refuses the signup.       *)
Matching(email, phone) ==
  {u \in users : u.email = email \/ (phone # Blank /\ u.phone = phone)}

(* UpdateProfile: the email is looked at before the phone, each only when  *)
(* it changes, and neither among the user's own rows.                      *)
Others(i) == {u \in users : u.id # i}
EmailTaken(row, email) ==
  /\ email # row.email
  /\ \E u \in Others(row.id) : u.email = email
PhoneTaken(row, phone) ==
  /\ phone # Blank
  /\ phone # row.phone
  /\ \E u \in Others(row.id) : u.phone = phone

-----------------------------------------------------------------------------
(* Steps.  A signup that is refused changes nothing and is left out; an    *)
(* update that is refused rolls back, and Fails.                           *)

(* History: the check of every other request under way is now older than a *)
(* write of this address.  One that has yet to check forgets it then.      *)
Overtakes(q, a) ==
  /\ request' = [p \in Request |->
       IF p = q THEN Idle
       ELSE IF request[p] = Idle THEN Idle
       ELSE [request[p] EXCEPT !.overtaken = @ \cup {a}]]
  /\ raced' = IF a \in request[q].overtaken THEN raced \cup {a} ELSE raced

Signup(q, email, phone) ==
  /\ request[q] = Idle
  /\ ValidEmail(email)
  /\ Matching(Normalised(email), phone) = {}
  /\ request' = [request EXCEPT ![q] =
       [at |-> "insert", email |-> Normalised(email), phone |-> phone,
        overtaken |-> {}]]
  /\ UNCHANGED <<users, rowLock, raced>>

InsertUser(q, i) ==
  /\ request[q].at = "insert"
  /\ \A u \in users : u.id # i
  /\ users' = users \cup
       {[id |-> i, email |-> request[q].email, phone |-> request[q].phone]}
  /\ Overtakes(q, request[q].email.address)
  /\ UNCHANGED rowLock

LockRow(q, i) ==
  /\ rowLock[i] = NULL
  /\ rowLock' = [rowLock EXCEPT ![i] = q]

UpdateProfile(q, row, asks, email, phone) ==
  /\ request[q] = Idle
  /\ "email" \in asks => ValidEmail(email)
  /\ LockRow(q, row.id)
  /\ request' = [request EXCEPT ![q] =
       [at |-> "email", id |-> row.id, asks |-> asks,
        email |-> Normalised(email), phone |-> phone, overtaken |-> {}]]
  /\ UNCHANGED <<users, raced>>

(* The row as the request locked it, which is how it still is.             *)
Row(r) == CHOOSE u \in users : u.id = r.id

CheckEmail(q) ==
  LET r == request[q]
  IN /\ r.at = "email"
     /\ "email" \in r.asks => ~EmailTaken(Row(r), r.email)
     /\ request' = [request EXCEPT ![q] =
          [r EXCEPT !.at = "phone", !.overtaken = {}]]
     /\ UNCHANGED <<users, rowLock, raced>>

CheckPhone(q) ==
  LET r == request[q]
  IN /\ r.at = "phone"
     /\ "phone" \in r.asks => ~PhoneTaken(Row(r), r.phone)
     /\ request' = [request EXCEPT ![q] = [r EXCEPT !.at = "write"]]
     /\ UNCHANGED <<users, rowLock, raced>>

(* Only the columns the request names are in the UPDATE.                   *)
Updated(row, r) ==
  [row EXCEPT !.email = IF "email" \in r.asks THEN r.email ELSE @,
              !.phone = IF "phone" \in r.asks THEN r.phone ELSE @]

WriteProfile(q) ==
  /\ request[q].at = "write"
  /\ LET r == request[q]
     IN /\ users' = Others(r.id) \cup {Updated(Row(r), r)}
        /\ rowLock' = [rowLock EXCEPT ![r.id] = NULL]
        /\ IF "email" \in r.asks THEN Overtakes(q, r.email.address)
           ELSE /\ request' = [request EXCEPT ![q] = Idle]
                /\ UNCHANGED raced

(* A statement fails or the client goes away: the transaction rolls back.  *)
Fails(q) ==
  /\ request[q] # Idle
  /\ rowLock' = [i \in UserID |-> IF rowLock[i] = q THEN NULL ELSE rowLock[i]]
  /\ request' = [request EXCEPT ![q] = Idle]
  /\ UNCHANGED <<users, raced>>

(* The account is deleted, which takes the lock on its row too.            *)
DeleteUser(q, row) ==
  /\ request[q] = Idle
  /\ rowLock[row.id] = NULL
  /\ users' = users \ {row}
  /\ UNCHANGED <<rowLock, request, raced>>

RequestSteps(q) ==
  \/ \E e \in Emails, p \in Phones :
       \/ Signup(q, e, p)
       \/ \E row \in users, asks \in SUBSET {"email", "phone"} \ {{}} :
            UpdateProfile(q, row, asks, e, p)
  \/ \E i \in UserID : InsertUser(q, i)
  \/ CheckEmail(q) \/ CheckPhone(q) \/ WriteProfile(q) \/ Fails(q)
  \/ \E row \in users : DeleteUser(q, row)

Next == \E q \in Request : RequestSteps(q)

Spec == Init /\ [][Next]_vars

-----------------------------------------------------------------------------
(* Properties.                                                             *)

(* Two accounts share an address only when the later one's check was       *)
(* overtaken by the other's write: no sequence of requests that do not     *)
(* overlap, in whatever spelling, gets there (users/user.go:302-345,       *)
(* users/account.go:59-72).                                                *)
SharedOnlyByRace ==
  \A u, v \in users :
    u.email.address = v.email.address /\ u.id # v.id
      => u.email.address \in raced

(* Everybody can sign in: Signin looks for the canonical spelling, so that *)
(* is what every row holds (users/user.go:101-110).                        *)
SignInFindsEverybody == \A u \in users : u.email.written = "canonical"

(* The row of a profile update under way is there, and nobody else changes *)
(* it meanwhile: what its checks saw of it is what it replaces             *)
(* (users/account.go:43-53).                                               *)
LockedRowStays ==
  [][\A q \in Request :
       request[q].at \in Updating =>
         /\ \E u \in users : u.id = request[q].id
         /\ request'[q] # Idle =>
              \A u \in users : u.id = request[q].id => u \in users']_vars
=============================================================================
