------------------------------- MODULE Letters -------------------------------
(***************************************************************************)
(* Cover letters (services/coverletter, POST /match/cover-letter) and      *)
(* quick matches (services/matcher, servers/match) over the Accounts whose *)
(* profiles the letters are signed from, limited by a SlidingWindow.       *)
(*                                                                         *)
(* A letter is checked against the profile as it was read, and the LLM     *)
(* takes its time to write it.  A draft is what the checks can tell of it: *)
(* the email addresses, whatever their case, and the phone numbers it      *)
(* names, and whether another check fails.                                 *)
(***************************************************************************)
EXTENDS Accounts, SlidingWindow, Matcher

CONSTANTS
  Writer,    \* letter requests that can be in flight at once
  Number,    \* what a draft may have in the way of phone numbers
  Short,     \* those of fewer than eight digits, which are not looked at
  EndsIn,    \* pairs of numbers, the digits of one ending in the other's
  Attempts,  \* letters asked for: the first and one revision
  Drafts,    \* what the LLM may write
  Answers,   \* what the LLM may answer to a match, or a client send back
  Scenarios  \* who takes part, the first users, and the bound of the clock

Contact == Address \cup Number

ASSUME NumberAssumption ==
  /\ Phone \subseteq Number /\ Blank \notin Number /\ Short \subseteq Number
  /\ EndsIn \subseteq Number \X Number
  /\ \A n \in Number : <<n, n>> \in EndsIn

ASSUME DraftAssumption ==
  Drafts \subseteq [contacts : SUBSET Contact, fails : BOOLEAN]
ASSUME AnswersAssumption == Answers \subseteq Response
ASSUME AttemptsAssumption == Attempts \in Nat \ {0}
ASSUME KeyAssumption == Key = UserID

(* A scenario begins with users who signed up one after the other.         *)
ASSUME ScenariosAssumption ==
  \A s \in Scenarios :
    /\ s.requests \subseteq Request /\ s.writers \subseteq Writer
    /\ s.users \subseteq Rows
    /\ \A u, v \in s.users :
         u.id = v.id \/ u.email.address = v.email.address => u = v
    /\ \A u \in s.users : u.email.written = "canonical"

VARIABLES
  here,    \* the scenario
  letter,  \* what each letter request in flight holds
  sent,    \* the last letter each of them was answered with
  match    \* an LLM's answer to a match and what was kept and shown of it

letterVars == <<letter, sent>>
lettersVars == <<vars, windowVars, here, letterVars, match>>

Letter ==
  {Idle} \cup [at : {"cv", "profile"}, user : UserID]
  \cup [at : {"write"}, user : UserID,
        own : [email : Address \cup {Blank}, phone : Phones],
        attempt : 1..Attempts, moved : BOOLEAN]

Bounded(e) ==
  /\ e.overall \in 0..100
  /\ \A i \in DOMAIN e.breakdown : e.breakdown[i].score \in 0..100
  /\ \A field \in {"breakdown", "strengths", "requirements"} :
       Len(e[field]) <= MaxEvaluationItems

LettersTypeOK ==
  /\ TypeOK /\ WindowTypeOK
  /\ here \in Scenarios
  /\ letter \in [Writer -> Letter]
  /\ sent \in [Writer ->
       {NULL} \cup [user : UserID, contacts : SUBSET Contact, moved : BOOLEAN]]
  /\ match # NULL => Bounded(match.rendered)

LettersInit ==
  /\ here \in Scenarios
  /\ users = here.users
  /\ rowLock = [i \in UserID |-> NULL]
  /\ request = [q \in Request |-> Idle]
  /\ raced = {}
  /\ WindowInit
  /\ letter = [w \in Writer |-> Idle]
  /\ sent = [w \in Writer |-> NULL]
  /\ match = NULL

-----------------------------------------------------------------------------
(* A letter.                                                               *)

Turns(w, v) == letter' = [letter EXCEPT ![w] = v]

(* A well-formed request of a user counts, whatever becomes of it.         *)
Create(w, i, sweeps) ==
  /\ letter[w] = Idle
  /\ \E u \in users : u.id = i
  /\ Allow(i, sweeps)
  /\ Turns(w, [at |-> "cv", user |-> i])
  /\ sent' = [sent EXCEPT ![w] = NULL]
  /\ UNCHANGED <<vars, here, match>>

TooMany(w, i, sweeps) ==
  /\ letter[w] = Idle
  /\ \E u \in users : u.id = i
  /\ Refuse(i, sweeps)
  /\ UNCHANGED <<vars, here, letterVars, match>>

LatestCVText(w) ==
  /\ letter[w].at = "cv"
  /\ Turns(w, [letter[w] EXCEPT !.at = "profile"])
  /\ UNCHANGED <<vars, windowVars, here, sent, match>>

GetProfile(w) ==
  /\ letter[w].at = "profile"
  /\ \E u \in users :
       /\ u.id = letter[w].user
       /\ Turns(w, [at |-> "write", user |-> u.id,
                    own |-> [email |-> u.email.address, phone |-> u.phone],
                    attempt |-> 1, moved |-> FALSE])
  /\ UNCHANGED <<vars, windowVars, here, sent, match>>

(* The same number with or without a country code.  Blank ends in nothing. *)
SamePhone(found, own) ==
  /\ found \notin Short /\ own \notin Short
  /\ <<found, own>> \in EndsIn \/ <<own, found>> \in EndsIn

(* CheckContact finds these, and the other checks whether the draft fails. *)
Foreign(contacts, own) ==
  {a \in contacts \cap Address : a # own.email}
    \cup {n \in (contacts \cap Number) \ Short : ~SamePhone(n, own.phone)}

PassesFirst(l, d) ==
  (l.attempt = 1 => Foreign(d.contacts, l.own) = {}) /\ ~d.fails
Passes(l, d) == Foreign(d.contacts, l.own) = {} /\ ~d.fails

WriteLetter(w, d) ==
  /\ letter[w].at = "write"
  /\ LET l == letter[w]
     IN IF Passes(l, d)
        THEN /\ sent' = [sent EXCEPT ![w] =
                  [user |-> l.user, contacts |-> d.contacts,
                   moved |-> l.moved]]
             /\ Turns(w, Idle)
        ELSE /\ IF l.attempt < Attempts
                THEN Turns(w, [l EXCEPT !.attempt = @ + 1])
                ELSE Turns(w, Idle)
             /\ UNCHANGED sent
  /\ UNCHANGED <<vars, windowVars, here, match>>

(* No CV, no account any more, no answer from the LLM, or the client left. *)
LetterFails(w) ==
  /\ letter[w] # Idle
  /\ Turns(w, Idle)
  /\ UNCHANGED <<vars, windowVars, here, sent, match>>

-----------------------------------------------------------------------------
(* Quick matches, the accounts and time.                                   *)

Match(a) ==
  /\ match' = [answer |-> a, kept |-> DecodeResponse(a),
               shown |-> DecodeRequirements(a),
               rendered |-> RenderEvaluation(a)]
  /\ UNCHANGED <<vars, windowVars, here, letterVars>>

RowsIn(table, i) == {u \in table : u.id = i}

Account(q) ==
  /\ RequestSteps(q)
  /\ letter' = [w \in Writer |->
       IF letter[w].at = "write"
            /\ RowsIn(users', letter[w].user) # RowsIn(users, letter[w].user)
       THEN [letter[w] EXCEPT !.moved = TRUE]
       ELSE letter[w]]
  /\ UNCHANGED <<windowVars, here, sent, match>>

TimePasses ==
  /\ clock < here.time
  /\ Pass
  /\ UNCHANGED <<vars, here, letterVars, match>>

LettersNext ==
  \/ \E q \in here.requests : Account(q)
  \/ \E w \in here.writers :
       \/ \E i \in UserID, sweeps \in BOOLEAN :
            Create(w, i, sweeps) \/ TooMany(w, i, sweeps)
       \/ LatestCVText(w) \/ GetProfile(w) \/ LetterFails(w)
       \/ \E d \in Drafts : WriteLetter(w, d)
  \/ here.matches /\ match = NULL /\ \E a \in Answers : Match(a)
  \/ TimePasses

LettersSpec == LettersInit /\ [][LettersNext]_lettersVars

-----------------------------------------------------------------------------
(* Properties.                                                             *)

(* A letter names no email address or phone number but those its user has  *)
(* at the moment it is sent, the number with or without its country code,  *)
(* whichever attempt wrote it, unless the profile changed under way        *)
(* (coverletter.go:115-181, checks.go:93-108).                             *)
LettersNameTheirUser ==
  [][\A w \in Writer :
       LET s == sent'[w]
       IN s # sent[w] /\ s # NULL =>
            s.moved \/ \E u \in users :
              /\ u.id = s.user
              /\ \A c \in s.contacts :
                   \/ c = u.email.address
                   \/ c \in Short
                   \/ u.phone # Blank /\ SamePhone(c, u.phone)]_lettersVars

(* The requirements a result shows, read again from the stored answer,     *)
(* account for its score: it is the LLM's within 0 and 100, or the cap     *)
(* when one of those shown is a must-have that is missing                  *)
(* (matcher.go:164-262).                                                   *)
ShownExplainsScore ==
  match # NULL =>
    match.kept.overall =
      LET score == Clamp(match.answer.overall)
          capped == \E r \in Range(match.shown) :
                      r.importance = "must" /\ r.met = "no"
      IN IF capped /\ score > MustHaveCap THEN MustHaveCap ELSE score

(* Each criterion the LLM scored is kept once, with its first score        *)
(* (matcher.go:176-187).                                                   *)
FirstScoreKept ==
  match # NULL =>
    \A c \in EvaluationCriteria :
      LET answer == match.answer.breakdown
          kept == match.kept.breakdown
          Of(s) == {i \in DOMAIN s : s[i].criterion = c}
      IN /\ Of(kept) = {} <=> Of(answer) = {}
         /\ \A j, k \in Of(kept) : j = k
         /\ \A i \in Of(answer), j \in Of(kept) :
              (\A h \in Of(answer) : i <= h)
                => kept[j].score = Clamp(answer[i].score)

(* What is kept and shown of an LLM's answer is in its bounds and explains *)
(* the score (matcher.go:164-262).                                         *)
LettersInv == LettersTypeOK /\ ShownExplainsScore /\ FirstScoreKept
=============================================================================
