------------------------------ MODULE MCLetters ------------------------------
(***************************************************************************)
(* Letters in four situations: two account requests; a letter while the    *)
(* profile of its user changes; two letter requests of two users against   *)
(* the clock; and matches.                                                 *)
(***************************************************************************)
EXTENDS Letters

CONSTANTS q1, q2, w1, w2, a1, a2, ph, intl, short,
  skills, domain, other, go, sql

User(i, a) ==
  [id |-> i, email |-> [address |-> a, written |-> "canonical"],
   phone |-> Blank]

Nobody ==
  [requests |-> {}, writers |-> {}, users |-> {}, time |-> 0,
   matches |-> FALSE]

MCDrafts ==
  {[contacts |-> {}, fails |-> TRUE],
   [contacts |-> {a1, intl, short}, fails |-> FALSE],
   [contacts |-> {a2, short}, fails |-> FALSE]}

(* intl is ph with its country code, and short its last digits.            *)
MCEndsIn ==
  {<<n, n>> : n \in Number} \cup {<<intl, ph>>, <<intl, short>>, <<ph, short>>}

Requirement(text, importance, met) ==
  [requirement |-> text, importance |-> importance, met |-> met]

Some ==
  {Requirement(go, "must", "no"), Requirement(go, "nice", "no"),
   Requirement(sql, "must", "partial"), Requirement(Empty, "must", "no"),
   Requirement(sql, "maybe", "no")}

MCText ==
  {Empty, skills, domain, other, go, sql, "must", "nice", "maybe", "no",
   "partial"}

Scores == {-5, 40, 70, 140}

Answer(score, breakdown, requirements) ==
  [overall |-> score, breakdown |-> breakdown,
   strengths |-> <<go, Empty, sql, go>>, requirements |-> requirements]

MCAnswers ==
  {Answer(n, <<>>, rs) : n \in Scores, rs \in SeqOf(Some, 4)}
  \cup {Answer(70, bs, <<>>) :
          bs \in SeqOf([criterion : {skills, domain, other},
                        score : {-5, 40, 140}], 3)}

MCScenarios ==
  {[Nobody EXCEPT !.requests = {q1, q2}],
   [Nobody EXCEPT !.requests = {q1}, !.writers = {w1},
                  !.users = {User(1, a1)}],
   [Nobody EXCEPT !.writers = {w1, w2}, !.time = 4,
                  !.users = {User(1, a1), User(2, a2)}],
   [Nobody EXCEPT !.matches = TRUE]}
=============================================================================
