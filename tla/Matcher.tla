------------------------------- MODULE Matcher -------------------------------
(***************************************************************************)
(* What is kept of an LLM's answer about a CV and a job (services/matcher, *)
(* decodeResponse) and what of that a cover letter's prompt shows          *)
(* (services/coverletter, renderEvaluation).  Texts are model values,      *)
(* trimmed and lowercased already; Empty is the empty one.                 *)
(***************************************************************************)
EXTENDS Integers, Sequences, SequencesExt

CONSTANTS
  EvaluationCriteria,
  MaxRequirements, MaxListItems, MaxEvaluationItems,
  MustHaveCap,
  Text,  \* texts that occur in an answer
  Empty

ASSUME MatcherAssumption ==
  /\ {MaxRequirements, MaxListItems, MaxEvaluationItems} \subseteq Nat \ {0}
  /\ MustHaveCap \in 0..100

(* What an answer says that is kept or shown.                              *)
Response ==
  [overall : Int, breakdown : Seq([criterion : Text, score : Int]),
   strengths : Seq(Text),
   requirements : Seq([requirement : Text, importance : Text, met : Text])]

Clamp(n) == IF n < 0 THEN 0 ELSE IF n > 100 THEN 100 ELSE n

(* One after another, up to n of those that are good.                      *)
Taken(s, good, n) ==
  LET taken[i \in 0..Len(s)] ==
        IF i = 0 THEN <<>>
        ELSE IF s[i] \in good /\ Len(taken[i - 1]) < n
             THEN Append(taken[i - 1], s[i]) ELSE taken[i - 1]
  IN taken[Len(s)]

WellFormed(r) ==
  /\ r.requirement # Empty
  /\ r.importance \in {"must", "nice"}
  /\ r.met \in {"yes", "partial", "no"}

CleanRequirements(rs) ==
  Taken(rs, {r \in Range(rs) : WellFormed(r)}, MaxRequirements)

CleanList(items, n) == Taken(items, Range(items) \ {Empty}, n)

KeptLast(kept, s) ==
  IF s.criterion \notin EvaluationCriteria THEN kept
  ELSE Append(SelectSeq(kept, LAMBDA t : t.criterion # s.criterion),
              [s EXCEPT !.score = Clamp(@)])
KeptFirst(kept, s) ==
  IF s.criterion \in EvaluationCriteria
       /\ \A i \in DOMAIN kept : kept[i].criterion # s.criterion
  THEN Append(kept, [s EXCEPT !.score = Clamp(@)])
  ELSE kept

CleanBreakdown(scores) ==
  LET kept[i \in 0..Len(scores)] ==
        IF i = 0 THEN <<>> ELSE KeptFirst(kept[i - 1], scores[i])
  IN kept[Len(scores)]

MissesFirst(rs) ==
  rs # <<>> /\ rs[1].importance = "must" /\ rs[1].met = "no"
MissesMustHave(rs) ==
  \E i \in DOMAIN rs : rs[i].importance = "must" /\ rs[i].met = "no"

Capped(score, rs) ==
  IF MissesMustHave(rs) /\ score > MustHaveCap THEN MustHaveCap ELSE score

DecodeResponse(a) ==
  LET requirements == CleanRequirements(a.requirements)
  IN [overall |-> Capped(Clamp(a.overall), requirements),
      breakdown |-> CleanBreakdown(a.breakdown),
      strengths |-> CleanList(a.strengths, MaxListItems),
      requirements |-> requirements]

(* What a result's detail shows of the stored answer.                      *)
DecodeRequirements(a) == CleanRequirements(a.requirements)

(* The evaluation comes back from the client and may hold anything.        *)
RenderEvaluation(e) ==
  [overall |-> Clamp(e.overall),
   breakdown |->
     LET first == Taken(e.breakdown, Range(e.breakdown), MaxEvaluationItems)
     IN [i \in DOMAIN first |-> [first[i] EXCEPT !.score = Clamp(@)]],
   strengths |-> CleanList(e.strengths, MaxEvaluationItems),
   requirements |->
     Taken(e.requirements,
           {r \in Range(e.requirements) : r.requirement # Empty},
           MaxEvaluationItems)]
=============================================================================
