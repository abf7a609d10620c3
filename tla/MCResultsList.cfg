\* A walk beside a triage or a claim; a summary beside a triage; two details.
CONSTANTS
  s1 = s1
  s2 = s2
  ResultID = {1, 2, 3}
  Search = {s1, s2}
  Reader = {r1}
  Triager = {t1}
  Scores = {79, 80}
  StrongScore = 80
  Times = {1, 2}
  WeekStart = 2
  Limit = 1
  Triages <- MCTriages
  MaxOutcomes = 2
  Findable <- MCFindable
  Asked <- MCAsked
  OnCriterion <- MCOnCriterion
  Scenarios = {{"walk", t1}, {"walk", "queue"}, {"summary", t1}, {r1, t1}}
  NULL = NULL
SPECIFICATION Spec
INVARIANTS WalkInv AnswersAgree
CHECK_DEADLOCK FALSE
