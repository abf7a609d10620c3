\* Two ids, two addresses and a phone; two letters in three ticks; answers of
\* up to four requirements or three scores, of which two and two are kept.
SPECIFICATION LettersSpec
CONSTANTS
  q1 = q1
  q2 = q2
  w1 = w1
  w2 = w2
  a1 = a1
  a2 = a2
  ph = ph
  intl = intl
  short = short
  skills = skills
  domain = domain
  other = other
  Request = {q1, q2}
  UserID = {1, 2}
  Key = {1, 2}
  Address = {a1, a2}
  Phone = {ph}
  Number = {ph, intl, short}
  Short = {short}
  EndsIn <- MCEndsIn
  Blank = Blank
  Empty = Empty
  go = go
  sql = sql
  NULL = NULL
  Limit = 2
  Window = 3
  EvaluationCriteria = {skills, domain}
  MaxRequirements = 2
  MaxListItems = 2
  MaxEvaluationItems = 2
  MustHaveCap = 69
  Writer = {w1, w2}
  Attempts = 2
  Drafts <- MCDrafts
  Answers <- MCAnswers
  Text <- MCText
  Scenarios <- MCScenarios
INVARIANTS SharedOnlyByRace WindowInv LettersInv
PROPERTY LettersNameTheirUser
\* The clock stops and every request is answered.
CHECK_DEADLOCK FALSE
