\* The API: two requests, two passwords, three seconds of two ticks each.
\* The web client: two tabs, two calls, two people; lists of three pages.
\* Three suggestions of two portals.
CONSTANTS
  Request = {q1, q2}
  Password = {p1, p2}
  APIKey = {k1}
  NULL = NULL
  Second = 2
  TokenTTL = 4
  Minute = 1
  MaxTime = 5
  Tab = {t1, t2}
  Person = {ann, bob}
  Call = {c1, c2}
  None = None
  MaxTokens = 2
  f1 = f1
  Filter = {f1, f2, f3}
  MaxPages = 3
  u1 = u1
  URL = {u1, u2}
  Suggestion = {s1, s2, s3}
SYMMETRY Alike
SPECIFICATION MCSpec
INVARIANTS FreshSessionAccepted ClientInv SuggestionInv
PROPERTIES RejectedKeyStaysRejected EndedStaysUnlessOvertaken
PROPERTIES ShownUserIsOwners AcceptedSessionKept
CHECK_DEADLOCK FALSE
