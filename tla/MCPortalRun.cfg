\* Three pages of at most one posting each, two attempts.
SPECIFICATION FairSpec
CONSTANTS
  r1 = r1
  r2 = r2
  l1 = l1
  l2 = l2
  a = a
  b = b
  c = c
  d = d
  Search = {r1, r2}
  Loop = {l1, l2}
  Caller = {r1, r2, l1, l2}
  Posting = {a, b, c, d}
  Untitled = {d}
  Nameless = {b}
  Scenarios <- MCScenarios
  PageSize = 1
  MaxPages = 3
  PortalAttempts = 2
  PortalBackoff = 1
  Interval = 2
  MaxPenalty = 3
  MaxTime = 3
INVARIANTS SlotsSpaced WaitBounded RunInv
PROPERTIES QuietKept RunsEnd
\* The bounded clock stops and every run ends.
CHECK_DEADLOCK FALSE
