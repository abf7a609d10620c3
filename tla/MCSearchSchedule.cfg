\* Two schedulers and two requests at once on one search, which may be edited
\* twice; a run ends a tick before its lease does.
CONSTANTS
  Scheduler = {s1, s2}
  Request = {q1, q2}
  Intervals = {4, 5}
  NULL = NULL
  RunTimeout = 2
  RunBound = 1
  MaxWrites = 2
  MaxLost = 1
SPECIFICATION FairSpec
INVARIANTS ScheduleInv OneRunUnlessAsked
PROPERTIES NextRunInReach EnabledSearchRuns
