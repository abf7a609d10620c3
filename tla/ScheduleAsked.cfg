\* One scheduler and one request at a time: the user asks for a run while one
\* is in progress.
CONSTANTS
  Scheduler = {s1}
  Request = {q1}
  Intervals = {4, 5}
  NULL = NULL
  RunTimeout = 2
  RunBound = 1
  MaxWrites = 2
  MaxLost = 0
SPECIFICATION Spec
INVARIANT AskedRunKept
