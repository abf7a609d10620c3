\* One scheduler and one update, with a deletion between its read and its
\* write.
CONSTANTS
  Scheduler = {s1}
  Request = {q1}
  Intervals = {4, 5}
  NULL = NULL
  RunTimeout = 2
  RunBound = 1
  MaxWrites = 2
  MaxLost = 0
SPECIFICATION Spec
PROPERTY DeletedIsFinal
