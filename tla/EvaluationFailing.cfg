\* MCEvaluation's instance without crashes and shutdowns: a failed attempt at a
\* re-evaluation is enough.
CONSTANTS
  Result = {r1}
  Worker = {w1, w2}
  Score = {0, 70}
  NULL = NULL
  StaleTimeout = 1
  StepBound = 1
  MaxAttempts = 4
  BaseBackoff = 1
  MaxBackoff = 2
  NoCVRetry = 2
  MaxUploads = 2
  MaxRequests = 2
  MaxLost = 0
  MaxCancelled = 0
SPECIFICATION Spec
PROPERTY ScoreKeptMeanwhile
