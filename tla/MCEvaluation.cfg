\* One result, two loops and two CVs, one of which may be uploaded, deleted
\* or still on its way at any point of a step.
CONSTANTS
  Result = {r1}
  Worker = {w1, w2}
  Score = {0, 70}
  NULL = NULL
  StaleTimeout = 1
  StepBound = 1
  MaxAttempts = 4
  BaseBackoff = 1
  MaxBackoff = 2
  NoCVRetry = 2
  MaxUploads = 2
  MaxRequests = 2
  MaxLost = 1
  MaxCancelled = 1
SPECIFICATION FairSpec
INVARIANTS TypeOK OneEvaluator ScoreIsCurrent DeletedStaysDeleted
PROPERTIES NewerCVPrevails ImplementsLifecycle EvaluationSettles
