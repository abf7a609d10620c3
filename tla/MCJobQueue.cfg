\* Two loops and two postings; a step may last as long as the stale timeout
\* and no longer.  A first retry waits one tick, later ones are capped at one.
CONSTANTS
  Job = {j1, j2}
  Worker = {w1, w2}
  Text = {t1, t2}
  NULL = NULL
  StaleTimeout = 1
  StepBound = 1
  MaxAttempts = 3
  BaseBackoff = 1
  MaxBackoff = 1
  MaxLost = 1
  MaxCancelled = 1
SPECIFICATION FairSpec
INVARIANTS TypeOK ClaimExclusion ClaimUndisturbed EmbeddingMatchesDetail
PROPERTIES EmbeddedIsFinal DescriptionKept ImplementsLifecycle JobSettles
