\* A step may outlast the stale timeout: waiting for a portal's next slot is
\* part of the step, and the limiter's penalty alone may exceed the timeout.
CONSTANTS
  Job = {j1}
  Worker = {w1, w2}
  Text = {t1}
  NULL = NULL
  StaleTimeout = 1
  StepBound = 3
  MaxAttempts = 3
  BaseBackoff = 1
  MaxBackoff = 1
  MaxLost = 0
  MaxCancelled = 0
SPECIFICATION Spec
PROPERTY EmbeddedIsFinal
