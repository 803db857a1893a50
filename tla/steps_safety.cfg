\* Two steps, two workers that may die at any statement, one operator of the
\* dead letters.
CONSTANTS
  Owners = {w1, w2}
  NoOwner = NoOwner
  Operators = {o1}
  Crashing = {w1, w2}
  NSteps = 2
  ErrorClasses = {"AUTH_ERROR"}
  Ttl = 1
  MaxTime = 1
  MaxVersion = 2
  MaxFailures = 2
SPECIFICATION Spec
SYMMETRY WorkerSymmetry
INVARIANT SingleExecutor
INVARIANT CompletedRunIsComplete
INVARIANT AttemptKeysAreFresh
PROPERTY CompletedStepIsFinal
\* Workers and operators may all be idle for good.
CHECK_DEADLOCK FALSE
