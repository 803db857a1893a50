\* Two workers, nobody dies.
CONSTANTS
  Owners = {w1, w2}
  NoOwner = NoOwner
  Operators = {}
  Crashing = {}
  NSteps = 1
  ErrorClasses = {"AUTH_ERROR", "MODEL_FORMAT_ERROR"}
  Ttl = 1
  MaxTime = 2
  MaxVersion = 3
  MaxFailures = 3
SPECIFICATION Spec
PROPERTY StaleWorkerNeverCommits
\* Workers and operators may all be idle for good.
CHECK_DEADLOCK FALSE
