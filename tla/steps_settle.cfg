\* Two workers that do not die and an operator that may die half-way through a
\* retry and try again.
CONSTANTS
  Owners = {w1, w2}
  NoOwner = NoOwner
  Operators = {o1}
  Crashing = {o1}
  NSteps = 1
  ErrorClasses = {"OTHER"}
  Ttl = 1
  MaxTime = 1
  MaxVersion = 2
  MaxFailures = 4
SPECIFICATION FairSpec
INVARIANT RetriesAreBounded
INVARIANT DeadLetterIsListed
PROPERTY ClaimedStepSettles
\* A finished run leaves its workers idle.
CHECK_DEADLOCK FALSE
