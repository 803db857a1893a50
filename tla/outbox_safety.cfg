\* Three workers that may die, an adapter that may throw.
CONSTANTS
  Halves = {"outbox", "lifecycle"}
  Workers = {w1, w2, w3}
  Crashing = {w1, w2, w3}
  AdapterThrows = TRUE
  MaxRetries = 3
  AvailableAt = 1
  MaxTime = 2
  MaxCalls = 7
  \* AlertLifecycle
  Scores = {10, 20}
  OpportunityTtl = 3
  WatchTtl = 1
  RiskTtl = 3
  Cooldown = 2
  WatchCooldown = 1
  Horizon = 3
SPECIFICATION MCSpec
SYMMETRY WorkerSymmetry
INVARIANT DeliveredWasSent
INVARIANT SentOnlyWhenDue
INVARIANT AttemptsAreCalls
INVARIANT AlertsStayTrue
