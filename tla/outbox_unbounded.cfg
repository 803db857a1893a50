\* One worker at a time that never dies; the adapter refuses every message.
CONSTANTS
  Halves = {"outbox"}
  Workers = {w1}
  Crashing = {}
  AdapterThrows = FALSE
  MaxRetries = 3
  AvailableAt = 0
  MaxTime = 0
  MaxCalls = 7
  \* AlertLifecycle
  Scores = {10, 20}
  OpportunityTtl = 3
  WatchTtl = 1
  RiskTtl = 3
  Cooldown = 2
  WatchCooldown = 1
  Horizon = 3
SPECIFICATION MCSpec
INVARIANT RetriesStop
CHECK_DEADLOCK FALSE
