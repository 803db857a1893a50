\* Five independent parts, one at a time.
CONSTANTS
  Parts = {"recovery", "tool", "agent", "factory", "product", "retries"}
  \* ToolCore
  Calls = {k1, k2, k3}
  NoCall = NoCall
  Ttl = 1
  MaxTime = 2
  \* AgentRun
  Requests <- FiveRequests
  Limits = {0, 1, 4}
  MaxTight = 2
  CallCost = 2
  SkepticTools <- ThreeTools
  Handlers = {"risk.honeypot_scan", "contract.audit"}
  \* RecoveryContinuity
  Callers = {w1, w2}
  Backups = {b1}
  Drills = {d1}
  Recovery = r1
  NoSubject = NoSubject
  MaxOps = 4
  \* FactoryMilestone
  Milestones = 2
  MaxPasses = 1
  MaxCycles = 1
  MaxConverge = 2
  MaxPlanner = 1
  MaxReplan = 1
  MaxAudit = 1
  MaxHead = 5
  MaxCrashes = 2
  \* ProductFactory: one thing goes wrong at a time, those handled alike together
  FaultSets = {{"BUDGET"}, {"gaps"}, {"EXTERNAL"}, {"REPAIRABLE"}, {"GIT"}, {"GAP", "SAFETY", "CLOSED", "UNKNOWN"}}
  MaxRounds = 1
  MaxPatch = 1
  MaxCi = 1
  MaxAttempts = 1
  MaxRetries = 1
  MaxTask = 1
  MaxDegraded = 1
  MaxGlobal = 1
  MaxGen = 1
  MaxMain = 2
  MaxTaskHead = 1
  MaxDeaths = 1
SPECIFICATION MCSpec
INVARIANT PartTypeOK
INVARIANT AuditIsTruthful
INVARIANT BudgetsAreKept
INVARIANT ConfirmationIsEarned
PROPERTY ForkIsFinal
PROPERTY FactoryWorkIsSound
PROPERTY RunsAndTransitionsSettle
\* Runs end, callers stop calling, bounds are reached.
CHECK_DEADLOCK FALSE
