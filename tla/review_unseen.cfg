\* The autopilot alone: is an accepted review commit recognised?
CONSTANTS
  Paths = {"autopilot"}
  t1 = t1
  t2 = t2
  c1 = c1
  c2 = c2
  \* FactoryTick
  Checks = {ci}
  Required = {ci}
  MaxHead = 2
  MaxCommands = 3
  MaxCrashes = 1
  \* TaskDelivery
  Tasks = {t1, t2}
  DependsOn <- ChainedTasks
  SharesLock = {}
  Overlap = FALSE
  Ttl = 1
  MaxTime = 1
  MaxVersion = 2
  MaxRev = 2
  MaxQueue = 1
  MaxCluster = 2
  MaxDeaths = 1
  \* Orchestrator
  ClusterOrder <- TwoClusters
  TaskOrder <- TwoTasks
  ClusterOf <- ClusterOfTask
  Projects <- SmallProjects
  PushInWindow = FALSE
  MaxCommits = 6
  MaxRepairs = 1
  MaxCorrections = 1
  MaxEvents = 3
  \* FactoryPackage
  MaxTask = 1
  MaxLiveness = 0
  MaxRestores = 0
  MaxCi = 1
  MaxInfra = 0
  MaxReview = 1
  MaxIntegration = 1
  MaxEpochs = 0
  MaxTries = 2
  MaxPushes = 2
  MaxReviews = 2
  MaxRaises = 1
SPECIFICATION MCSpec
INVARIANT ReviewIsRecognised
\* The path may come to rest.
CHECK_DEADLOCK FALSE
