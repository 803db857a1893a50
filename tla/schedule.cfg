\* Both uses of the scheduler; FreshExternal is FALSE in the repair use.
CONSTANTS
  Schedules = {s1, s2}
  NoSchedule = NoSchedule
  Repaired = s1
  MaxRepaired = 4
  Admins = {a1}
  Crashing = {a1}
  Attached = {a1}
  Configs = {c1, c2}
  Store = "memory"
  FreshExternal = TRUE
  Reconciling = TRUE
  MaxExternal = 5
  MaxOps = 6
  MaxDrift = 1
SPECIFICATION MCSpec
INVARIANT CrudKeepsInSync
INVARIANT VersionsAreNumbered
INVARIANT ReportsAreComplete
PROPERTY LegalTransitions
PROPERTY ReconcilerConverges
CHECK_DEADLOCK FALSE
