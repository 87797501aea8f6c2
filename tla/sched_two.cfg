CONSTANTS
  t1 = t1
  t2 = t2
  u1 = u1
  Task = {t1, t2}
  Tenant = {u1}
  Owner <- MCOwner
  Submissions <- Mixed
  Claimable = {1, 2}
  Reports = {"ok"}
  Horizon = 100
  MinInterval = 1
  MissAfter = 0
  RunDeadline = 1
  Lead = 0
  Day = 3
  MaxTasks = 2
  MaxRunsPerDay = 1
  MaxTime = 3
  MaxPatches = 0
  MaxFaults = 1
SPECIFICATION Spec
SYMMETRY Symmetry
INVARIANTS OneRecordPerOccurrence RecordsHaveTasks BudgetOvershootBounded
PROPERTIES ImplementsLedger
CHECK_DEADLOCK FALSE
