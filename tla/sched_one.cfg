CONSTANTS
  t1 = t1
  t2 = t2
  u1 = u1
  Task = {t1}
  Tenant = {u1}
  Owner <- MCOwner
  Submissions <- Interval
  Claimable = {1, 2}
  Reports = {"ok"}
  Horizon = 100
  MinInterval = 1
  MissAfter = 0
  RunDeadline = 1
  Lead = 0
  Day = 3
  MaxTasks = 1
  MaxRunsPerDay = 0
  MaxTime = 2
  MaxPatches = 1
  MaxFaults = 1
SPECIFICATION FairSpec
INVARIANTS TypeOK
PROPERTIES WriteOffLeavesMovedSeries NothingStaysDue ClaimsAreClosed
CHECK_DEADLOCK FALSE
