CONSTANTS
  t1 = t1
  t2 = t2
  u1 = u1
  Task = {t1}
  Tenant = {u1}
  Owner <- MCOwner
  Submissions <- OneShots
  Claimable = {1, 2}
  Reports = {"ok"}
  Horizon = 100
  MinInterval = 1
  MissAfter = 0
  RunDeadline = 1
  Lead = 0
  Day = 3
  MaxTasks = 1
  MaxRunsPerDay = 0
  MaxTime = 3
  MaxPatches = 1
  MaxFaults = 1
SPECIFICATION Spec
PROPERTIES ReenablingProducesOccurrence
CHECK_DEADLOCK FALSE
