CONSTANTS
  t1 = t1
  u1 = u1
  Task = {t1}
  Tenant = {u1}
  Owner <- MCOwner
  Submissions <- Cron
  Claimable = {}
  Reports = {"ok"}
  Horizon = 100
  MinInterval = 1
  MissAfter = 0
  RunDeadline = 2
  Lead = 0
  Day = 3
  MaxTasks = 0
  MaxRunsPerDay = 0
  RunTimeout = 1
  Refresh = 2
  StaleAfter = 4
  MaxTimer = 7
  MaxExtras = 1
  MaxTime = 8
  MaxPatches = 1
  MaxFaults = 1
SPECIFICATION PluginSpec
INVARIANTS PluginTypeOK NothingListedIsOverslept LiveTurnsAreOpen
PROPERTIES OneTurnPerOccurrence MissesAreExcused
CHECK_DEADLOCK FALSE
