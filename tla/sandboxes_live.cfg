CONSTANTS
  Tenant = {u1}
  Box = {b1}
  Request = {r1, r2}
  Kinds = {"tunnel"}
  None = None
  MaxFaults = 2
SPECIFICATION FairSpec
PROPERTIES EveryRequestIsAnswered DepartedLoseTheirMachine DeadRecordsGo
CHECK_DEADLOCK FALSE
