SPECIFICATION FairSpec
CONSTANTS
  Read = {q1, q2}
  None = None
  MaxChanges = 2
  MaxMachines = 2
  MaxFrames = 2
  MaxDials = 2
  MaxFaults = 2
INVARIANTS TypeOK PagesAreBeingTold
PROPERTIES PagesCatchUp
CHECK_DEADLOCK FALSE
