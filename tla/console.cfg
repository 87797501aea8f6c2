CONSTANTS
  None = None
  Secret = {s1, s2}
  Batch = {b1, b2}
  Slot = {i1}
  Challenge = {c1}
  Request = {r1, r2}
  Desk = {d1, d2}
  Drift = 1
  Attempts = 2
  MaxFailures = 1
  MaxStep = 2
SPECIFICATION Spec
SYMMETRY Symmetric
INVARIANTS TypeOK EnrolmentIsProven GuessesPerChallenge
PROPERTIES AppCodesAreGoodOnce
CHECK_DEADLOCK FALSE
