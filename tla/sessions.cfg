SPECIFICATION Spec
CONSTANTS
  Email = {e1}
  Founder = {e1}
  Key = {k1, k2}
  None = None
  Request = {r1, r2}
  Operator = {o1}
  MaxTokens = 3
  Try = {s1, s2}
  Invite = {}
  Gates = {FALSE}
  MaxAttempts = 1
  MaxCodes = 1
  MaxTries = 2
INVARIANTS EndedStaysOut OneSuccessor
CHECK_DEADLOCK FALSE
SYMMETRY Symmetric
