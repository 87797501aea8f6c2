SPECIFICATION Spec
CONSTANTS
  Email = {e1, e2}
  Founder = {}
  Key = {k1, k2}
  None = None
  Request = {}
  Operator = {}
  MaxTokens = 1
  Try = {s1, s2}
  Invite = {i1}
  Gates = {TRUE, FALSE}
  MaxAttempts = 2
  MaxCodes = 2
  MaxTries = 5
INVARIANTS TypeOK GuessesBounded EveryoneWasInvited KeysAgree
CHECK_DEADLOCK FALSE
SYMMETRY Symmetric
