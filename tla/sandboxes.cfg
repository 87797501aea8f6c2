CONSTANTS
  Tenant = {u1}
  Box = {b1, b2}
  Request = {r1, r2}
  Kinds = {"tunnel", "ensure"}
  None = None
  MaxFaults = 2
SPECIFICATION Spec
SYMMETRY Symmetry
INVARIANTS TypeOK MachinesAreAccountedFor
PROPERTIES ForgetSparesSuccessors
CHECK_DEADLOCK FALSE
