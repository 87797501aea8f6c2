CONSTANTS
  Tenant = {u1}
  Box = {b1, b2}
  Request = {r1, r2}
  Kinds = {"tunnel", "ensure"}
  None = None
  MaxFaults = 1
SPECIFICATION Spec
SYMMETRY Symmetry
INVARIANTS OneMachinePerTenant

CHECK_DEADLOCK FALSE
