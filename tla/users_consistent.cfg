SPECIFICATION Spec
CONSTANTS
  r1 = "r1"
  r2 = "r2"
  a = "a"
  b = "b"
  Requests <- TwoRequests
  Factories <- TwoFactories
  MaxFaults = 0
INVARIANT UsersConsistent
CHECK_DEADLOCK FALSE
