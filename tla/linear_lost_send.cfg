CONSTANTS
  N = 3
  Windows = {1}
  Protocols = {"rndv"}
  Calls = 2
  MaxFaults = 1
SPECIFICATION Spec
INVARIANT Complete
CHECK_DEADLOCK FALSE
