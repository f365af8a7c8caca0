CONSTANTS
  N = 3
  PerSwitch = 1
  Plans <- AllModes
  SamePlans = FALSE
  Protocols = {"eager", "rndv"}
  Calls = 2
  MaxFaults = 1
SPECIFICATION Spec
INVARIANTS Complete NoneLeavesEarly
CHECK_DEADLOCK FALSE
