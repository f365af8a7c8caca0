CONSTANTS
  N = 5
  PerSwitch = 2
  Plans <- Custom
  SamePlans = TRUE
  Protocols = {"eager", "rndv"}
  Calls = 1
  MaxFaults = 0
SPECIFICATION Spec
INVARIANT Complete
