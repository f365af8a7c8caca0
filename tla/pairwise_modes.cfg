CONSTANTS
  N = 3
  PerSwitch = 1
  Plans <- AllModes
  SamePlans = TRUE
  Protocols = {"eager", "rndv"}
  Calls = 3
  MaxFaults = 1
SPECIFICATION Spec
INVARIANTS IInv Complete NoneLeavesEarly UnexpectedBound BuffersReleased
PROPERTIES ImplementsContract LocalCopyLast Termination
CHECK_DEADLOCK FALSE
