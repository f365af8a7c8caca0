CONSTANTS
  N = 3
  Windows = {0, 1}
  Protocols = {"eager", "rndv"}
  Calls = 2
  MaxFaults = 1
SPECIFICATION Spec
INVARIANTS IInv CompleteIfReported WaitsForSomething NoneLeavesEarly BuffersReleased
PROPERTIES ImplementsContract Termination
CHECK_DEADLOCK FALSE
