CONSTANTS
  N = 5
  Orders <- AllOrders
  SameOrders = TRUE
  Protocols = {"rndv"}
  Calls = 2
  MaxFaults = 1
SPECIFICATION Spec
INVARIANTS IInv NoneLeavesEarly
PROPERTY Termination
CHECK_DEADLOCK FALSE
