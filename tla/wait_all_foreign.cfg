SPECIFICATION Spec
CONSTANTS
  Threads = {1, 2, 3}
  Requests = {1, 2, 3, 4, 5}
  Jobs <- Foreign
INVARIANTS SuccessMeansComplete
CHECK_DEADLOCK FALSE
