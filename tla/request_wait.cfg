SPECIFICATION Spec
CONSTANTS
  Threads = {1, 2, 3}
  Requests = {1, 2, 3, 4, 5}
  Jobs <- Good
INVARIANTS IInv SuccessMeansComplete ErrorsAreMine
PROPERTIES Termination
CHECK_DEADLOCK FALSE
