CONSTANTS
  Job <- WaitingAck
  MaxThreads = 2
SPECIFICATION Spec
PROPERTY Termination
CHECK_DEADLOCK FALSE
