CONSTANTS
  Job <- Jobs
SPECIFICATION Spec
INVARIANTS IInv Complete NoneLeavesEarly NothingCrosses BuffersReleased
PROPERTIES Termination
CHECK_DEADLOCK FALSE
