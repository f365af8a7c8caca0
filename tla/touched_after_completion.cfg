CONSTANTS
  Job <- Transfers
  MaxThreads = 2
SPECIFICATION Spec
INVARIANT NothingTouched
