CONSTANTS
  Job <- SyncJobs
SPECIFICATION Spec
INVARIANTS SendsMatched
CHECK_DEADLOCK FALSE
