CONSTANTS
  Job <- InplaceJobs
SPECIFICATION Spec
PROPERTY Termination
CHECK_DEADLOCK FALSE
