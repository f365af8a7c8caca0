CONSTANTS
  Job <- Transfers
  MaxThreads = 2
SPECIFICATION Spec
INVARIANTS IInv CompletedWhole
PROPERTY Termination
