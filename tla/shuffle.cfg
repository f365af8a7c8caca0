CONSTANTS
  Procs = {p1, p2}
  Size = 4
  Streams <- AllStreams
  MaxForeign = 1
SPECIFICATION Spec
INVARIANTS IInv ResultIsShuffle Agreement
CHECK_DEADLOCK FALSE
