SPECIFICATION Spec
CONSTANTS
  Threads = {1, 2, 3}
  Requests = {1, 2, 3, 4, 5}
  Jobs <- Persistent
INVARIANTS ErrorsAreMine
CHECK_DEADLOCK FALSE
