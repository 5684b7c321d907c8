SPECIFICATION Spec
CONSTANTS
  Conns = {c1, c2, c3}
  MaxReqs = 4
  NT = 3
  NTTotal = 5
  Tasks <- MCTasks
  RandBits = 5
  MaxPasses = 2
  MaxDelay = 1
INVARIANTS
  WorkersAccounted
  BlockedOnlyByLoss
PROPERTIES
  WorkersEnd
CHECK_DEADLOCK FALSE
