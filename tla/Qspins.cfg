SPECIFICATION MCSpec
CONSTANTS
  N = 3
  Iters = 5
  Wrap = 3
  Lowest <- MCLowest
INVARIANTS
  MutualExclusion
  FirstComeFirstServed
  SpinExclusion
PROPERTIES
  AllFinish
CHECK_DEADLOCK FALSE
