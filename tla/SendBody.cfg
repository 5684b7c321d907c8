SPECIFICATION FairSpec
CONSTANTS
  HeadLen = 2
  Sizes = {0, 1, 2, 5}
  MBuf = 2
  SizeMax = 31
  MaxFails = 3
INVARIANTS
  NothingSkipped
  CompleteAndCounted
PROPERTIES
  AnswerEnds
CHECK_DEADLOCK FALSE
