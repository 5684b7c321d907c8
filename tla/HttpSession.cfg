SPECIFICATION FairSpec
CONSTANTS
  Scripts <- MCScripts
  BufSize = 4
  ReqSize = 3
  Mid = Mid
INVARIANTS
  AnswersInOrder
  AnsweredAndCounted
  CutEndsSession
PROPERTIES
  SessionEnds
CHECK_DEADLOCK FALSE
