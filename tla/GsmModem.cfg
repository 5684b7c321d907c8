SPECIFICATION FairSpec
CONSTANTS
  NULL = NULL
  Messages <- MCMessages
  Before = 1
  After = 2
  MaxTexts = 1
INVARIANTS
  OwnResult
  MessageArrives
PROPERTIES
  Finishes
CHECK_DEADLOCK FALSE
