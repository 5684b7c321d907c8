SPECIFICATION FairSpec
CONSTANTS
  NThreads = 3
  NFds = 2
  NForks = 2
INVARIANTS
  AsExpected
PROPERTIES
  Completes
CHECK_DEADLOCK FALSE
