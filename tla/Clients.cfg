SPECIFICATION Spec
CONSTANTS
  NULL = NULL
  Series <- MCSeries
  Commons <- MCCommons
  Urls = {"u1", "u2", "u3"}
  Contents = {"c1", "c2"}
  Has <- MCHas
  Pages <- MCPages
  FCounts <- MCFCounts
  Bases = {0, 1}
  MaxPages = 2
  MaxRuns = 3
INVARIANTS
  SentInOrder
  StatusTells
  DbTells
  NeverTwice
CHECK_DEADLOCK FALSE
