SPECIFICATION Spec
CONSTANTS
  Chars = 3
  MaxLines = 2
  MaxText = 5
  Mailboxes <- MCMailboxes
  MaxClock = 1
  Bytes = {"0", "1"}
  MaxFile = 6
  MaxMatch = 3
  MaxMatches = 2
  MaxLost = 1
  MaxSize = 17
  Movies = {"m1", "m2"}
  MaxRuns = 4
INVARIANTS
  ResultsRight
PROPERTIES
  FiltersEnd
CHECK_DEADLOCK FALSE
