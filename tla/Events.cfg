SPECIFICATION Spec
CONSTANTS
  Threads = {t1, t2}
  Pipes = {p1, p2}
  Active = {p1, p2}
  NumEvts = 2
  Cap = 2
  None = None
  MaxFds = 8
  MaxWrites = 9
  Runs = 2
  Burst = 5
  Swcount = 4
  Reqs = 5
  NumEvents = 2
  Once = 3
  Nap = 2
  MaxAge = 7
INVARIANTS
  NeverStranded
  EventsAccounted
PROPERTIES
  StopsUnlessFull
  ProgramsEnd
CHECK_DEADLOCK FALSE
