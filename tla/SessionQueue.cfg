SPECIFICATION FairSpec
CONSTANTS
  Workers = {w1, w2}
  Acceptor = a
  NoThread = none
  QSize = 2
  MaxConns = 5
  MaxSignals = 1
INVARIANTS
  NoSleepWhileQueued
  AtMostOneMissesBroadcast
  AtMostOneUnserved
PROPERTIES
  ImplementsFifo
  QueuedSessionsAreTaken
  ShutdownEndsUnlessHeldUp
