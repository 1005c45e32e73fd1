SPECIFICATION FairSpec
CONSTANTS
  Streams = {s1, s2}
  MaxArrivals = 3
  MaxFlushes = 2
  MaxStarts = 2
PROPERTIES FlushIsFinal PausedHolds WaitEnds
CHECK_DEADLOCK FALSE
