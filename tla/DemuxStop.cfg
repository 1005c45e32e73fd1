SPECIFICATION FairSpec
CONSTANTS
  Streams = {s1, s2}
  MaxArrivals = 2
  MaxFlushes = 1
  MaxStarts = 1

PROPERTIES StopReturns
CHECK_DEADLOCK FALSE
