SPECIFICATION FairSpec
CONSTANTS
  N = 3
  MaxDepth = 2
  PoolMax = 2
  IdMod = 3
  MaxFrames = 3
  MaxFaults = 2
  MaxStarts = 2
  None = None
INVARIANTS  NoMatchLeftWaiting
PROPERTIES StopReturns
CHECK_DEADLOCK FALSE
