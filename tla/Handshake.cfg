SPECIFICATION FairSpec
CONSTANTS
  Clients = {c1, c2}
  MaxSinkStarts = 1
  MaxSrcStarts = 2
  MaxFlushes = 1
  MaxPools = 2
  MaxCrashes = 1
  None = None
INVARIANTS SizeMatchesFd ServedOnce
PROPERTIES SinkStopReturns SrcStopReturns
CHECK_DEADLOCK FALSE
