SPECIFICATION Spec
CONSTANTS
  NumBlocks = 2
  PoolMax = 1
  SlotPolicy = "block"
  Depth = 1
  SrcPoolMax = 2
  ConcurrentRelease = TRUE
  MaxFrames = 2
  MaxFlushes = 1
  MaxSinkStops = 1
  MaxSrcStops = 1
  MaxFaults = 1
  None = None
INVARIANTS RefBalance StopReleasesAll
CHECK_DEADLOCK FALSE
