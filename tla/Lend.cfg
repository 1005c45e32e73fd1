SPECIFICATION FairSpec
CONSTANTS
  NumBlocks = 3
  PoolMax = 3
  SlotPolicy = "qdata"
  Depth = 2
  SrcPoolMax = 3
  ConcurrentRelease = FALSE
  MaxFrames = 4
  MaxFlushes = 0
  MaxSinkStops = 0
  MaxSrcStops = 0
  MaxFaults = 1
  None = None
INVARIANTS NoTornRead LedgerOK SlotsDistinct
PROPERTIES HeldUntilFreeFrame ImplementsFrameLoan LentFramesReturn
CHECK_DEADLOCK FALSE
