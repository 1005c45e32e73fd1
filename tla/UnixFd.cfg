SPECIFICATION FairSpec
CONSTANTS
  Clients = {c1, c2}
  b1 = b1
  b2 = b2
  b3 = b3
  b4 = b4
  Buffers <- MCSmallPool
  NumMems <- MCNumMems
  Cap = 2
  MaxCaps = 2
  MaxFrames = 2
  MaxOps = 2
  None = None
INVARIANTS OneReferencePerLoan CapsBeforeBuffer ReleaseNeverBlocks
PROPERTIES HealthyClientStays BuffersReturn ClientWakesRender UnlockEndsWait
CHECK_DEADLOCK FALSE
