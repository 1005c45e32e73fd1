SPECIFICATION FairSpec
CONSTANTS
  Clients = {c1}
  b1 = b1
  b2 = b2
  b3 = b3
  b4 = b4
  Buffers <- MCBuffers
  NumMems <- MCNumMems
  Cap = 1
  MaxCaps = 1
  MaxFrames = 5
  MaxOps = 2
  None = None
PROPERTIES BuffersReturn
CHECK_DEADLOCK FALSE
