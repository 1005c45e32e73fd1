SPECIFICATION Spec
CONSTANTS
  Tracks = {"v", "a"}
  Video = {"v"}
  FirstPrimary = "v"
  MaxCache = 2
  MaxBuffers = 2
  MaxBytes = 3
  AlignStart = TRUE
  Pres = {1}
  Posts = {0}
  GopDefault = 1
  GopMin = 1
  GopMax = 5
  Gop = 0
  Horizon = 2
  MaxEvent = 1
  MaxSamples = 3
  MaxTriggers = 2
  MaxClock = 1
  MaxOps = 1
INVARIANTS CacheBounded WrittenOnceInOrder KeyframeFirst FileWithinWindow
PROPERTIES RecordedBeforeDropped
CHECK_DEADLOCK FALSE
