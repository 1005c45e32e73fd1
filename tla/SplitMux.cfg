SPECIFICATION Spec
CONSTANTS
  Streams = {"v", "a"}
  Ref = "v"
  Inputs <- MCInputs
  Threshold = 2
  QueueSize = 1
  MaxRequests = 1
  Disturbed <- MCDisturbed
INVARIANTS AssertionsHold FilesPartitionInput
PROPERTIES RecordingEnds StopReturns
CHECK_DEADLOCK FALSE
