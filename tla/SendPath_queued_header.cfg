SPECIFICATION Spec
CONSTANTS
  BufSize = 8
  Sizes = {1}
  SizeKey = 0
  AllocFails = FALSE
  MaxMsgs = 3
INVARIANT FramesIntact
CHECK_DEADLOCK FALSE
