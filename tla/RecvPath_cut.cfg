SPECIFICATION Spec
CONSTANTS
  RecvBuf = 6
  MaxSize = 8
  Sizes = {0, 1, 8, 9}
  CutMidway = TRUE
  AllocFails = FALSE
  MaxMsgs = 2
  MaxConns = 2
  Nil = Nil
INVARIANT DeliveredAsSent
CHECK_DEADLOCK FALSE
