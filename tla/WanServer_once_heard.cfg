SPECIFICATION Spec
CONSTANTS
  NumSlots = 1
  HeartBeat = 1
  MaxSerial = 1
  MaxQueue = 1
INVARIANT SilentClosed
