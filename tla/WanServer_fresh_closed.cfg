SPECIFICATION Spec
CONSTANTS
  NumSlots = 1
  HeartBeat = 1
  MaxSerial = 2
  MaxQueue = 1
INVARIANT FreshKept
