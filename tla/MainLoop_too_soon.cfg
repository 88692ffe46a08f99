SPECIFICATION Spec
CONSTANTS
  PerMs = 10
  Tick = 2
  UpdateTimer = 5
  HeartBeat = 12
  Modulus = 64
  Work = {0, 1}
  MaxAge = 120
INVARIANT HasItsHeartBeat
