SPECIFICATION Spec
CONSTANTS
  Workers = {w1, w2}
  Blocks = {b1}
  MayFail = {}
CHECK_DEADLOCK FALSE
INVARIANT DestroyFindsPool
