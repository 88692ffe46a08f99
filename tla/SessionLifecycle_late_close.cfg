SPECIFICATION Spec
CONSTANTS
  Sessions = {s1}
  Workers = {w1, w2}
  Users = {u1}
  Nil = Nil
  MaxGuid = 2
  AllocFails = FALSE
INVARIANT ClosesOwn
CHECK_DEADLOCK FALSE
