SPECIFICATION Spec
CONSTANTS
  Sessions = {s1, s2}
  Workers = {w1}
  Users = {u1, u2}
  Nil = Nil
  MaxGuid = 2
  AllocFails = TRUE
SYMMETRY Interchangeable
INVARIANT TypeOK
INVARIANT OneWriter
INVARIANT PoolExact
INVARIANT ReleaseQuiescent
PROPERTY TableSpec
CHECK_DEADLOCK FALSE
