SPECIFICATION FairSpec
CONSTANTS
  Sessions = {s1, s2}
  Workers = {w1}
  Users = {u1}
  Nil = Nil
  MaxGuid = 1
  AllocFails = FALSE
PROPERTY ShutReturned
PROPERTY ShutReported
CHECK_DEADLOCK FALSE
