SPECIFICATION FairPeersSpec
CONSTANTS
  Sessions = {s1}
  Workers = {w1}
  Users = {u1}
  Nil = Nil
  MaxGuid = 2
  AllocFails = FALSE
PROPERTY SendProgress
CHECK_DEADLOCK FALSE
