SPECIFICATION Spec
CONSTANTS
  Workers = {w1, w2}
  Blocks = {b1, b2, b3}
  LifeBlocks = {b1, b2}
  Threads = {t1, t2}
  Posters = {p1, p2}
  Closers = {c1, c2}
  PoolTasks = 3
  Appenders = {a1, a2}
  Producers = {q1, q2}
  Null = Null
INVARIANT TypeOK
INVARIANT EachTaskOnce
INVARIANT HandledInOrder
INVARIANT HandlersFindAll
PROPERTY EveryMessageArrives
PROPERTY EveryTaskRuns
PROPERTY ShutdownReturns
PROPERTY LinesReachDisk
PROPERTY EveryMessageHandled
PROPERTY SilentIsClosed
PROPERTY StopEnds
PROPERTY RequestsEnd
CHECK_DEADLOCK FALSE
