SPECIFICATION Spec
CONSTANTS
  Appenders = {a1, a2}
  Workers = {w1, w2}
  Blocks = {b1, b2, b3}
  Threads = {t1, t2}
  PoolClasses = 2
  PoolSize = 4
  PoolUse = 2
  ByteValues = 4
  Keys <- SomeKeys
  Texts <- SomeTexts
  PlainMax = 3
  CipherMax = 2
  Times <- Moments
  Zones <- SomeZones
  Hours = {0, 1, 12, 23}
  Minutes = {0, 1, 59}
  Local = 0
  IntMax <- LastInt
  Block = 4
  LenBytes = 2
  Word = 64
  MaxPiece = 9
  MaxLen = 17
  Values = {a, b}
  Garbage = Garbage
  RingSize = 3
  QueueMax = 4
  Null = Null
  SendBuf = 8
  SendSizes = {1, 3}
  SizeKey = 0
  AllocFails = TRUE
  SendMax = 4
  LinkMax = 3
  LogBuf = 4
  LogLens = {1, 2, 4}
  LogBufs = 1
  LogMax = 4
  MsgIds = {0, 1, 2}
  Handlers = {handle_test, handle_other}
  Bits = {1, 2}
  Scale = 10
  Modulus = 256
  Plus = {0, 9, 30}
  Minus = {12}
  FileMax = 2
INVARIANT TypeOK
INVARIANT PayloadsIntact
INVARIANT DeliveredAsSent
INVARIANT InBounds
INVARIANT FramesArrive
INVARIANT BuffersAccounted
INVARIANT WholePieces
INVARIANT ParasExact
INVARIANT SessionsExact
INVARIANT ActiveExact
INVARIANT SpeakersKept
INVARIANT ListsWhole
INVARIANT RanAsRegistered
INVARIANT LoadedAsWritten
INVARIANT ReadAsSent
INVARIANT StampsAreNext
INVARIANT DigestOfMessage
INVARIANT ReadsAsWritten
PROPERTY ImplementsPipe
PROPERTY LinesInOrder
PROPERTY RingsAreFifos
CHECK_DEADLOCK FALSE
