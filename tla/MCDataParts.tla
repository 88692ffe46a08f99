----------------------------- MODULE MCDataParts ------------------------------
(***************************************************************************)
(* The parts of MCData whose theorems have no module of their own: the     *)
(* send side of a session (SendPath), the way of the log to the file       *)
(* (AsyncLog), the table of message handlers (MsgHandler), the rings       *)
(* (CycleBuffer, CycleQueue), the configuration (Config), the memory pool  *)
(* (MemPool), encrypted messages (CryptoChannel), the clock (TimeStamps)   *)
(* and MD5 (Md5).                                                          *)
(***************************************************************************)
EXTENDS Integers, Sequences

CONSTANTS
  SendBuf, SendSizes, SizeKey, AllocFails,     (* of SendPath                   *)
  SendMax,                                     (* calls of send_msg             *)
  Appenders, LogBuf, LogLens, LogBufs, LogMax, (* of AsyncLog: threads, size of a
                                                  buffer, lengths of the lines,
                                                  limits                        *)
  MsgIds, Handlers, Bits,                      (* of MsgHandler                 *)
  Values, Garbage, RingSize, QueueMax,         (* of the rings: bytes of the one,
                                                  most items of the other       *)
  Scale, Modulus, Plus, Minus, FileMax,        (* of Config: the numbers of a file,
                                                  its lines                     *)
  Blocks, Threads, Null,                       (* of MemPool: addresses, threads *)
  PoolClasses, PoolSize, PoolUse,              (* size classes, m_max_size and the
                                                  largest use_count             *)
  ByteValues, Keys, Texts, PlainMax, CipherMax,(* of CryptoChannel: values of a byte,
                                                  keys, messages, limits        *)
  Times, Zones, Hours, Minutes, Local, IntMax, (* of TimeStamps                 *)
  Block, LenBytes, Word, MaxPiece, MaxLen      (* of Md5: bytes of a block and of the
                                                  length, values of a word, limits *)

VARIABLES
  data, wait, sending, writing, chain, wire, calls, accepted,
  cur, full, avail, held, stop, pc, app, closer, lines, logFile, disk,
  ring, head, tail, len, call,
  datas, maxSize, size, front, back, lastCall,
  table, registered, last,
  phase, file, mark, line, pairs, option, configs, changed,
  firsts, lasts, next, prev, index, use, place, current, lock, gc, asks,
  encrypt, decrypt, cipher, plain, received, refused,
  now, zone,
  state, low, high, buffer, finished, digest, msgLen, of, spoiled, sure

sendVars    == <<data, wait, sending, writing, chain, wire, calls, accepted>>
logVars     == <<cur, full, avail, held, stop, pc, app, closer, lines, logFile, disk>>
ringVars    == <<ring, head, tail, len, call>>
queueVars   == <<datas, maxSize, size, front, back, lastCall>>
handlerVars == <<table, registered, last>>
configVars  == <<phase, file, mark, line, pairs, option, configs, changed>>
poolVars    == <<firsts, lasts, next, prev, index, use, place, current, lock, gc, asks>>
cryptoVars  == <<encrypt, decrypt, cipher, plain, received, refused>>
clockVars   == <<now, zone>>
md5Vars     == <<state, low, high, buffer, finished, digest, msgLen, of, spoiled, sure>>

Send == INSTANCE SendPath
          WITH BufSize <- SendBuf, Sizes <- SendSizes, MaxMsgs <- SendMax

Log == INSTANCE AsyncLog
         WITH data <- full, file <- logFile,
              Cap <- LogBuf, Lens <- LogLens, MaxBufs <- LogBufs, MaxLines <- LogMax

Ring  == INSTANCE CycleBuffer WITH BufSize <- RingSize, buf <- ring
Queue == INSTANCE CycleQueue
           WITH MaxNum <- QueueMax, DestroyInUse <- FALSE, head <- front, tail <- back, call <- lastCall

Handler == INSTANCE MsgHandler WITH Ids <- MsgIds

Cfg == INSTANCE Config
         WITH Unsigned <- Modulus, Numbers <- Plus \cup {-n : n \in Minus},
              MaxLines <- FileMax, Marked <- FALSE

Pool == INSTANCE MemPool
          WITH first <- firsts, last <- lasts, Classes <- PoolClasses, MaxSize <- PoolSize,
               MaxUse <- PoolUse

Crypto == INSTANCE CryptoChannel
            WITH Size <- ByteValues, MaxSent <- PlainMax, MaxWire <- CipherMax,
                 wire <- cipher, sent <- plain

Clock == INSTANCE TimeStamps

Md == INSTANCE Md5 WITH len <- msgLen

ASSUME PartsAssumption ==
  /\ Send!SendPathAssumption /\ Log!AsyncLogAssumption /\ Handler!MsgHandlerAssumption
  /\ Ring!CycleBufferAssumption /\ Queue!CycleQueueAssumption
  /\ Cfg!ConfigAssumption
  /\ Pool!MemPoolAssumption /\ Crypto!CryptoChannelAssumption
  /\ Clock!TimeStampsAssumption /\ Md!Md5Assumption
===============================================================================
