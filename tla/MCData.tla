-------------------------------- MODULE MCData --------------------------------
(***************************************************************************)
(* Small instances for TLC of what is done to data: the byte paths of a    *)
(* session (SendPath, RecvPath with the receive buffer of linux/cfg.txt,   *)
(* one header, and with a larger one) and a connection of the two          *)
(* (Connection), the lines of the log and their way to the file (LogLine,  *)
(* AsyncLog), the tables of the client (NetClient, without and with        *)
(* retries) and of the server (WanServer), the memory pool (MemPool), the  *)
(* rings (CycleBuffer, CycleQueue), and MsgHandler, CryptoChannel, Config, *)
(* TimeStamps, Md5 and NumberText.                                         *)
(*                                                                         *)
(* A behaviour is one of the part it starts with; the variables of the     *)
(* others keep their initial values. MCDataParts has the instances of      *)
(* SendPath, AsyncLog, MsgHandler, Config, MemPool, CryptoChannel,         *)
(* TimeStamps, Md5 and the rings; where a module has its theorems in a     *)
(* module of their own, that one is instantiated, for MCData_proofs.       *)
(***************************************************************************)
EXTENDS MCDataParts

CONSTANTS
  LinkMax,         (* calls of send_msg in Connection *)
  Workers          (* io threads                      *)

VARIABLES
  part,
  conn, sent, stream, buf, parse, expect, msg, delivered, reader,
  pieces, text, error, done,
  availParas, at, req, availSessions, live, worker, id, active, requests, answered,
  slot, timeOut, counted, inUse, up, serial, arrived, io, main, spoken, heard,
  value

recvVars    == <<conn, sent, stream, buf, parse, expect, msg, delivered, reader>>
wireVars    == <<sendVars, recvVars>>
lineVars    == <<pieces, text, error, done>>
clientVars  == <<availParas, at, req, availSessions, live, worker, id, active, requests, answered>>
serverVars  == <<slot, timeOut, counted, inUse, up, serial, arrived, io, main, spoken, heard>>

bytesVars  == <<wireVars, logVars, lineVars>>
sharedVars == <<clientVars, serverVars, poolVars>>
tablesVars == <<ringVars, queueVars, handlerVars, configVars>>
codesVars  == <<cryptoVars, clockVars, md5Vars, value>>
vars       == <<part, bytesVars, sharedVars, tablesVars, codesVars>>

-----------------------------------------------------------------------------
(* Bytes on their way. *)

Shipped == INSTANCE RecvPath_proofs
             WITH RecvBuf <- 6, MaxSize <- 8, Sizes <- {0, 1, 8, 9}, MaxMsgs <- 3, MaxConns <- 2,
                  CutMidway <- FALSE, Nil <- Null, pc <- reader

Large == INSTANCE RecvPath_proofs
           WITH RecvBuf <- 13, MaxSize <- 2, Sizes <- {0, 2, 3}, MaxMsgs <- 3, MaxConns <- 2,
                CutMidway <- TRUE, AllocFails <- FALSE, Nil <- Null, pc <- reader

Link == INSTANCE Connection
          WITH RecvBuf <- 6, MaxSize <- 3, Sizes <- SendSizes, MaxMsgs <- LinkMax, Nil <- Null,
               pc <- reader

Text(n)   == [kind |-> "text", len |-> n]
Number(n) == [kind |-> "number", len |-> n]

Line == INSTANCE LogLine
          WITH data <- text, BufSize <- 12, MaxNumeric <- 3, Lens <- {1, 4, 8}, Digits <- {1, 3},
               Starts <- {<<>>, <<Text(4)>>, <<Text(4), Text(1), Number(3)>>}, MaxPieces <- 5

(* Memory that threads share. *)

Connect == INSTANCE NetClient_proofs
             WITH NumSessions <- 2, Reconnect <- FALSE, BadAddress <- FALSE, MaxRequests <- 4

Retry == INSTANCE NetClient_proofs
           WITH NumSessions <- 2, Reconnect <- TRUE, BadAddress <- FALSE, MaxRequests <- 4

Server == INSTANCE WanServer_proofs
            WITH id <- slot, active <- inUse, queue <- arrived,
                 NumSlots <- 2, HeartBeat <- 2, MaxSerial <- 2, MaxQueue <- 1

(* Computations. *)

Num == INSTANCE NumberText WITH Half <- 128

ASSUME DataAssumption ==
  /\ Shipped!RecvPathAssumption /\ Large!RecvPathAssumption
  /\ Link!ConnectionAssumption
  /\ Line!LogLineAssumption
  /\ Connect!NetClientAssumption /\ Retry!NetClientAssumption
  /\ Server!WanServerAssumption
  /\ Num!NumberTextAssumption

(* Moments of a week at and beside the hours, minutes and days, for Data.cfg. *)
(* An int ends in the first of two weeks, and from BASE_TIME in the second.  *)
FirstDay  == 946598400 + 30 * 86400
LastInt   == FirstDay + 6 * 86400 + 3 * 3600
Moments   == {w + d * 86400 + s : w \in {FirstDay, 946598400 + FirstDay}, d \in {0, 1, 6, 7},
                s \in {0, 1, 59, 60, 3599, 3600, 43200, 57599, 57600, 86399}} \cup {LastInt, LastInt + 1}
SomeZones == {-11, 0, 8}

(* Keys and messages for Data.cfg, which has no sequences. *)
SomeKeys  == {<<1>>, <<2, 3>>}
SomeTexts == {<<>>, <<0>>, <<3, 1>>}

-----------------------------------------------------------------------------
Parts ==
  {"send", "shipped", "large", "link", "log", "line", "connect", "retry", "table", "pool",
   "ring", "queue", "handler", "config", "crypto", "clock", "md5", "number"}

(* A part that does not run starts with one of its initial states. *)
Init ==
  /\ part \in Parts
  /\ Send!Init /\ Shipped!Init
  /\ Log!Init /\ (part = "log" \/ pc = "ready")
  /\ Line!Init /\ (part = "line" \/ pieces = <<>>)
  /\ Connect!Init /\ Server!Init /\ Pool!Init
  /\ Ring!Init /\ Queue!Init /\ Handler!Init
  /\ Cfg!Init /\ (part = "config" \/ file = <<>>)
  /\ Crypto!Init
  /\ Clock!Init /\ (part = "clock" \/ (now = FirstDay /\ zone = 0))
  /\ Md!Init /\ Num!Init

WireNext ==
  \/ part = "send"    /\ Send!Next    /\ UNCHANGED recvVars
  \/ part = "shipped" /\ Shipped!Next /\ UNCHANGED sendVars
  \/ part = "large"   /\ Large!Next   /\ UNCHANGED sendVars
  \/ part = "link"    /\ Link!Next

BytesNext ==
  /\ \/ WireNext                      /\ UNCHANGED <<logVars, lineVars>>
     \/ part = "log"  /\ Log!Next     /\ UNCHANGED <<wireVars, lineVars>>
     \/ part = "line" /\ Line!Next    /\ UNCHANGED <<wireVars, logVars>>
  /\ UNCHANGED <<sharedVars, tablesVars, codesVars>>

SharedNext ==
  /\ \/ part = "connect" /\ Connect!Next /\ UNCHANGED <<serverVars, poolVars>>
     \/ part = "retry"   /\ Retry!Next   /\ UNCHANGED <<serverVars, poolVars>>
     \/ part = "table"   /\ Server!Next  /\ UNCHANGED <<clientVars, poolVars>>
     \/ part = "pool"    /\ Pool!Next    /\ UNCHANGED <<clientVars, serverVars>>
  /\ UNCHANGED <<bytesVars, tablesVars, codesVars>>

TablesNext ==
  /\ \/ part = "ring"    /\ Ring!Next    /\ UNCHANGED <<queueVars, handlerVars, configVars>>
     \/ part = "queue"   /\ Queue!Next   /\ UNCHANGED <<ringVars, handlerVars, configVars>>
     \/ part = "handler" /\ Handler!Next /\ UNCHANGED <<ringVars, queueVars, configVars>>
     \/ part = "config"  /\ Cfg!Next     /\ UNCHANGED <<ringVars, queueVars, handlerVars>>
  /\ UNCHANGED <<bytesVars, sharedVars, codesVars>>

CodesNext ==
  /\ \/ part = "crypto" /\ Crypto!Next /\ UNCHANGED <<clockVars, md5Vars, value>>
     \/ part = "clock"  /\ Clock!Next  /\ UNCHANGED <<cryptoVars, md5Vars, value>>
     \/ part = "md5"    /\ Md!Next     /\ UNCHANGED <<cryptoVars, clockVars, value>>
     \/ part = "number" /\ Num!Next    /\ UNCHANGED <<cryptoVars, clockVars, md5Vars>>
  /\ UNCHANGED <<bytesVars, sharedVars, tablesVars>>

Spec == Init /\ [][UNCHANGED part /\ (BytesNext \/ SharedNext \/ TablesNext \/ CodesNext)]_vars

-----------------------------------------------------------------------------
(* The type of every variable. No buffer outgrows its size; every log buffer *)
(* has a byte left for the final 0; the counters of the rings agree; a name  *)
(* has one pair; a request is answered once.                                 *)
TypeOK ==
  /\ part \in Parts
  /\ CASE part = "link"  -> Link!TypeOK
       [] part = "large" -> Send!TypeOK /\ Large!TypeOK
       [] OTHER          -> Send!TypeOK /\ Shipped!TypeOK
  /\ Log!TypeOK
  /\ IF part = "retry" THEN Retry!TypeOK ELSE Connect!TypeOK
  /\ Server!TypeOK /\ Pool!TypeOK
  /\ Ring!TypeOK /\ Queue!TypeOK /\ Handler!TypeOK /\ Cfg!TypeOK /\ Crypto!TypeOK

(* Through the two buffers and the queue of the send side every byte goes   *)
(* out once and in order, whatever the socket takes at a time.              *)
ImplementsPipe == Send!ImplementsPipe

(* The bytes of the accepted lines reach the file once and in order.        *)
LinesInOrder == Log!LinesInOrder

(* The payloads of the accepted messages go out whole, in order and once,   *)
(* and no byte of a message that send_msg refused.                          *)
PayloadsIntact == part = "send" => Send!PayloadsIntact

(* With the shipped buffer the application gets the messages that were      *)
(* sent, whole, in order and once, however the stream is cut into reads.    *)
DeliveredAsSent == part = "shipped" => Shipped!DeliveredAsSent

(* With any buffer, with connections that end in the middle of a message,   *)
(* and with the headers that the send side really writes, parse_msg stays   *)
(* inside of the receive buffer and of the message.                         *)
InBounds ==
  CASE part = "link"  -> Link!InBounds
    [] part = "large" -> Large!InBounds
    [] OTHER          -> Shipped!InBounds

(* From the send_msg of one side to the callback of the other: the accepted *)
(* messages arrive whole, in order and once, as long as the send side does  *)
(* not lose a header.                                                       *)
FramesArrive == part = "link" => Link!FramesArrive

(* When the worker of the log swaps the current buffer for a spare one,     *)
(* there is one, and a log with a limit keeps to it.                        *)
BuffersAccounted == Log!BuffersAccounted

(* A line of the log consists of whole pieces in order and stays in its     *)
(* buffer.                                                                  *)
WholePieces == part = "line" => Line!WholePieces

(* A connect parameter is in the queue exactly when no request has it.      *)
ParasExact == IF part = "retry" THEN Retry!ParasExact ELSE Connect!ParasExact

(* A session in the manager's queue neither reads nor is in the table, which *)
(* agrees with the live connections and with its count.                     *)
SessionsExact == IF part = "retry" THEN Retry!SessionsExact ELSE Connect!SessionsExact

(* Between two callbacks m_active_session_num is the number of slots in use, *)
(* and these hold the connections of the library.                           *)
ActiveExact == Server!ActiveExact

(* The heartbeat check closes no connection of which a message was counted. *)
SpeakersKept == Server!SpeakersKept

(* Each list of the pool holds the free blocks of its class and no other,   *)
(* and reads backwards as forwards, also amid a garbage collection; what is *)
(* counted is the size of the free blocks.                                  *)
ListsWhole == Pool!ListsWhole

(* wcycle_buffer and wcycle_queue are bounded FIFOs, wherever in the ring   *)
(* the head stands.                                                         *)
RingsAreFifos == Ring!ImplementsFifo /\ Queue!ImplementsFifo

(* A message runs the handler it was registered with, in a status that its  *)
(* registration admits.                                                     *)
RanAsRegistered == Handler!RanAsRegistered

(* Each option of a running program has what its one line in the file says, *)
(* or its default, times its scale.                                         *)
LoadedAsWritten == Cfg!LoadedAsWritten

(* What the receiver decrypts is what was sent, in order, as long as every  *)
(* encrypted message was taken.                                             *)
ReadAsSent == Crypto!ReadAsSent

(* The stamp of a time of the day is the first moment after now at which a  *)
(* clock shows it, the stamps of the week agree with it, and those in 32    *)
(* bits with those in 64 until the seconds since 1970 outgrow an int.       *)
StampsAreNext ==
  part = "clock" => Clock!NextOfDay /\ Clock!WeekMeetsDay /\ Clock!StampsAgree /\ Clock!TmGoesBack

(* However a message is cut into pieces, its first digest is that of the    *)
(* padded message.                                                          *)
DigestOfMessage == part = "md5" => Md!DigestOfMessage

(* Every number reads back from its text.                                   *)
ReadsAsWritten == part = "number" => Num!ReadsAsWritten
=============================================================================
