----------------------------- MODULE MCData_proofs -----------------------------
(***************************************************************************)
(* Theorems about MCData: what the theorems about its parts say of the     *)
(* behaviours that the run checks. For the parts in MCDataParts the        *)
(* inductive invariants and their steps are in MCDataParts_proofs.         *)
(***************************************************************************)
EXTENDS MCData, MCDataParts_proofs

-----------------------------------------------------------------------------
(* A step of the whole is one of the server, or leaves the server alone. *)
LEMMA ServerStep ==
  ASSUME [UNCHANGED part /\ (BytesNext \/ SharedNext \/ TablesNext \/ CodesNext)]_vars
  PROVE  [Server!Next]_(Server!vars)
<1>1. UNCHANGED serverVars \/ Server!Next
  BY DEF BytesNext, SharedNext, TablesNext, CodesNext, vars, sharedVars
<1>2. UNCHANGED serverVars => UNCHANGED Server!vars
  BY DEF serverVars, Server!vars, Server!netVars, Server!ghostVars
<1> QED
  BY <1>1, <1>2

(* Between two callbacks m_active_session_num is the number of slots in use, *)
(* and these hold the connections of the library                            *)
(* (src/wserver/wwan_server.cpp).                                           *)
THEOREM TableIsExact == Spec => []ActiveExact
<1>1. Server!Spec => []Server!ActiveExact
  BY DataAssumption, Server!ActiveIsExact
<1>2. Init => Server!Init
  BY DEF Init
<1> QED
  BY <1>1, <1>2, ServerStep, PTL DEF Spec, Server!Spec, ActiveExact

(* The heartbeat check closes no connection of which a message was counted  *)
(* (src/wserver/wwan_server.cpp).                                           *)
THEOREM SpeakersStay == Spec => []SpeakersKept
<1>1. Server!Spec => []Server!SpeakersKept
  BY DataAssumption, Server!SpeakersAreKept
<1>2. Init => Server!Init
  BY DEF Init
<1> QED
  BY <1>1, <1>2, ServerStep, PTL DEF Spec, Server!Spec, SpeakersKept

-----------------------------------------------------------------------------
(* The client, without and with retries: its inductive invariant. *)
ClientInv == IF part = "retry" THEN Retry!IInv ELSE Connect!IInv

(* It holds at the start.                                                     *)
LEMMA ClientStarts ==
  ASSUME Init
  PROVE  ClientInv
<1>1. Connect!IInv
  BY DataAssumption, Connect!IInvInductive DEF Init
<1>2. Retry!Init
  BY DEF Init, Connect!Init, Retry!Init, Connect!Paras, Retry!Paras, Connect!Slots,
     Retry!Slots, Connect!Requests, Retry!Requests, Connect!Idle, Retry!Idle
<1>3. Retry!IInv
  BY <1>2, DataAssumption, Retry!IInvInductive
<1> QED
  BY <1>1, <1>3 DEF ClientInv

(* Every step of the whole keeps it.                                          *)
LEMMA ClientStep ==
  ASSUME ClientInv, [UNCHANGED part /\ (BytesNext \/ SharedNext \/ TablesNext \/ CodesNext)]_vars
  PROVE  ClientInv'
<1>1. part' = part
  BY DEF vars
<1>2. \/ UNCHANGED clientVars
      \/ part = "retry" /\ Retry!Next
      \/ part = "connect" /\ Connect!Next
  BY DEF BytesNext, SharedNext, TablesNext, CodesNext, vars, sharedVars
<1>3. UNCHANGED clientVars => UNCHANGED Retry!vars /\ UNCHANGED Connect!vars
  BY DEF clientVars, Retry!vars, Connect!vars, Retry!paraVars, Connect!paraVars,
     Retry!sessionVars, Connect!sessionVars, Retry!appVars, Connect!appVars
<1>4. CASE part = "retry"
  BY <1>1, <1>2, <1>3, <1>4, DataAssumption, Retry!IInvInductive DEF ClientInv
<1>5. CASE part # "retry"
  BY <1>1, <1>2, <1>3, <1>5, DataAssumption, Connect!IInvInductive DEF ClientInv
<1> QED
  BY <1>4, <1>5

(* A connect parameter is in the queue exactly when no request has it       *)
(* (src/wlib/wnet_client.cpp).                                              *)
THEOREM ParasInPlace == Spec => []ParasExact
<1>1. ClientInv => ParasExact
  BY DataAssumption, Retry!ParasFollow, Connect!ParasFollow DEF ClientInv, ParasExact
<1> QED
  BY <1>1, ClientStarts, ClientStep, PTL DEF Spec

(* A session in the manager's queue neither reads nor is in the table, which *)
(* agrees with the live connections and with its count                      *)
(* (src/wlib/wnet_session_mgr.cpp, src/wclient/wwan_client.cpp).            *)
THEOREM SessionsInPlace == Spec => []SessionsExact
<1>1. ClientInv => SessionsExact
  BY DataAssumption, Retry!SessionsFollow, Connect!SessionsFollow DEF ClientInv,
     SessionsExact
<1> QED
  BY <1>1, ClientStarts, ClientStep, PTL DEF Spec

-----------------------------------------------------------------------------
(* A message runs the handler that was registered for its id and nothing      *)
(* else, and that only if the status of its session is among those it was     *)
(* registered with, for any ids, handlers and bits of the status              *)
(* (src/wlib/wmsg_handler.h).                                                 *)
THEOREM HandlersRunAsRegistered == Spec => []RanAsRegistered
<1>1. Init => HandlerInv
  BY HandlerStarts DEF Init
<1>2. HandlerInv /\ [UNCHANGED part /\ (BytesNext \/ SharedNext \/ TablesNext \/ CodesNext)]_vars
        => HandlerInv'
  <2> SUFFICES ASSUME HandlerInv,
                      [UNCHANGED part /\ (BytesNext \/ SharedNext \/ TablesNext \/ CodesNext)]_vars
               PROVE  HandlerInv'
    OBVIOUS
  <2>1. UNCHANGED handlerVars \/ Handler!Next
    BY DEF BytesNext, SharedNext, TablesNext, CodesNext, vars, tablesVars
  <2>2. UNCHANGED handlerVars => UNCHANGED Handler!vars
    BY DEF handlerVars, Handler!vars
  <2> QED
    BY <2>1, <2>2, HandlerStep
<1>3. HandlerInv => RanAsRegistered
  BY DEF HandlerInv, RanAsRegistered
<1> QED
  BY <1>1, <1>2, <1>3, PTL DEF Spec

-----------------------------------------------------------------------------
(* A program whose start succeeded runs with the value its file gives each    *)
(* option, times the scale, or with the default; no file that names an option *)
(* twice gets there. For any file over any numbers, any scale and any range   *)
(* of the unsigned options (src/wlib/wconfig.cpp, src/wshare/wserver_cfg.cpp). *)
THEOREM OptionsAsWritten == Spec => []LoadedAsWritten
<1>1. Init => ConfigInv
  BY ConfigStarts DEF Init
<1>2. ConfigInv /\ [UNCHANGED part /\ (BytesNext \/ SharedNext \/ TablesNext \/ CodesNext)]_vars
        => ConfigInv'
  <2> SUFFICES ASSUME ConfigInv,
                      [UNCHANGED part /\ (BytesNext \/ SharedNext \/ TablesNext \/ CodesNext)]_vars
               PROVE  ConfigInv'
    OBVIOUS
  <2>1. UNCHANGED configVars \/ Cfg!Next
    BY DEF BytesNext, SharedNext, TablesNext, CodesNext, vars, tablesVars
  <2>2. UNCHANGED configVars => UNCHANGED Cfg!vars
    BY DEF configVars, Cfg!vars, Cfg!fileVars
  <2> QED
    BY <2>1, <2>2, ConfigStep
<1>3. ConfigInv => LoadedAsWritten
  BY ConfigLoaded DEF LoadedAsWritten
<1> QED
  BY <1>1, <1>2, <1>3, PTL DEF Spec

-----------------------------------------------------------------------------
(* A step of the whole is one of the log, or leaves the log alone. *)
LEMMA LogPart ==
  ASSUME [UNCHANGED part /\ (BytesNext \/ SharedNext \/ TablesNext \/ CodesNext)]_vars
  PROVE  [Log!Next]_(Log!vars)
<1>1. UNCHANGED logVars \/ Log!Next
  BY DEF BytesNext, SharedNext, TablesNext, CodesNext, vars, bytesVars
<1>2. UNCHANGED logVars => UNCHANGED Log!vars
  BY DEF logVars, Log!vars, Log!bufVars
<1> QED
  BY <1>1, <1>2

(* A work thread with nothing but the current buffer to write has a spare one *)
(* to put in its place, and with a limit there are never more buffers than it *)
(* and the three of the start, for any number of appending threads, any size  *)
(* of a buffer, any lines and any limit (src/wlib/wasync_log.cpp).            *)
THEOREM SpareBuffers == Spec => []BuffersAccounted
<1>1. Init => LogInv
  BY LogStarts DEF Init
<1>2. LogInv /\ [UNCHANGED part /\ (BytesNext \/ SharedNext \/ TablesNext \/ CodesNext)]_vars
        => LogInv'
  BY LogPart, LogStep
<1>3. LogInv => BuffersAccounted
  BY LogCounts DEF BuffersAccounted
<1> QED
  BY <1>1, <1>2, <1>3, PTL DEF Spec

(* The log implements BytePipe: the lines reach the file once and in the      *)
(* order of the appends, whichever buffer they are in when the work thread    *)
(* looks (src/wlib/wasync_log.cpp).                                           *)
THEOREM LinesReachTheFile == Spec => LinesInOrder
<1>1. Init => LogInv /\ LogBytes /\ Log!Pipe!Init
  <2>1. Init => LogInv
    BY LogStarts DEF Init
  <2>2. Init => full = <<>> /\ cur = <<>> /\ held = <<>> /\ logFile = <<>>
    BY DEF Init, Log!Init
  <2>3. full = <<>> => Log!FlattenSeq(full) = <<>>
    BY FlattenEmpty
  <2>4. <<>> \o <<>> \o <<>> = <<>> /\ <<>> \in Seq(Nat)
    OBVIOUS
  <2> QED
    BY <2>1, <2>2, <2>3, <2>4 DEF LogBytes, Log!Pipe!Init, Log!Pending
<1>2. LogInv /\ LogBytes
      /\ [UNCHANGED part /\ (BytesNext \/ SharedNext \/ TablesNext \/ CodesNext)]_vars
        => LogInv' /\ LogBytes'
  BY LogPart, LogStep, LogPipe
<1>3. LogInv /\ LogBytes
      /\ [UNCHANGED part /\ (BytesNext \/ SharedNext \/ TablesNext \/ CodesNext)]_vars
        => [Log!Pipe!Take \/ Log!Pipe!PassOn]_<<Log!Pending, logFile>>
  BY LogPart, LogPipe DEF Log!Pending, Logging
<1> QED
  BY <1>1, <1>2, <1>3, PTL DEF Spec, LinesInOrder, Log!LinesInOrder, Log!Pipe!Spec

-----------------------------------------------------------------------------
(* The send side of the link is that of SendPath.                             *)
LEMMA SamePlaced ==
  ASSUME NEW m, NEW count, NEW alloc
  PROVE  Link!Send!Placed(m, count, alloc) = Send!Placed(m, count, alloc)
BY DEF Link!Send!Placed, Send!Placed, Link!Send!Buffered, Send!Buffered, Link!Send!Queued,
   Send!Queued, Link!Send!QueuedFrame, Send!QueuedFrame, Link!Send!WithHeader, Send!WithHeader,
   Link!Send!Appended, Send!Appended, Link!Send!Fits, Send!Fits, Link!Send!Least, Send!Least,
   Link!Send!Rest, Send!Rest, Link!Send!Payload, Send!Payload, Link!Send!IdBytes, Send!IdBytes,
   Link!Send!SizeBytes, Send!SizeBytes, Link!Send!Junk, Send!Junk, Link!Send!HeaderSize,
   Send!HeaderSize, Link!Send!LeastAvail, Send!LeastAvail

(* A step of the link is one, or leaves the send side alone.                  *)
LEMMA StepOfLink ==
  ASSUME Link!Next
  PROVE  SendStep(LinkMax) \/ UNCHANGED sendVars
<1>1. ASSUME NEW count \in SendSizes, NEW alloc \in {TRUE, ~AllocFails}, Link!SendMsg(count, alloc)
      PROVE  SendStep(LinkMax)
  <2>1. calls < LinkMax /\ Placing(count, alloc) /\ alloc \in BOOLEAN
    BY <1>1, SamePlaced DEF Link!SendMsg, Link!Send!SendMsg, Placing
  <2> QED
    BY <2>1 DEF SendStep
<1>2. ASSUME NEW n \in 1..Len(sending), Link!Transmit(n)
      PROVE  SendStep(LinkMax)
  BY <1>2 DEF Link!Transmit, Link!Send!WriteDone, Send!WriteDone, SendStep
<1>3. CASE Link!Writer
  BY <1>3 DEF Link!Writer, Link!Send!PostWrite, Send!PostWrite, Link!Send!Refill,
     Send!Refill,
     Link!Send!Least, Send!Least, Link!Send!NextWrite, Send!NextWrite, SendStep
<1>4. CASE Link!Reader
  BY <1>4 DEF Link!Reader, Link!sendVars, sendVars
<1> QED
  BY <1>1, <1>2, <1>3, <1>4 DEF Link!Next

-----------------------------------------------------------------------------
(* The inductive invariant of the two byte paths: in each part the one of     *)
(* each side.                                                                 *)
WireInv ==
  CASE part = "link"  -> SendInv(LinkMax) /\ Link!Recv!IInv
    [] part = "large" -> SendInv(SendMax) /\ Large!IInv
    [] OTHER          -> SendInv(SendMax) /\ Shipped!IInv /\ Shipped!Tracked

(* It holds at the start.                                                     *)
LEMMA WireStarts ==
  ASSUME Init
  PROVE  WireInv
<1>1. Shipped!Init /\ Large!Init /\ Link!Recv!Init
  BY DEF Init, Shipped!Init, Large!Init, Link!Recv!Init
<1>2. /\ Shipped!RecvPathAssumption /\ Large!RecvPathAssumption /\ Link!Recv!RecvPathAssumption
      /\ SendBuf \in Nat /\ SendMax \in Nat /\ LinkMax \in Nat
  BY PartsAssumption, DataAssumption DEF Link!ConnectionAssumption, Send!SendPathAssumption,
     Link!Send!SendPathAssumption
<1>3. Shipped!IInv /\ Shipped!Tracked /\ Large!IInv /\ Link!Recv!IInv
  BY <1>1, <1>2, Shipped!InitHolds, Shipped!TrackedInit, Large!InitHolds,
     Link!Recv!InitHolds
<1>4. /\ data = <<>> /\ wait = <<>> /\ sending = <<>> /\ wire = <<>>
      /\ calls = 0 /\ writing = FALSE /\ chain = "none"
  BY DEF Init, Send!Init
<1>5. SendInv(SendMax) /\ SendInv(LinkMax)
  BY <1>2, <1>4 DEF SendInv, SendTyped, Send!NoEmptyWrite
<1> QED
  BY <1>3, <1>5 DEF WireInv

(* Every step of the link keeps the invariant of its receive side.            *)
LEMMA LinkRecvStep ==
  ASSUME SendInv(LinkMax), Link!Recv!IInv, Link!Next
  PROVE  Link!Recv!IInv'
<1>1. /\ sending \in Seq(SendByte(LinkMax)) /\ stream \in Seq(SendByte(LinkMax))
      /\ sent \in Seq([conn : 1..1, size : SendSizes])
  BY DEF SendInv, SendTyped, Link!Recv!IInv, Link!Recv!TypeOK, Link!Recv!Bytes, SendByte
<1>2. ASSUME stream' \in Seq(SendByte(LinkMax)), sent' \in Seq([conn : 1..1, size : SendSizes]),
             UNCHANGED Link!parserVars
      PROVE  Link!Recv!IInv'
  BY <1>2, Link!Recv!PeerStep DEF Link!parserVars, Link!Recv!Bytes, SendByte
<1>3. ASSUME NEW count \in SendSizes, NEW alloc \in {TRUE, ~AllocFails}, Link!SendMsg(count, alloc)
      PROVE  Link!Recv!IInv'
  <2>1. /\ sent' = Append(sent, [conn |-> conn, size |-> count])
        /\ stream' = stream /\ UNCHANGED Link!parserVars /\ conn \in 1..1
    BY <1>3 DEF Link!SendMsg, Link!Recv!IInv, Link!Recv!TypeOK
  <2>2. sent' \in Seq([conn : 1..1, size : SendSizes])
    BY <1>1, <2>1
  <2> QED
    BY <1>1, <1>2, <2>1, <2>2
<1>4. ASSUME NEW n \in 1..Len(sending), Link!Transmit(n)
      PROVE  Link!Recv!IInv'
  <2>1. /\ stream' = stream \o SubSeq(sending, 1, n)
        /\ sent' = sent /\ UNCHANGED Link!parserVars
    BY <1>4 DEF Link!Transmit
  <2>2. SubSeq(sending, 1, n) \in Seq(SendByte(LinkMax))
    BY <1>1
  <2>3. stream' \in Seq(SendByte(LinkMax))
    BY <1>1, <2>1, <2>2
  <2> QED
    BY <1>1, <1>2, <2>1, <2>3
<1>5. CASE Link!Writer
  BY <1>1, <1>2, <1>5 DEF Link!Writer, Link!recvVars
<1>6. CASE Link!Reader
  BY <1>6, DataAssumption, Link!Recv!ReadStep, Link!Recv!ParseStep DEF Link!Reader,
     Link!ConnectionAssumption
<1> QED
  BY <1>3, <1>4, <1>5, <1>6 DEF Link!Next

(* A step of the whole is one of a byte path, or leaves both sides alone.     *)
LEMMA WireActions ==
  ASSUME [UNCHANGED part /\ (BytesNext \/ SharedNext \/ TablesNext \/ CodesNext)]_vars
  PROVE  /\ part' = part
         /\ \/ UNCHANGED sendVars /\ UNCHANGED recvVars
            \/ part = "send" /\ Send!Next /\ UNCHANGED recvVars
            \/ part = "shipped" /\ Shipped!Next /\ UNCHANGED sendVars
            \/ part = "large" /\ Large!Next /\ UNCHANGED sendVars
            \/ part = "link" /\ Link!Next
BY DEF BytesNext, SharedNext, TablesNext, CodesNext, WireNext, wireVars, bytesVars, vars

(* SendSideStep, for stuttering steps too.                                    *)
LEMMA SendSideKept ==
  ASSUME NEW max \in Nat, SendInv(max), SendStep(max) \/ UNCHANGED sendVars
  PROVE  /\ SendInv(max)'
         /\ Send!Pipe!Take \/ Send!Pipe!PassOn \/ UNCHANGED <<Held, wire>>
<1>1. CASE UNCHANGED sendVars
  BY <1>1 DEF sendVars, SendInv, SendTyped, Send!NoEmptyWrite, Held
<1> QED
  BY <1>1, SendSideStep

(* Every step of the whole keeps the invariant, and is one of the pipe or     *)
(* leaves it alone.                                                           *)
LEMMA WireStep ==
  ASSUME WireInv,
         [UNCHANGED part /\ (BytesNext \/ SharedNext \/ TablesNext \/ CodesNext)]_vars
  PROVE  /\ WireInv'
         /\ Send!Pipe!Take \/ Send!Pipe!PassOn \/ UNCHANGED <<Held, wire>>
<1>1. UNCHANGED recvVars =>
        UNCHANGED Shipped!vars /\ UNCHANGED Large!vars /\ UNCHANGED Link!Recv!vars
  BY DEF recvVars, Shipped!vars, Large!vars, Shipped!peerVars, Large!peerVars,
     Link!Recv!vars,
     Link!Recv!peerVars
<1>2. /\ Shipped!RecvPathAssumption /\ Large!RecvPathAssumption /\ Link!Recv!RecvPathAssumption
      /\ Shipped!Shipped /\ SendMax \in Nat /\ LinkMax \in Nat
  BY PartsAssumption, DataAssumption DEF Shipped!Shipped, Shipped!HeaderSize,
     Send!SendPathAssumption,
     Link!Send!SendPathAssumption, Link!ConnectionAssumption
<1>3. CASE part = "link"
  <2>1. SendInv(LinkMax) /\ Link!Recv!IInv
    BY <1>3 DEF WireInv
  <2>2. /\ part' = "link"
        /\ (UNCHANGED sendVars /\ UNCHANGED recvVars) \/ Link!Next
    BY <1>3, WireActions
  <2>3. SendStep(LinkMax) \/ UNCHANGED sendVars
    BY <2>2, StepOfLink
  <2>4. Link!Recv!IInv'
    BY <1>1, <1>2, <2>1, <2>2, LinkRecvStep, Link!Recv!NextStep
  <2> QED
    BY <1>2, <1>3, <2>1, <2>2, <2>3, <2>4, SendSideKept, WireActions DEF WireInv
<1>4. CASE part # "link"
  <2>1. SendInv(SendMax) /\ part' = part /\ (Send!Next \/ UNCHANGED sendVars)
    BY <1>4, WireActions DEF WireInv
  <2>2. SendStep(SendMax) \/ UNCHANGED sendVars
    BY <2>1, StepOfSend
  <2>3. /\ SendInv(SendMax)'
        /\ Send!Pipe!Take \/ Send!Pipe!PassOn \/ UNCHANGED <<Held, wire>>
    BY <1>2, <2>1, <2>2, SendSideKept
  <2>4. CASE part = "large"
    <3>1. Large!IInv /\ (Large!Next \/ UNCHANGED Large!vars)
      BY <1>1, <2>4, WireActions DEF WireInv
    <3>2. Large!IInv'
      BY <1>2, <3>1, Large!NextStep
    <3> QED
      BY <1>4, <2>1, <2>3, <2>4, <3>2 DEF WireInv
  <2>5. CASE part # "large"
    <3>1. /\ Shipped!IInv /\ Shipped!Tracked
          /\ Shipped!Next \/ UNCHANGED Shipped!vars
      BY <1>1, <1>4, <2>5, WireActions DEF WireInv
    <3>2. Shipped!IInv' /\ Shipped!Tracked'
      BY <1>2, <3>1, Shipped!NextStep, Shipped!TrackedStep
    <3> QED
      BY <1>4, <2>1, <2>3, <2>5, <3>2 DEF WireInv
  <2> QED
    BY <2>4, <2>5
<1> QED
  BY <1>3, <1>4

(* The send side implements BytePipe: whatever send_msg accepts goes out once *)
(* and in order, through the buffer that is written, the buffer that is       *)
(* filled and the queue, however the writes end in part and allocations fail, *)
(* for any sizes of buffer and payloads (src/wlib/wnet_session.cpp).          *)
THEOREM BytesInOrder == Spec => ImplementsPipe
<1>1. Init => Send!Pipe!Init
  BY DEF Init, Send!Init, Send!Pipe!Init
<1>2. WireInv /\ [UNCHANGED part /\ (BytesNext \/ SharedNext \/ TablesNext \/ CodesNext)]_vars
        => [Send!Pipe!Take \/ Send!Pipe!PassOn]_<<sending \o data \o wait, wire>>
  BY WireStep DEF Held
<1> QED
  BY <1>1, <1>2, WireStarts, WireStep, PTL DEF Spec, ImplementsPipe, Send!ImplementsPipe,
     Send!Pipe!Spec

(* The payloads go out whole, in order and once, those of the messages that   *)
(* send_msg accepted and no byte of one it refused, for any sizes of buffer   *)
(* and payloads and any size key (src/wlib/wnet_session.cpp).                 *)
THEOREM PayloadsGoOut == Spec => []PayloadsIntact
<1> DEFINE Inv == WireInv /\ (part = "send" => AcceptedInv(SendMax))
<1>1. Init => Inv
  <2>1. Init => accepted = <<>> /\ wire = <<>> /\ Held = <<>>
    <3>1. <<>> \o <<>> \o <<>> = <<>>
      OBVIOUS
    <3> QED
      BY <3>1 DEF Init, Send!Init, Held
  <2>2. <<>> \o <<>> = <<>> /\ <<>> \in Seq(SendByte(SendMax))
    OBVIOUS
  <2> QED
    BY <2>1, <2>2, WireStarts DEF AcceptedInv
<1>2. Inv /\ [UNCHANGED part /\ (BytesNext \/ SharedNext \/ TablesNext \/ CodesNext)]_vars
        => Inv'
  <2> SUFFICES ASSUME WireInv, part = "send" => AcceptedInv(SendMax),
                      [UNCHANGED part /\ (BytesNext \/ SharedNext \/ TablesNext \/ CodesNext)]_vars
               PROVE  part' = "send" => AcceptedInv(SendMax)'
    BY WireStep
  <2>1. part' = part /\ (part = "send" => Send!Next \/ UNCHANGED sendVars)
    BY WireActions
  <2>2. part = "send" => SendInv(SendMax)
    BY DEF WireInv
  <2>3. UNCHANGED sendVars /\ AcceptedInv(SendMax) => AcceptedInv(SendMax)'
    BY DEF AcceptedInv, sendVars, Held
  <2>4. SendMax \in Nat
    BY PartsAssumption DEF Send!SendPathAssumption
  <2> QED
    BY <2>1, <2>2, <2>3, <2>4, AcceptedStep
<1>3. Inv => PayloadsIntact
  <2>1. SendMax \in Nat
    BY PartsAssumption DEF Send!SendPathAssumption
  <2> QED
    BY <2>1, AcceptedIsOut DEF PayloadsIntact, WireInv
<1> QED
  BY <1>1, <1>2, <1>3, PTL DEF Spec

(* A write of the send side always has something to write, and bytes that are *)
(* to be written have a write, for any sizes of buffer and payloads           *)
(* (src/wlib/wnet_session.cpp).                                               *)
THEOREM NeverAnEmptyWrite == Spec => []Send!NoEmptyWrite
<1>1. WireInv => Send!NoEmptyWrite
  BY DEF WireInv, SendInv
<1> QED
  BY <1>1, WireStarts, WireStep, PTL DEF Spec

(* As shipped, parse_msg hands out the messages of a connection whole, in     *)
(* order and once (src/wlib/wnet_session.cpp).                                *)
THEOREM MessagesAsSent == Spec => []DeliveredAsSent
<1>1. WireInv => DeliveredAsSent
  BY DEF WireInv, DeliveredAsSent, Shipped!Tracked
<1> QED
  BY <1>1, WireStarts, WireStep, PTL DEF Spec

(* parse_msg stays within what was read and within the block of its message,  *)
(* in the two instances of the receive side and behind the link               *)
(* (src/wlib/wnet_session.cpp).                                               *)
THEOREM BytesInBounds == Spec => []InBounds
<1>1. WireInv => InBounds
  BY DEF WireInv, InBounds, Link!InBounds, Link!Recv!IInv, Large!IInv, Shipped!IInv
<1> QED
  BY <1>1, WireStarts, WireStep, PTL DEF Spec

-----------------------------------------------------------------------------
(* The link, from end to end. *)

(* A prefix, by its elements.                                                 *)
LEMMA PrefixElements ==
  ASSUME NEW S, NEW s \in Seq(S), NEW t \in Seq(S)
  PROVE  /\ Link!Send!IsPrefix(s, t) <=> Len(s) <= Len(t) /\ \A i \in 1..Len(s) : t[i] = s[i]
         /\ Link!IsPrefix(s, t) <=> Len(s) <= Len(t) /\ \A i \in 1..Len(s) : t[i] = s[i]
<1>1. Len(s) \in Nat /\ Len(t) \in Nat
  BY LenProperties
<1> DEFINE a == SubSeq(s, 1, Len(s))
           b == SubSeq(t, 1, Len(s))
<1>2. a \in Seq(S) /\ Len(a) = Len(s) /\ \A i \in 1..Len(s) : a[i] = s[i]
  BY <1>1
<1>3. ASSUME Len(s) <= Len(t)
      PROVE  b \in Seq(S) /\ Len(b) = Len(s) /\ \A i \in 1..Len(s) : b[i] = t[i]
  BY <1>1, <1>3
<1> HIDE DEF a, b
<1>4. ASSUME Len(s) <= Len(t)
      PROVE  a = b <=> \A i \in 1..Len(s) : t[i] = s[i]
  <2>1. b \in Seq(S) /\ Len(b) = Len(s) /\ \A i \in 1..Len(s) : b[i] = t[i]
    BY <1>3, <1>4
  <2>2. ASSUME \A i \in 1..Len(s) : t[i] = s[i]
        PROVE  a = b
    <3>1. \A i \in 1..Len(a) : a[i] = b[i]
      BY <1>2, <2>1, <2>2
    <3> QED
      BY <1>2, <2>1, <3>1, SeqEqual
  <2> QED
    BY <1>2, <2>1, <2>2
<1>5. (Len(s) <= Len(t) /\ a = b) <=> (Len(s) <= Len(t) /\ \A i \in 1..Len(s) : t[i] = s[i])
  BY <1>4
<1> QED
  BY <1>5 DEF a, b, Link!Send!IsPrefix, Link!IsPrefix

(* c calls of send_msg accepted the frames a, of which w went out, and the    *)
(* receiver hears those.                                                      *)
LinkHears(c, a, w, f) ==
  /\ c = calls /\ a = accepted /\ w = wire
  /\ SendInv(c) /\ Len(sent) = c /\ c <= LinkMax
  /\ a \in Link!Recv!Bytes /\ w \in Link!Recv!Bytes
  /\ Link!Recv!Frames(sent, a) /\ Link!Recv!Arrivals(f, sent, a)
  /\ Link!Send!FramesIntact => Len(w) <= Len(a) /\ Link!Recv!Hearing(a, Len(w), f)

LinkHeard == \E c \in Nat : \E a, w, f : LinkHears(c, a, w, f)

(* It holds at the start.                                                     *)
LEMMA LinkHeardStarts ==
  ASSUME Init
  PROVE  LinkHeard
<1>1. Link!Recv!Init
  BY DEF Init, Shipped!Init, Link!Recv!Init
<1>2. PICK f : /\ Link!Recv!Frames(sent, <<>>) /\ Link!Recv!Arrivals(f, sent, <<>>)
               /\ Link!Recv!Hearing(<<>>, 0, f)
  BY <1>1, Link!Recv!HearingStarts
<1>3. /\ data = <<>> /\ wait = <<>> /\ sending = <<>> /\ wire = <<>> /\ accepted = <<>>
      /\ calls = 0 /\ writing = FALSE /\ chain = "none" /\ sent = <<>>
  BY DEF Init, Send!Init, Shipped!Init
<1>4. SendBuf \in Nat /\ LinkMax \in Nat
  BY PartsAssumption, DataAssumption DEF Link!ConnectionAssumption, Send!SendPathAssumption,
     Link!Send!SendPathAssumption
<1>5. SendInv(0)
  BY <1>3, <1>4 DEF SendInv, SendTyped, Send!NoEmptyWrite
<1>6. <<>> \in Link!Recv!Bytes /\ Len(<<>>) = 0
  BY DEF Link!Recv!Bytes
<1>7. LinkHears(0, <<>>, <<>>, f)
  BY <1>2, <1>3, <1>4, <1>5, <1>6 DEF LinkHears
<1> QED
  BY <1>7 DEF LinkHeard

(* What holds of a sender holds with room for one call more.                  *)
LEMMA OneCallMore ==
  ASSUME NEW c \in Nat, SendInv(c)
  PROVE  SendInv(c + 1)
<1>1. SendByte(c) \subseteq SendByte(c + 1)
  BY DEF SendByte
<1>2. Seq(SendByte(c)) \subseteq Seq(SendByte(c + 1))
  BY <1>1
<1> QED
  BY <1>2 DEF SendInv, SendTyped

(* Bytes that go out cannot be those of a message that comes later.           *)
LEMMA NotAhead ==
  ASSUME NEW c \in Nat, NEW w \in Seq(SendByte(c)), NEW a \in Link!Recv!Bytes,
         w \in Link!Recv!Bytes, NEW count \in Nat, NEW a2 \in Link!Recv!Bytes,
         NEW m, m = c + 1, Link!Recv!Adds(a, m, count, a2), Link!Send!IsPrefix(w, a2)
  PROVE  Link!Send!IsPrefix(w, a)
<1>1. /\ Len(w) \in Nat /\ Len(a) \in Nat
      /\ w \in Seq((0..LinkMax) \X Nat) /\ a \in Seq((0..LinkMax) \X Nat)
      /\ a2 \in Seq((0..LinkMax) \X Nat)
  BY LenProperties DEF Link!Recv!Bytes
<1>2. Len(w) <= Len(a2) /\ \A i \in 1..Len(w) : a2[i] = w[i]
  BY <1>1, PrefixElements
<1>3. Len(w) <= Len(a)
  <2>1. SUFFICES ASSUME ~(Len(w) <= Len(a)) PROVE FALSE
    OBVIOUS
  <2>2. Len(a) + 1 \in 1..Len(w) /\ 1 \in 1..(6 + count)
    BY <1>1, <2>1
  <2>3. w[Len(a) + 1] = <<c + 1, 1>>
    BY <1>2, <2>2 DEF Link!Recv!Adds, Link!Recv!HeaderSize
  <2>4. w[Len(a) + 1] \in (0..c) \X Nat
    BY <2>2, ElementOfSeq DEF SendByte
  <2>5. c + 1 \in 0..c
    BY <2>3, <2>4
  <2> QED
    BY <2>5
<1>4. \A i \in 1..Len(w) : i \in 1..Len(a)
  BY <1>1, <1>3
<1>5. \A i \in 1..Len(w) : a[i] = w[i]
  BY <1>2, <1>4 DEF Link!Recv!Adds
<1> QED
  BY <1>1, <1>3, <1>5, PrefixElements

(* A call of send_msg, whether it accepts its message or not.                 *)
LEMMA LinkSends ==
  ASSUME Link!Recv!IInv, LinkHeard, NEW count \in SendSizes, NEW alloc \in {TRUE, ~AllocFails},
         Link!SendMsg(count, alloc)
  PROVE  LinkHeard'
<1>0. PICK c \in Nat : \E a, w, f : LinkHears(c, a, w, f)
  BY DEF LinkHeard
<1>1. PICK a, w, f : LinkHears(c, a, w, f)
  BY <1>0
<1>2. /\ c = calls /\ a = accepted /\ w = wire /\ SendInv(c) /\ Len(sent) = c /\ c <= LinkMax
      /\ a \in Link!Recv!Bytes /\ w \in Link!Recv!Bytes
      /\ Link!Recv!Frames(sent, a) /\ Link!Recv!Arrivals(f, sent, a)
      /\ Link!Send!FramesIntact => Len(w) <= Len(a) /\ Link!Recv!Hearing(a, Len(w), f)
  BY <1>1 DEF LinkHears
<1>3. PICK q, q2, a2, c2 : q = sent /\ q2 = sent' /\ a2 = accepted' /\ c2 = c + 1
  OBVIOUS
<1>4. /\ calls < LinkMax /\ calls' = c2 /\ wire' = w /\ q2 = Append(q, [conn |-> conn, size |-> count])
      /\ a2 = a \/ a2 = a \o Link!Send!Frame(c2, count)
      /\ stream' = stream /\ UNCHANGED Link!parserVars
      /\ Placing(count, alloc) /\ alloc \in BOOLEAN
  BY <1>2, <1>3, SamePlaced DEF Link!SendMsg, Link!Send!SendMsg, Placing
<1>5. /\ Link!Recv!RecvPathAssumption /\ LinkMax \in Nat /\ count \in Nat /\ count # 0
  <2>1. Link!Recv!RecvPathAssumption /\ LinkMax \in Nat /\ SendSizes \subseteq Nat \ {0}
    BY DataAssumption DEF Link!ConnectionAssumption, Link!Send!SendPathAssumption
  <2> QED
    BY <2>1
<1>6. SendInv(c2)' /\ c2 \in Nat /\ c2 <= LinkMax
  <2>1. c2 \in Nat /\ SendInv(c2) /\ calls < c2 /\ c2 <= LinkMax
    BY <1>2, <1>3, <1>4, <1>5, OneCallMore
  <2> QED
    BY <1>4, <2>1, PlacingStep
<1>7. /\ q \in Link!Recv!Msgs /\ q2 \in Link!Recv!Msgs /\ Len(q) = c
      /\ Link!Recv!Longer(q, q2) /\ Len(q2) = c2
      /\ q2[c2].conn = conn /\ q2[c2].size = count
  <2>1. q \in Link!Recv!Msgs /\ conn \in 1..1 /\ Len(q) = c
    BY <1>2, <1>3 DEF Link!Recv!IInv, Link!Recv!TypeOK, Link!Recv!Msgs
  <2>2. PICK r \in [conn : 1..1, size : SendSizes] : r = [conn |-> conn, size |-> count]
    BY <2>1
  <2>3. q \in Seq([conn : 1..1, size : SendSizes]) /\ q2 = Append(q, r)
    BY <1>4, <2>1, <2>2 DEF Link!Recv!Msgs
  <2>4. /\ q2 \in Seq([conn : 1..1, size : SendSizes]) /\ Len(q2) = Len(q) + 1
        /\ \A k \in 1..Len(q) : q2[k] = q[k]
        /\ q2[Len(q) + 1] = r
    BY ONLY <2>3, AppendProperties
  <2> QED
    BY <1>3, <2>1, <2>2, <2>4 DEF Link!Recv!Msgs, Link!Recv!Longer
<1>8. ASSUME a2 = a \o Link!Send!Frame(c2, count)
      PROVE  /\ a2 \in Link!Recv!Bytes /\ Len(a2) = Len(a) + (6 + count)
             /\ \A i \in 1..Len(a) : a2[i] = a[i]
             /\ Link!Recv!Adds(a, c2, count, a2)
  <2>1. PICK u : u = Link!Send!Frame(c2, count)
    OBVIOUS
  <2>2. /\ u \in Seq((0..LinkMax) \X Nat) /\ Len(u) = 6 + count
        /\ \A j \in 1..(6 + count) : u[j] = <<c2, j>>
    <3>0. 6 + count \in Nat
      BY <1>5
    <3>1. PICK n, B : n = 6 + count /\ B = (0..LinkMax) \X Nat /\ n \in Nat
      BY <3>0
    <3>2. u = [k \in 1..n |-> <<c2, k>>]
      BY <2>1, <3>1 DEF Link!Send!Frame, Link!Send!HeaderSize
    <3>3. \A k \in 1..n : <<c2, k>> \in B
      BY <1>5, <1>6, <3>1
    <3>4. u \in Seq(B) /\ Len(u) = n /\ \A j \in 1..n : u[j] = <<c2, j>>
      BY ONLY <3>1, <3>2, <3>3
    <3> QED
      BY ONLY <3>1, <3>4
  <2>3. a \in Seq((0..LinkMax) \X Nat) /\ a2 = a \o u
    BY <1>2, <1>8, <2>1 DEF Link!Recv!Bytes
  <2>4. /\ a2 \in Seq((0..LinkMax) \X Nat) /\ Len(a2) = Len(a) + Len(u)
        /\ \A i \in 1..Len(a) : a2[i] = a[i]
        /\ \A j \in 1..Len(u) : a2[Len(a) + j] = u[j]
    <3>1. u \in Seq((0..LinkMax) \X Nat)
      BY <2>2
    <3> QED
      BY <2>3, <3>1, Link!Recv!JoinOf, Link!Recv!ConcatKeepsType
  <2>5. \A j \in 1..(6 + count) : a2[Len(a) + j] = <<c2, j>>
    BY <2>2, <2>4
  <2> QED
    BY <2>2, <2>4, <2>5 DEF Link!Recv!Bytes, Link!Recv!Adds, Link!Recv!HeaderSize
<1>9. /\ a2 \in Link!Recv!Bytes /\ Link!Recv!Frames(q2, a2)
      /\ Len(a) <= Len(a2) /\ \A i \in 1..Len(a) : a2[i] = a[i]
      /\ Link!Recv!SameBegun(q, a, a2)
  <2>0. Len(a) \in Nat
    BY <1>2, LenProperties DEF Link!Recv!Bytes
  <2>1. CASE a2 = a
    <3>1. /\ Link!Recv!RecvPathAssumption /\ q \in Link!Recv!Msgs /\ a \in Link!Recv!Bytes
          /\ Link!Recv!Frames(q, a) /\ q2 \in Link!Recv!Msgs /\ Link!Recv!Longer(q, q2)
      BY <1>2, <1>3, <1>5, <1>7
    <3>2. Link!Recv!Frames(q2, a) /\ Link!Recv!SameBegun(q, a, a)
      BY ONLY <3>1, Link!Recv!FramesRefuse
    <3> QED
      BY <1>2, <2>0, <2>1, <3>2
  <2>2. CASE a2 = a \o Link!Send!Frame(c2, count)
    <3>1. /\ Link!Recv!RecvPathAssumption /\ q \in Link!Recv!Msgs /\ a \in Link!Recv!Bytes
          /\ Link!Recv!Frames(q, a) /\ q2 \in Link!Recv!Msgs /\ Link!Recv!Longer(q, q2)
          /\ c2 \in Nat /\ c2 = Len(q) + 1 /\ count \in Nat /\ q2[c2].size = count
          /\ a2 \in Link!Recv!Bytes /\ Link!Recv!Adds(a, c2, count, a2)
      BY <1>2, <1>3, <1>5, <1>6, <1>7, <1>8, <2>0, <2>2
    <3>2. /\ Link!Recv!Frames(q2, a2) /\ Link!Recv!Begun(a2, c2)
          /\ Link!Recv!SameBegun(q, a, a2)
      BY ONLY <3>1, Link!Recv!FramesAppend
    <3>3. Len(a) <= Len(a2)
      BY <1>5, <1>8, <2>0, <2>2
    <3> QED
      BY <1>8, <2>2, <3>1, <3>2, <3>3
  <2> QED
    BY <1>4, <2>1, <2>2
<1>10. PICK f2 : Link!Recv!Arrivals(f2, q2, a2) /\ Link!Recv!Extends(q, a, f, q2, a2, f2)
  <2>1. /\ q \in Link!Recv!Msgs /\ Link!Recv!Arrivals(f, q, a) /\ q2 \in Link!Recv!Msgs
        /\ Link!Recv!Longer(q, q2) /\ Link!Recv!SameBegun(q, a, a2)
        /\ Len(a) <= Len(a2) /\ \A i \in 1..Len(a) : a2[i] = a[i]
    BY <1>2, <1>3, <1>7, <1>9
  <2> QED
    BY ONLY <2>1, Link!Recv!ArrivalsExtend
<1>11. ASSUME Link!Send!FramesIntact'
       PROVE  Link!Send!FramesIntact
  <2>1. Link!Send!IsPrefix(w, a2)
    BY <1>3, <1>4, <1>11 DEF Link!Send!FramesIntact
  <2>2. Link!Send!IsPrefix(w, a)
    <3>1. CASE a2 = a
      BY <2>1, <3>1
    <3>2. CASE a2 = a \o Link!Send!Frame(c2, count)
      <4>1. w \in Seq(SendByte(c))
        BY <1>2 DEF SendInv, SendTyped
      <4>2. /\ c \in Nat /\ w \in Seq(SendByte(c)) /\ a \in Link!Recv!Bytes
            /\ w \in Link!Recv!Bytes /\ count \in Nat /\ a2 \in Link!Recv!Bytes
            /\ c2 = c + 1 /\ Link!Recv!Adds(a, c2, count, a2) /\ Link!Send!IsPrefix(w, a2)
        BY <1>2, <1>3, <1>5, <1>8, <2>1, <3>2, <4>1
      <4> QED
        BY ONLY <4>2, NotAhead
    <3> QED
      BY <1>4, <3>1, <3>2
  <2> QED
    BY <1>2, <2>2 DEF Link!Send!FramesIntact
<1>12. ASSUME Link!Send!FramesIntact'
       PROVE  Len(w) <= Len(a2) /\ Link!Recv!Hearing(a2, Len(w), f2)'
  <2>1. Len(w) <= Len(a) /\ Link!Recv!Hearing(a, Len(w), f)
    BY <1>2, <1>11, <1>12
  <2>2. Len(w) \in Nat /\ Len(a) \in Nat /\ Len(a2) \in Nat
    BY <1>2, <1>9, LenProperties DEF Link!Recv!Bytes
  <2>3. PICK l \in 0..Len(a) : l = Len(w)
    BY <2>1, <2>2
  <2>4. Link!Recv!Hearing(a2, l, f2)'
    <3>1. /\ Link!Recv!RecvPathAssumption /\ Link!Recv!IInv /\ a \in Link!Recv!Bytes
          /\ Link!Recv!Frames(sent, a) /\ l \in 0..Len(a) /\ Link!Recv!Hearing(a, l, f)
          /\ Link!Recv!Extends(sent, a, f, q2, a2, f2) /\ sent' = q2
          /\ q2[Len(sent) + 1].conn = conn
          /\ UNCHANGED <<conn, stream, buf, parse, expect, msg, delivered, reader>>
      BY <1>2, <1>3, <1>4, <1>5, <1>7, <1>10, <2>1, <2>3 DEF Link!parserVars
    <3> QED
      BY ONLY <3>1, Link!Recv!HeardSend
  <2> QED
    BY <1>9, <2>1, <2>2, <2>3, <2>4
<1>13. LinkHears(c2, a2, w, f2)'
  BY <1>3, <1>4, <1>6, <1>7, <1>9, <1>10, <1>12, <1>2 DEF LinkHears
<1> QED
  BY <1>6, <1>13 DEF LinkHeard

(* The socket takes n bytes, which are on their way then.                     *)
LEMMA LinkTransmits ==
  ASSUME Link!Recv!IInv, LinkHeard, NEW n \in 1..Len(sending), Link!Transmit(n)
  PROVE  LinkHeard'
<1>0. PICK c \in Nat : \E a, w, f : LinkHears(c, a, w, f)
  BY DEF LinkHeard
<1>1. PICK a, w, f : LinkHears(c, a, w, f)
  BY <1>0
<1>2. /\ c = calls /\ a = accepted /\ w = wire /\ SendInv(c) /\ Len(sent) = c /\ c <= LinkMax
      /\ a \in Link!Recv!Bytes /\ w \in Link!Recv!Bytes
      /\ Link!Recv!Frames(sent, a) /\ Link!Recv!Arrivals(f, sent, a)
      /\ Link!Send!FramesIntact => Len(w) <= Len(a) /\ Link!Recv!Hearing(a, Len(w), f)
  BY <1>1 DEF LinkHears
<1>3. PICK s, w2, q : s = SubSeq(sending, 1, n) /\ w2 = wire' /\ q = sent
  OBVIOUS
<1>4. /\ w2 = w \o s /\ stream' = stream \o s /\ accepted' = a /\ calls' = c /\ sent' = q
      /\ UNCHANGED <<conn, sent, buf, parse, expect, msg, delivered, reader>>
  BY <1>2, <1>3 DEF Link!Transmit, Link!Send!WriteDone, Link!parserVars
<1>5. SendInv(c)'
  <2>1. SendStep(c)
    BY DEF Link!Transmit, Link!Send!WriteDone, Send!WriteDone, SendStep
  <2> QED
    BY <1>2, <2>1, SendSideKept
<1>6. s \in Link!Recv!Bytes
  <2>1. sending \in Seq(SendByte(c)) /\ LinkMax \in Nat
    BY <1>2, DataAssumption DEF SendInv, SendTyped, Link!ConnectionAssumption,
       Link!Send!SendPathAssumption
  <2>2. SendByte(c) \subseteq (0..LinkMax) \X Nat
    BY <1>2, <2>1 DEF SendByte
  <2>3. sending \in Seq((0..LinkMax) \X Nat)
    BY <2>1, <2>2
  <2>4. SubSeq(sending, 1, n) \in Seq((0..LinkMax) \X Nat)
    BY <2>3
  <2> QED
    BY <1>3, <2>4 DEF Link!Recv!Bytes
<1>7. /\ w2 \in Link!Recv!Bytes /\ Len(w2) = Len(w) + Len(s)
      /\ \A i \in 1..Len(w) : w2[i] = w[i]
      /\ \A j \in 1..Len(s) : w2[Len(w) + j] = s[j]
      /\ Len(w) \in Nat /\ Len(s) \in Nat /\ Len(a) \in Nat
  <2>1. w \in Seq((0..LinkMax) \X Nat) /\ s \in Seq((0..LinkMax) \X Nat)
        /\ a \in Seq((0..LinkMax) \X Nat)
    BY <1>2, <1>6 DEF Link!Recv!Bytes
  <2> QED
    BY <1>4, <2>1, LenProperties, Link!Recv!JoinOf, Link!Recv!ConcatKeepsType DEF Link!Recv!Bytes
<1>8. ASSUME Link!Send!FramesIntact'
      PROVE  /\ Link!Send!FramesIntact /\ Len(w2) <= Len(a)
             /\ \A j \in 1..Len(s) : a[Len(w) + j] = s[j]
  <2>1. /\ w \in Seq((0..LinkMax) \X Nat) /\ a \in Seq((0..LinkMax) \X Nat)
        /\ w2 \in Seq((0..LinkMax) \X Nat)
    BY <1>2, <1>7 DEF Link!Recv!Bytes
  <2>2. Link!Send!IsPrefix(w2, a)
    BY <1>3, <1>4, <1>8 DEF Link!Send!FramesIntact
  <2>3. Len(w2) <= Len(a) /\ \A i \in 1..Len(w2) : a[i] = w2[i]
    BY <2>1, <2>2, PrefixElements
  <2>4. \A i \in 1..Len(w) : i \in 1..Len(w2)
    BY <1>7
  <2>5. \A j \in 1..Len(s) : Len(w) + j \in 1..Len(w2)
    BY <1>7
  <2>6. Len(w) <= Len(a)
    BY <1>7, <2>3
  <2>7. \A i \in 1..Len(w) : a[i] = w[i]
    BY <1>7, <2>3, <2>4
  <2>8. Link!Send!IsPrefix(w, a)
    BY <2>1, <2>6, <2>7, PrefixElements
  <2> QED
    BY <1>2, <1>7, <2>3, <2>5, <2>8 DEF Link!Send!FramesIntact
<1>9. ASSUME Link!Send!FramesIntact'
      PROVE  Len(w2) <= Len(a) /\ Link!Recv!Hearing(a, Len(w2), f)'
  <2>1. PICK l \in Nat : l = Len(w)
    BY <1>7
  <2>2. /\ Link!Recv!IInv /\ a \in Link!Recv!Bytes /\ l \in Nat /\ Link!Recv!Hearing(a, l, f)
        /\ s \in Link!Recv!Bytes /\ \A i \in 1..Len(s) : a[l + i] = s[i]
        /\ stream' = stream \o s
        /\ UNCHANGED <<conn, sent, buf, parse, expect, msg, delivered, reader>>
    BY <1>2, <1>4, <1>6, <1>8, <1>9, <2>1
  <2>3. Link!Recv!Hearing(a, l + Len(s), f)'
    BY ONLY <2>2, Link!Recv!HeardMore
  <2>4. PICK z : z = l + Len(s)
    OBVIOUS
  <2>5. z = Len(w2)
    BY <1>7, <2>1, <2>4
  <2>6. Link!Recv!Hearing(a, z, f)'
    BY <2>3, <2>4
  <2> QED
    BY <1>8, <1>9, <2>5, <2>6
<1>10. LinkHears(c, a, w2, f)'
  BY <1>2, <1>3, <1>4, <1>5, <1>7, <1>9 DEF LinkHears
<1> QED
  BY <1>10 DEF LinkHeard

(* The sender goes on with its buffers.                                       *)
LEMMA LinkWrites ==
  ASSUME LinkHeard, Link!Writer \/ (UNCHANGED sendVars /\ UNCHANGED recvVars)
  PROVE  LinkHeard'
<1>0. PICK c \in Nat : \E a, w, f : LinkHears(c, a, w, f)
  BY DEF LinkHeard
<1>1. PICK a, w, f : LinkHears(c, a, w, f)
  BY <1>0
<1>2. /\ UNCHANGED <<calls, accepted, wire>> /\ UNCHANGED recvVars
      /\ SendStep(c) \/ UNCHANGED sendVars
  BY DEF Link!Writer, Link!recvVars, Link!parserVars, recvVars, sendVars, SendStep,
     Link!Send!PostWrite, Send!PostWrite, Link!Send!Refill, Send!Refill, Link!Send!Least,
     Send!Least, Link!Send!NextWrite, Send!NextWrite
<1>3. SendInv(c)'
  BY <1>1, <1>2, SendSideKept DEF LinkHears
<1>4. PICK l : l = Len(w)
  OBVIOUS
<1>5. Link!Recv!Hearing(a, l, f) => Link!Recv!Hearing(a, l, f)'
  BY <1>2, Link!Recv!HeardStays DEF recvVars
<1>6. Link!Send!FramesIntact' => Link!Send!FramesIntact
  BY <1>2 DEF Link!Send!FramesIntact
<1>7. LinkHears(c, a, w, f)'
  BY <1>1, <1>2, <1>3, <1>4, <1>5, <1>6 DEF LinkHears, recvVars
<1> QED
  BY <1>7 DEF LinkHeard

(* The receiver reads and parses.                                             *)
LEMMA LinkReads ==
  ASSUME Link!Recv!IInv, LinkHeard, Link!Reader
  PROVE  LinkHeard'
<1>0. PICK c \in Nat : \E a, w, f : LinkHears(c, a, w, f)
  BY DEF LinkHeard
<1>1. PICK a, w, f : LinkHears(c, a, w, f)
  BY <1>0
<1>2. (Link!Recv!Read \/ Link!Recv!Parse) /\ sent' = sent
  BY DEF Link!Reader, Link!Recv!Read, Link!Recv!Parse,
     Link!Recv!HandleRead, Link!Recv!ParseHeader, Link!Recv!ParseComplete,
     Link!Recv!ParsePartial, Link!Recv!ParseEnd, Link!Recv!peerVars
<1>3. UNCHANGED sendVars /\ UNCHANGED <<calls, accepted, wire>>
  BY DEF Link!Reader, Link!sendVars, sendVars
<1>4. SendInv(c)'
  BY <1>1, <1>3, SendSideKept DEF LinkHears
<1>5. Link!Send!FramesIntact' => Link!Send!FramesIntact
  BY <1>3 DEF Link!Send!FramesIntact
<1>6. Link!Recv!RecvPathAssumption /\ 6 = Link!Recv!HeaderSize
  BY DataAssumption DEF Link!ConnectionAssumption, Link!Recv!HeaderSize
<1>7. ASSUME Link!Send!FramesIntact'
      PROVE  Len(w) <= Len(a) /\ Link!Recv!Hearing(a, Len(w), f)'
  <2>1. Len(w) <= Len(a) /\ Link!Recv!Hearing(a, Len(w), f)
    BY <1>1, <1>5, <1>7 DEF LinkHears
  <2>2. Len(w) \in Nat /\ Len(a) \in Nat
    BY <1>1, LenProperties DEF LinkHears, Link!Recv!Bytes
  <2>3. PICK l \in 0..Len(a) : l = Len(w)
    BY <2>1, <2>2
  <2>4. /\ Link!Recv!RecvPathAssumption /\ 6 = Link!Recv!HeaderSize /\ Link!Recv!IInv
        /\ a \in Link!Recv!Bytes /\ Link!Recv!Frames(sent, a) /\ Link!Recv!Arrivals(f, sent, a)
        /\ l \in 0..Len(a) /\ Link!Recv!Hearing(a, l, f)
        /\ Link!Recv!Read \/ Link!Recv!Parse
    BY <1>1, <1>2, <1>6, <2>1, <2>3 DEF LinkHears
  <2>5. Link!Recv!Hearing(a, l, f)'
    BY ONLY <2>4, Link!Recv!HeardStep
  <2> QED
    BY <2>1, <2>3, <2>5
<1>8. LinkHears(c, a, w, f)'
  BY <1>1, <1>2, <1>3, <1>4, <1>7 DEF LinkHears
<1> QED
  BY <1>8 DEF LinkHeard

(* Every step of the link keeps it.                                           *)
LEMMA LinkStep ==
  ASSUME Link!Recv!IInv, LinkHeard, Link!Next \/ (UNCHANGED sendVars /\ UNCHANGED recvVars)
  PROVE  LinkHeard'
<1>1. ASSUME NEW count \in SendSizes, NEW alloc \in {TRUE, ~AllocFails}, Link!SendMsg(count, alloc)
      PROVE  LinkHeard'
  BY <1>1, LinkSends
<1>2. ASSUME NEW n \in 1..Len(sending), Link!Transmit(n)
      PROVE  LinkHeard'
  BY <1>2, LinkTransmits
<1>3. CASE Link!Writer \/ (UNCHANGED sendVars /\ UNCHANGED recvVars)
  BY <1>3, LinkWrites
<1>4. CASE Link!Reader
  BY <1>4, LinkReads
<1> QED
  BY <1>1, <1>2, <1>3, <1>4 DEF Link!Next

(* What was heard is what the property says.                                  *)
LEMMA HeardArrives ==
  ASSUME Link!Recv!IInv, LinkHeard
  PROVE  Link!FramesArrive
<1> SUFFICES ASSUME Link!Send!FramesIntact
             PROVE  Link!FramesArrive
  BY DEF Link!FramesArrive
<1>0. PICK c \in Nat : \E a, w, f : LinkHears(c, a, w, f)
  BY DEF LinkHeard
<1>1. PICK a, w, f : LinkHears(c, a, w, f)
  BY <1>0
<1> DEFINE Is(g) ==
      g = [m \in 0..calls |->
             IF m = 0 THEN <<>>
             ELSE IF <<m, 1>> \in Link!ToSet(accepted) THEN Append(g[m - 1], Link!Recv!Meant(m))
             ELSE g[m - 1]]
    g == CHOOSE g : Is(g)
<1>2. Link!FramesArrive <=> Link!IsPrefix(delivered, g[calls])
  BY DEF Link!FramesArrive
<1> HIDE DEF Is
<1>3. /\ calls = Len(sent) /\ a = accepted /\ a \in Link!Recv!Bytes
      /\ Link!Recv!Frames(sent, a) /\ Link!Recv!Arrivals(f, sent, a)
      /\ Len(w) <= Len(a) /\ Link!Recv!Hearing(a, Len(w), f)
      /\ Len(w) \in Nat /\ Len(a) \in Nat /\ Len(sent) <= LinkMax
  BY <1>1, LenProperties DEF LinkHears, Link!Recv!Bytes
<1>4. \A m : <<m, 1>> \in Link!ToSet(accepted) <=> Link!Recv!Begun(a, m)
  <2>1. DOMAIN a = 1..Len(a)
    BY <1>3 DEF Link!Recv!Bytes
  <2>2. \A e : e \in Link!ToSet(a) <=> \E i \in 1..Len(a) : a[i] = e
    BY <2>1 DEF Link!ToSet
  <2> QED
    BY <1>3, <2>2 DEF Link!Recv!Begun
<1>5. \A h : Is(h) <=> Link!Recv!Arrivals(h, sent, a)
  BY <1>3, <1>4 DEF Is, Link!Recv!Arrivals, Link!Recv!Meant
<1>6. Link!Recv!Arrivals(g, sent, a)
  BY <1>3, <1>5
<1> HIDE DEF g
<1>7. sent \in Link!Recv!Msgs /\ Link!Recv!RecvPathAssumption
  BY DataAssumption DEF Link!Recv!IInv, Link!Recv!TypeOK, Link!Recv!Msgs,
     Link!ConnectionAssumption
<1>8. f[Len(sent)] = g[Len(sent)]
  <2>1. sent \in Link!Recv!Msgs /\ Link!Recv!Arrivals(f, sent, a) /\ Link!Recv!Arrivals(g, sent, a)
    BY <1>3, <1>6, <1>7
  <2> QED
    BY ONLY <2>1, Link!Recv!ArrivalsAgree
<1>9. Link!Recv!Begins(delivered, f[Len(sent)])
  <2>1. PICK l \in 0..Len(a) : l = Len(w)
    BY <1>3
  <2>2. /\ Link!Recv!RecvPathAssumption /\ Link!Recv!IInv /\ Len(sent) <= LinkMax
        /\ a \in Link!Recv!Bytes /\ Link!Recv!Frames(sent, a) /\ Link!Recv!Arrivals(f, sent, a)
        /\ l \in 0..Len(a) /\ Link!Recv!Hearing(a, l, f)
    BY <1>3, <1>7, <2>1
  <2> QED
    BY ONLY <2>2, Link!Recv!HeardPrefix
<1>10. Link!IsPrefix(delivered, f[Len(sent)])
  BY <1>9, PrefixElements DEF Link!Recv!Begins
<1> QED
  BY <1>2, <1>3, <1>8, <1>10

(* From the send_msg of one session to the callback of another: the accepted  *)
(* messages arrive whole, in order and once and no refused one does, however  *)
(* the network cuts the stream, for any size of the send buffer, any payloads *)
(* and any size key, with the receive buffer of one header that is shipped    *)
(* and as long as no header was lost (src/wlib/wnet_session.cpp).             *)
THEOREM AcceptedArrive == Spec => []FramesArrive
<1> DEFINE Inv == WireInv /\ (part = "link" => LinkHeard)
<1>1. Init => Inv
  BY WireStarts, LinkHeardStarts
<1>2. Inv /\ [UNCHANGED part /\ (BytesNext \/ SharedNext \/ TablesNext \/ CodesNext)]_vars
        => Inv'
  <2> SUFFICES ASSUME WireInv, part = "link" => LinkHeard,
                      [UNCHANGED part /\ (BytesNext \/ SharedNext \/ TablesNext \/ CodesNext)]_vars
               PROVE  part' = "link" => LinkHeard'
    BY WireStep
  <2>1. /\ part' = part
        /\ part = "link" => Link!Next \/ (UNCHANGED sendVars /\ UNCHANGED recvVars)
    BY WireActions
  <2>2. part = "link" => Link!Recv!IInv
    BY DEF WireInv
  <2> QED
    BY <2>1, <2>2, LinkStep
<1>3. Inv => FramesArrive
  <2> SUFFICES ASSUME Inv
               PROVE  FramesArrive
    OBVIOUS
  <2>1. part = "link" => Link!Recv!IInv
    BY DEF WireInv
  <2> QED
    BY <2>1, HeardArrives DEF FramesArrive
<1> QED
  BY <1>1, <1>2, <1>3, PTL DEF Spec

-----------------------------------------------------------------------------
(* The rings start empty.                                                     *)
LEMMA RingsStart ==
  ASSUME Init
  PROVE  RingInv /\ RingItems = <<>> /\ QueueInv /\ QueueItems = <<>>
BY PartsAssumption, RingStarts, QueueStarts DEF Init, Ring!CycleBufferAssumption

(* Every step of the whole is one of the two fifos or leaves them alone.      *)
LEMMA RingsStep ==
  ASSUME RingInv, QueueInv,
         [UNCHANGED part /\ (BytesNext \/ SharedNext \/ TablesNext \/ CodesNext)]_vars
  PROVE  /\ RingInv' /\ QueueInv'
         /\ Ring!Fifo!Put \/ Ring!Fifo!Fetch \/ Ring!Fifo!Clear \/ UNCHANGED <<RingItems, call>>
         /\ \/ Queue!Fifo!Put \/ Queue!Fifo!Fetch \/ Queue!Fifo!Clear \/ Queue!Fifo!Resize
            \/ UNCHANGED <<maxSize, QueueItems, lastCall>>
<1>1. RingSize \in Nat \ {0} /\ QueueMax \in Nat \ {0}
  BY PartsAssumption DEF Ring!CycleBufferAssumption, Queue!CycleQueueAssumption
<1>2. /\ Ring!Next \/ UNCHANGED ringVars
      /\ Queue!Next \/ UNCHANGED queueVars
  BY DEF BytesNext, SharedNext, TablesNext, CodesNext, vars, tablesVars
<1>3. UNCHANGED ringVars => RingInv' /\ UNCHANGED <<RingItems, call>>
  BY DEF ringVars, RingInv, RingItems
<1>4. UNCHANGED queueVars => QueueInv' /\ UNCHANGED <<maxSize, QueueItems, lastCall>>
  BY DEF queueVars, QueueInv, QueueItems
<1> QED
  BY <1>1, <1>2, <1>3, <1>4, RingStep, QueueStep

(* The ring buffer and the ring queue are bounded fifos wherever in the ring  *)
(* the head stands, of any size: what goes in comes out once and in order,    *)
(* and a call is refused exactly when there is no room or not enough to take  *)
(* (src/wlib/wcycle_buffer.cpp, src/wlib/wcycle_queue.h).                     *)
THEOREM RingsKeepOrder == Spec => RingsAreFifos
<1>1. Init => Ring!Fifo!Init /\ Queue!Fifo!Init
  BY RingsStart DEF Ring!Fifo!Init, Queue!Fifo!Init, RingItems, QueueItems, Contents
<1>2. RingInv /\ QueueInv
      /\ [UNCHANGED part /\ (BytesNext \/ SharedNext \/ TablesNext \/ CodesNext)]_vars
        => RingInv' /\ QueueInv'
  BY RingsStep
<1>3. RingInv /\ QueueInv
      /\ [UNCHANGED part /\ (BytesNext \/ SharedNext \/ TablesNext \/ CodesNext)]_vars
        => [Ring!Fifo!Put \/ Ring!Fifo!Fetch \/ Ring!Fifo!Clear \/ Ring!Fifo!Resize]_
             <<RingSize, [i \in 1..len |-> ring[(head + i - 1) % RingSize]], call>>
  BY RingsStep DEF RingItems, Contents
<1>4. RingInv /\ QueueInv
      /\ [UNCHANGED part /\ (BytesNext \/ SharedNext \/ TablesNext \/ CodesNext)]_vars
        => [Queue!Fifo!Put \/ Queue!Fifo!Fetch \/ Queue!Fifo!Clear \/ Queue!Fifo!Resize]_
             <<maxSize, [i \in 1..size |-> datas[(front + i - 1) % maxSize]], lastCall>>
  BY RingsStep DEF QueueItems, Contents
<1> QED
  BY <1>1, <1>2, <1>3, <1>4, RingsStart, PTL DEF Spec, RingsAreFifos, Ring!ImplementsFifo,
     Queue!ImplementsFifo, Ring!Fifo!Spec, Queue!Fifo!Spec

-----------------------------------------------------------------------------
(* Each list of the pool holds the free blocks of its class, all of them and  *)
(* nothing else, and reads backwards as forwards, also between two turns of a *)
(* garbage collection, and the counter is the size of all of them, for any    *)
(* blocks, threads, size classes and limit (src/wlib/wnet_mem_pool.cpp).      *)
THEOREM FreeListsWhole == Spec => []ListsWhole
<1>1. Init => PoolInv /\ Pool!MemPoolAssumption
  BY PoolStart, PartsAssumption DEF Init
<1>2. PoolInv /\ Pool!MemPoolAssumption
      /\ [UNCHANGED part /\ (BytesNext \/ SharedNext \/ TablesNext \/ CodesNext)]_vars
        => PoolInv'
  <2> SUFFICES ASSUME PoolInv, Pool!MemPoolAssumption,
                      [UNCHANGED part /\ (BytesNext \/ SharedNext \/ TablesNext \/ CodesNext)]_vars
               PROVE  PoolInv'
    OBVIOUS
  <2>1. UNCHANGED poolVars \/ Pool!Next
    BY DEF BytesNext, SharedNext, TablesNext, CodesNext, vars, sharedVars
  <2>2. UNCHANGED poolVars => UNCHANGED Pool!vars
    BY DEF poolVars, Pool!vars, Pool!listVars
  <2> QED
    BY <2>1, <2>2, PoolStep
<1>3. PoolInv => ListsWhole
  BY PoolIsWhole, PartsAssumption DEF ListsWhole
<1>4. Pool!MemPoolAssumption
  BY PartsAssumption
<1> QED
  BY <1>1, <1>2, <1>3, <1>4, PTL DEF Spec

-----------------------------------------------------------------------------
(* CryptoInv holds always.                                                    *)
LEMMA CryptoPart ==
  ASSUME CryptoInv,
         [UNCHANGED part /\ (BytesNext \/ SharedNext \/ TablesNext \/ CodesNext)]_vars
  PROVE  CryptoInv'
<1>1. UNCHANGED cryptoVars \/ Crypto!Next
  BY DEF BytesNext, SharedNext, TablesNext, CodesNext, vars, codesVars
<1>2. UNCHANGED cryptoVars => UNCHANGED Crypto!vars
  BY DEF cryptoVars, Crypto!vars
<1> QED
  BY <1>1, <1>2, CryptoStep

(* What the receiver decrypts is what was sent, in order, as long as send_msg *)
(* has taken every encrypted message, over new keys and reconnections, for    *)
(* any number of byte values that a power of two is, any keys and messages    *)
(* (src/wlib/wrc4.cpp).                                                       *)
THEOREM DecryptedAsSent == Spec => []ReadAsSent
<1>1. Init => CryptoInv
  BY CryptoStarts DEF Init
<1>2. CryptoInv
      /\ [UNCHANGED part /\ (BytesNext \/ SharedNext \/ TablesNext \/ CodesNext)]_vars
        => CryptoInv'
  BY CryptoPart
<1>3. CryptoInv => ReadAsSent
  BY CryptoReads DEF ReadAsSent
<1> QED
  BY <1>1, <1>2, <1>3, PTL DEF Spec

-----------------------------------------------------------------------------
(* ClockInv holds always.                                                     *)
LEMMA ClockPart ==
  ASSUME ClockInv,
         [UNCHANGED part /\ (BytesNext \/ SharedNext \/ TablesNext \/ CodesNext)]_vars
  PROVE  ClockInv'
<1>1. UNCHANGED clockVars \/ Clock!Next
  BY DEF BytesNext, SharedNext, TablesNext, CodesNext, vars, codesVars
<1> QED
  BY <1>1, ClockStep

(* Whatever moment it is and whatever the time zone, the stamp of a time of   *)
(* the day is the first moment after now at which a clock shows it, the       *)
(* stamps of the week agree with it, and those in 32 bits with those in 64    *)
(* just until the seconds since 1970 outgrow an int, which is in 2038         *)
(* (src/wlib/wtime_api.cpp).                                                  *)
THEOREM NextMomentsStamped == Spec => []StampsAreNext
<1>1. Init => ClockInv
  BY ClockStarts DEF Init
<1>2. ClockInv
      /\ [UNCHANGED part /\ (BytesNext \/ SharedNext \/ TablesNext \/ CodesNext)]_vars
        => ClockInv'
  BY ClockPart
<1>3. ClockInv => StampsAreNext
  BY ClockShows DEF StampsAreNext
<1> QED
  BY <1>1, <1>2, <1>3, PTL DEF Spec

-----------------------------------------------------------------------------
(* DigestInv holds always.                                                    *)
LEMMA DigestPart ==
  ASSUME DigestInv,
         [UNCHANGED part /\ (BytesNext \/ SharedNext \/ TablesNext \/ CodesNext)]_vars
  PROVE  DigestInv'
<1>1. UNCHANGED md5Vars \/ Md!Next
  BY DEF BytesNext, SharedNext, TablesNext, CodesNext, vars, codesVars
<1> QED
  BY <1>1, DigestStep

(* Whatever the size of a block, of the length and of a word, and however the *)
(* message is cut into the pieces of update(), a digest that was made before  *)
(* one spoiled the buffer is that of the whole message: padded with one bit,  *)
(* zeros and its length in bits to whole blocks (src/wlib/wmd5.cpp).          *)
THEOREM MessagesDigested == Spec => []DigestOfMessage
<1>1. Init => DigestInv
  BY DigestStarts DEF Init
<1>2. DigestInv
      /\ [UNCHANGED part /\ (BytesNext \/ SharedNext \/ TablesNext \/ CodesNext)]_vars
        => DigestInv'
  BY DigestPart
<1>3. DigestInv => DigestOfMessage
  BY DigestShows DEF DigestOfMessage
<1> QED
  BY <1>1, <1>2, <1>3, PTL DEF Spec
=============================================================================
