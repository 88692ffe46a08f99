------------------------------ MODULE Connection ------------------------------
(***************************************************************************)
(* One connection between two sessions of the library: the bytes that the  *)
(* send side of the one (SendPath) gives to its socket are those that the  *)
(* receive side of the other (RecvPath) reads. The network is external: it *)
(* keeps the bytes in order and cuts them anywhere. The receive side is    *)
(* taken with its theorems, for MCData_proofs.                             *)
(***************************************************************************)
EXTENDS Naturals, Sequences, SequencesExt

CONSTANTS
  SendBuf,    (* m_send_buff_size of the sender                   *)
  SizeKey,    (* m_msg_size_key, the same on both sides           *)
  RecvBuf,    (* m_recv_buff_size of the receiver                 *)
  MaxSize,    (* m_max_received_msg_size of the receiver          *)
  Sizes,      (* payload sizes the application sends              *)
  AllocFails, (* whether wnet_mem_pool ever refuses, on each side *)
  MaxMsgs,    (* bound: calls of send_msg                         *)
  Nil         (* m_msg_ptr is null                                *)

VARIABLES
  data, wait, sending, writing, chain, wire, calls, accepted,    (* of SendPath *)
  conn, sent, stream, buf, parse, expect, msg, delivered, pc     (* of RecvPath *)

Send == INSTANCE SendPath WITH BufSize <- SendBuf
Recv == INSTANCE RecvPath_proofs WITH CutMidway <- FALSE, MaxConns <- 1

ConnectionAssumption == Send!SendPathAssumption /\ Recv!RecvPathAssumption

sendVars   == <<data, wait, sending, writing, chain, wire, calls, accepted>>
parserVars == <<conn, buf, parse, expect, msg, delivered, pc>>
recvVars   == <<parserVars, sent, stream>>
vars       == <<sendVars, recvVars>>

Init == Send!Init /\ Recv!Init

-----------------------------------------------------------------------------
(* Every call of send_msg, accepted or not, is a message with a number. *)
SendMsg(size, alloc) ==
  /\ Send!SendMsg(size, alloc)
  /\ sent' = Append(sent, [conn |-> conn, size |-> size])
  /\ UNCHANGED <<stream, parserVars>>

(* What the socket took is on its way. *)
Transmit(n) ==
  /\ Send!WriteDone(n)
  /\ stream' = stream \o SubSeq(sending, 1, n)
  /\ UNCHANGED <<sent, parserVars>>

Writer == (Send!PostWrite \/ Send!Refill \/ Send!NextWrite) /\ UNCHANGED recvVars

Reader == (Recv!Read \/ Recv!Parse) /\ UNCHANGED sendVars

Next ==
  \/ \E size \in Sizes, alloc \in {TRUE, ~AllocFails} : SendMsg(size, alloc)
  \/ \E n \in 1..Len(sending) : Transmit(n)
  \/ Writer
  \/ Reader

Spec == Init /\ [][Next]_vars

-----------------------------------------------------------------------------
(* The type of every variable; what is received was sent. *)
TypeOK ==
  /\ Send!TypeOK /\ Recv!TypeOK
  /\ Len(sent) = calls
  /\ Len(stream) + Len(buf) <= Len(wire)

(* What the other application gets are the messages that send_msg accepted, *)
(* whole, in order and once, and none that it refused: as long as each of   *)
(* them went out with its header (FramesIntact; a message that is queued    *)
(* whole, or taken back, breaks that).                                      *)
FramesArrive ==
  LET arrived[m \in 0..calls] ==
        IF m = 0 THEN <<>>
        ELSE IF <<m, 1>> \in ToSet(accepted) THEN Append(arrived[m - 1], Recv!Meant(m))
        ELSE arrived[m - 1]
  IN Send!FramesIntact => IsPrefix(delivered, arrived[calls])

(* Whatever the sender makes of its headers, the receiver stays inside of   *)
(* its buffer and of its message.                                           *)
InBounds == Recv!InBounds
=============================================================================
