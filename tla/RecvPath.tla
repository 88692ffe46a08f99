------------------------------- MODULE RecvPath -------------------------------
(***************************************************************************)
(* The bytes on the receive side of one wnet_session over its connections  *)
(* (src/wlib/wnet_session.cpp: handle_read, parse_msg, reset).             *)
(*                                                                         *)
(* A byte is <<message, position in its frame>> as in SendPath; the peer   *)
(* frames its messages properly and the network cuts the stream anywhere.  *)
(* One turn of the loop of parse_msg is one or two steps, all by the one   *)
(* worker that handles the session's read (OneReader of SessionLifecycle). *)
(***************************************************************************)
EXTENDS Naturals, Sequences

CONSTANTS
  RecvBuf,    (* m_recv_buff_size                                       *)
  MaxSize,    (* m_max_received_msg_size                                *)
  Sizes,      (* payload sizes the peer sends                           *)
  CutMidway,  (* whether a connection may end in the middle of a message *)
  AllocFails, (* whether wnet_mem_pool ever refuses a message           *)
  MaxMsgs,    (* bound: messages sent, on all connections               *)
  MaxConns,   (* bound: connections                                     *)
  Nil         (* m_msg_ptr is null                                      *)

HeaderSize == 6   (* MSG_HEADER_SIZE *)

RecvPathAssumption ==
  /\ RecvBuf \in Nat /\ RecvBuf >= HeaderSize
  /\ MaxSize \in Nat
  /\ Sizes \subseteq Nat
  /\ CutMidway \in BOOLEAN /\ AllocFails \in BOOLEAN
  /\ MaxMsgs \in Nat /\ MaxConns \in Nat \ {0}
  /\ Nil \notin [conn : Nat, id : Nat, body : Seq(Nat \X Nat)]

VARIABLES
  conn,      (* number of the connection, for m_session_id              *)
  sent,      (* the peer's messages: connection and size of each        *)
  stream,    (* bytes sent and not received yet                         *)
  buf,       (* the first recv_size bytes of m_recv_buf_ptr->buf        *)
  parse,     (* parse_size                                              *)
  expect,    (* m_recv_buf_ptr->expect_size                             *)
  msg,       (* *m_msg_ptr, or Nil                                      *)
  delivered, (* messages handed to m_msg_callback                       *)
  pc         (* "reading", "parse" (in the loop), "closed"              *)

peerVars == <<conn, sent, stream>>
vars == <<peerVars, buf, parse, expect, msg, delivered, pc>>

-----------------------------------------------------------------------------
Frame(m, size)   == [k \in 1..(HeaderSize + size) |-> <<m, k>>]
Payload(m, size) == [k \in 1..size |-> <<m, HeaderSize + k>>]

(* What the peer meant message m to be. *)
Meant(m) == [conn |-> sent[m].conn, id |-> m, body |-> Payload(m, sent[m].size)]

(* header_ptr: the first bytes of the buffer, whatever parse_size is. *)
HeaderBytes == SubSeq(buf, 1, HeaderSize)

(* The id and the size in those bytes. Bytes that are not one header can    *)
(* make any id and size; 0 stands for an id that no message has.            *)
Headers ==
  IF Len(buf) < HeaderSize THEN {}
  ELSE IF \E m \in 1..Len(sent) : HeaderBytes = SubSeq(Frame(m, 0), 1, HeaderSize)
  THEN LET m == HeaderBytes[1][1] IN {[id |-> m, size |-> sent[m].size]}
  ELSE [id : {0}, size : 0..(MaxSize + 1)]

(* Mutants of two of the counts below: expect_size is not reduced, the rest *)
(* of a message needs a header's worth of bytes.                            *)
StillAll           == expect
EnoughForHeader(n) == Len(buf) + n >= HeaderSize

Available     == Len(buf) - parse
StillExpected == expect - Available
EnoughToParse(n) == msg # Nil \/ Len(buf) + n >= HeaderSize

-----------------------------------------------------------------------------
Init ==
  /\ conn = 1 /\ sent = <<>> /\ stream = <<>>
  /\ buf = <<>> /\ parse = 0 /\ expect = 0 /\ msg = Nil
  /\ delivered = <<>>
  /\ pc = "reading"

PeerSend(size) ==
  /\ pc # "closed"
  /\ Len(sent) < MaxMsgs
  /\ sent'   = Append(sent, [conn |-> conn, size |-> size])
  /\ stream' = stream \o Frame(Len(sent) + 1, size)
  /\ UNCHANGED <<conn, buf, parse, expect, msg, delivered, pc>>

(* handle_read with n bytes. *)
HandleRead(n) ==
  /\ pc = "reading"
  /\ buf'    = buf \o SubSeq(stream, 1, n)
  /\ stream' = SubSeq(stream, n + 1, Len(stream))
  /\ parse'  = 0
  /\ pc' = IF EnoughToParse(n) THEN "parse" ELSE "reading"
  /\ UNCHANGED <<conn, sent, expect, msg, delivered>>

(* A header is complete: note the size, allocate the message. One that is   *)
(* too big, or that gets no memory, ends the connection.                    *)
ParseHeader(h, alloc) ==
  /\ pc = "parse"
  /\ msg = Nil
  /\ Available >= HeaderSize
  /\ expect' = h.size
  /\ \/ /\ h.size > MaxSize \/ ~alloc
        /\ pc' = "closed"
        /\ UNCHANGED <<msg, parse>>
     \/ /\ h.size <= MaxSize /\ alloc
        /\ msg'   = [conn |-> conn, id |-> h.id, body |-> <<>>]
        /\ parse' = parse + HeaderSize
        /\ UNCHANGED pc
  /\ UNCHANGED <<peerVars, buf, delivered>>

(* The rest of the message is there: m_msg_callback gets it. *)
ParseComplete ==
  /\ pc = "parse"
  /\ msg # Nil
  /\ Available >= expect
  /\ delivered' = Append(delivered,
                    [msg EXCEPT !.body = @ \o SubSeq(buf, parse + 1, parse + expect)])
  /\ parse'  = parse + expect
  /\ expect' = 0
  /\ msg'    = Nil
  /\ UNCHANGED <<peerVars, buf, pc>>

(* Only a part is there: keep it, the buffer is free again. *)
ParsePartial ==
  /\ pc = "parse"
  /\ msg # Nil
  /\ Available < expect
  /\ msg'    = [msg EXCEPT !.body = @ \o SubSeq(buf, parse + 1, Len(buf))]
  /\ expect' = StillExpected
  /\ buf'    = <<>>
  /\ parse'  = Len(buf)
  /\ pc'     = "reading"
  /\ UNCHANGED <<peerVars, delivered>>

(* Mutant: the beginning of the next header is thrown away. *)
ParseEndDropping ==
  /\ pc = "parse"
  /\ msg = Nil
  /\ Available < HeaderSize
  /\ buf' = <<>>
  /\ pc'  = "reading"
  /\ UNCHANGED <<peerVars, parse, expect, msg, delivered>>

(* Not even a header is left: move what there is to the front. *)
ParseEnd ==
  /\ pc = "parse"
  /\ msg = Nil
  /\ Available < HeaderSize
  /\ buf' = SubSeq(buf, parse + 1, Len(buf))
  /\ pc'  = "reading"
  /\ UNCHANGED <<peerVars, parse, expect, msg, delivered>>

(* The connection ends between two handlers, or because of parse_msg; the   *)
(* session is reset() and gets the next one. m_msg_ptr is left as it is.    *)
Reconnect ==
  /\ conn < MaxConns
  /\ \/ pc = "closed"
     \/ pc = "reading" /\ (CutMidway \/ (stream = <<>> /\ buf = <<>> /\ msg = Nil))
  /\ conn'   = conn + 1
  /\ stream' = <<>>
  /\ buf'    = <<>>
  /\ expect' = 0
  /\ pc'     = "reading"
  /\ UNCHANGED <<sent, parse, msg, delivered>>

Parse ==
  \/ \E h \in Headers, alloc \in {TRUE, ~AllocFails} : ParseHeader(h, alloc)
  \/ ParseComplete \/ ParsePartial \/ ParseEnd

(* Mutant: the read may fill the whole buffer again. *)
WholeBuffer == RecvBuf

Room == RecvBuf - Len(buf)

Read == \E n \in 1..Len(stream) : n <= Room /\ HandleRead(n)

Next == (\E size \in Sizes : PeerSend(size)) \/ Read \/ Parse \/ Reconnect

Spec == Init /\ [][Next]_vars

-----------------------------------------------------------------------------
Bytes == Seq((0..MaxMsgs) \X Nat)   (* 0: of no message *)
Message == [conn : 1..MaxConns, id : 0..MaxMsgs, body : Bytes]

(* The type of every variable; recv_size stays within the buffer. *)
TypeOK ==
  /\ conn \in 1..MaxConns
  /\ sent \in Seq([conn : 1..MaxConns, size : Sizes])
  /\ stream \in Bytes
  /\ buf \in Bytes /\ Len(buf) <= RecvBuf
  /\ parse \in 0..RecvBuf
  /\ expect \in Nat
  /\ msg \in Message \cup {Nil}
  /\ delivered \in Seq(Message)
  /\ pc \in {"reading", "parse", "closed"}

(* However the stream is cut and however wrong a header is, parse_size does *)
(* not run past recv_size (their difference is unsigned); a message does    *)
(* not outgrow the block that was allocated for its size; and between two   *)
(* reads there is room in the buffer: a read into no room completes with 0  *)
(* bytes, which handle_read takes for the end of the connection.            *)
InBounds ==
  /\ pc = "parse"   => parse <= Len(buf)
  /\ pc = "reading" => Len(buf) < HeaderSize
  /\ msg # Nil      => Len(msg.body) + expect <= MaxSize

(* The application gets the messages the peer sent: each whole, under the    *)
(* id of the connection it came by, in order and once, and none before all  *)
(* those that were sent earlier on its connection.                          *)
DeliveredAsSent ==
  \A i \in DOMAIN delivered :
    LET id == delivered[i].id IN
    /\ id \in 1..Len(sent) /\ delivered[i] = Meant(id)
    /\ \A j \in 1..(i - 1) : delivered[j].id < id
    /\ \A m \in 1..(id - 1) :
         sent[m].conn = sent[id].conn => \E j \in 1..(i - 1) : delivered[j].id = m

(* A message that is sent on the connection is delivered, unless parse_msg  *)
(* closes it.                                                               *)
EveryMessageArrives ==
  \A m \in 1..MaxMsgs :
    Len(sent) >= m /\ sent[m].conn = conn
      ~> \/ pc = "closed"
         \/ Len(sent) >= m /\ \E i \in DOMAIN delivered : delivered[i] = Meant(m)
=============================================================================
