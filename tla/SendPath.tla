------------------------------- MODULE SendPath -------------------------------
(***************************************************************************)
(* The bytes on the send side of one open wnet_session                     *)
(* (src/wlib/wnet_session.cpp: send_msg, handle_write, push_to_queue,      *)
(* queue_to_buf, wsend_buffer::append).                                    *)
(*                                                                         *)
(* A byte is <<message, position in its frame>>: positions 1..2 are the    *)
(* message id, 3..6 its size, the rest the payload. Any number of threads  *)
(* call send_msg; the locked part is one step. handle_write belongs to the *)
(* one write that is under way (OneWriter of SessionLifecycle), wherever   *)
(* that is is "chain". Closing is in SessionLifecycle.                     *)
(***************************************************************************)
EXTENDS Naturals, Sequences, SequencesExt

CONSTANTS
  BufSize,    (* m_send_buff_size                             *)
  Sizes,      (* payload sizes the application sends          *)
  SizeKey,    (* m_msg_size_key                               *)
  AllocFails, (* whether wnet_mem_pool ever refuses a buffer  *)
  MaxMsgs     (* bound: calls of send_msg                     *)

HeaderSize == 6   (* MSG_HEADER_SIZE, sizeof(wmsg_header)           *)
LeastAvail == 4   (* sizeof(MSG_HEADER_SIZE), the size of a uint32  *)
Junk       == 0   (* message number of a byte that was never written *)

(* wnet_session_mgr::init refuses a send buffer smaller than a header; *)
(* send_msg refuses an empty message.                                  *)
SendPathAssumption ==
  /\ BufSize \in Nat /\ BufSize >= HeaderSize
  /\ Sizes \subseteq Nat \ {0}
  /\ SizeKey \in Nat
  /\ AllocFails \in BOOLEAN
  /\ MaxMsgs \in Nat

VARIABLES
  data,      (* bytes of m_data_buf_ptr                                   *)
  wait,      (* bytes of the queue from m_wait_head_ptr, in order         *)
  sending,   (* bytes of m_sending_buf_ptr from send_size on              *)
  writing,   (* m_is_writing                                              *)
  chain,     (* the write under way: "none", "post", "op", "written", "refilled" *)
  wire,      (* bytes the socket took                                     *)
  calls,     (* calls of send_msg so far                                  *)
  accepted   (* frames of the messages for which send_msg returned true   *)

vars == <<data, wait, sending, writing, chain, wire, calls, accepted>>

Byte == (0..MaxMsgs) \X Nat

-----------------------------------------------------------------------------
Least(a, b) == IF a < b THEN a ELSE b

(* A message as it should go out, and its parts. *)
Frame(m, size)   == [k \in 1..(HeaderSize + size) |-> <<m, k>>]
IdBytes(m)       == << <<m, 1>>, <<m, 2>> >>
SizeBytes(m)     == << <<m, 3>>, <<m, 4>>, <<m, 5>>, <<m, 6>> >>
Payload(m, size) == [k \in 1..size |-> <<m, HeaderSize + k>>]

(* wsend_buffer::append: what fits goes in. *)
Fits(buf, bytes)   == Least(Len(bytes), BufSize - Len(buf))
Appended(buf, bytes) == buf \o SubSeq(bytes, 1, Fits(buf, bytes))

(* push_to_queue of a whole message: the size is copied over the id, and a  *)
(* size that is 0 after the exclusive or gets no header at all.             *)
QueuedFrame(m, size) ==
  IF size = SizeKey THEN Payload(m, size)
  ELSE SizeBytes(m) \o << <<Junk, 5>>, <<Junk, 6>> >> \o Payload(m, size)

(* What send_msg leaves in the buffers and returns; alloc: the pool gives a *)
(* buffer for the queue.                                                    *)
Queued(m, size, alloc) ==
  [data |-> data,
   wait |-> IF alloc THEN wait \o QueuedFrame(m, size) ELSE wait,
   ok   |-> alloc]

WithHeader(m) == Appended(Appended(data, IdBytes(m)), SizeBytes(m))

(* Mutant: the queue gets the payload from its start. *)
RestFromStart(m, size, fits) == SubSeq(Payload(m, size), 1, size - fits)

Rest(m, size, fits) == SubSeq(Payload(m, size), fits + 1, size)

(* Without a buffer for the rest, 4 bytes of the header and the part of the *)
(* payload are taken back.                                                  *)
Buffered(m, size, alloc) ==
  LET fits == Fits(WithHeader(m), Payload(m, size))
      full == Appended(WithHeader(m), Payload(m, size))
  IN CASE fits = size ->
            [data |-> full, wait |-> wait, ok |-> TRUE]
       [] fits < size /\ alloc ->
            [data |-> full, ok |-> TRUE,
             wait |-> wait \o Rest(m, size, fits)]
       [] fits < size /\ ~alloc ->
            [data |-> SubSeq(full, 1, Len(full) - (4 + fits)), wait |-> wait, ok |-> FALSE]

Placed(m, size, alloc) ==
  IF wait = <<>> /\ BufSize - Len(data) >= LeastAvail
  THEN Buffered(m, size, alloc)
  ELSE Queued(m, size, alloc)

-----------------------------------------------------------------------------
Init ==
  /\ data = <<>> /\ wait = <<>> /\ sending = <<>>
  /\ writing = FALSE
  /\ chain = "none"
  /\ wire = <<>>
  /\ calls = 0
  /\ accepted = <<>>

(* send_msg under m_mutex. A message that did not have to join a queue may  *)
(* start the write: compare_exchange_strong, then the swap of the buffers.  *)
SendMsg(size, alloc) ==
  LET m == calls + 1
      r == Placed(m, size, alloc)
      start == r.ok /\ wait = <<>> /\ ~writing
  IN
  /\ calls < MaxMsgs
  /\ calls' = m
  /\ wait'  = r.wait
  /\ accepted' = IF r.ok THEN accepted \o Frame(m, size) ELSE accepted
  /\ \/ /\ start
        /\ writing' = TRUE
        /\ sending' = r.data
        /\ data'    = sending
        /\ chain'   = "post"
     \/ /\ ~start
        /\ data' = r.data
        /\ UNCHANGED <<writing, sending, chain>>
  /\ UNCHANGED wire

(* async_write_some, by the thread that started the write. *)
PostWrite ==
  /\ chain = "post"
  /\ chain' = "op"
  /\ UNCHANGED <<data, wait, sending, writing, wire, calls, accepted>>

(* handle_write: the socket took n bytes. If some are left they are posted. *)
WriteDone(n) ==
  /\ chain = "op"
  /\ wire'    = wire \o SubSeq(sending, 1, n)
  /\ sending' = SubSeq(sending, n + 1, Len(sending))
  /\ chain'   = IF n = Len(sending) THEN "written" ELSE "op"
  /\ UNCHANGED <<data, wait, writing, calls, accepted>>

(* Mutant: the queue goes before the data buffer. *)
RefillQueueFirst ==
  LET n == Least(BufSize, Len(wait)) IN
  /\ chain = "written"
  /\ \/ /\ wait = <<>>
        /\ sending' = data
        /\ data'    = sending
        /\ UNCHANGED wait
     \/ /\ wait # <<>>
        /\ sending' = SubSeq(wait, 1, n)
        /\ wait'    = SubSeq(wait, n + 1, Len(wait))
        /\ UNCHANGED data
  /\ chain' = "refilled"
  /\ UNCHANGED <<writing, wire, calls, accepted>>

(* All bytes are out, under m_mutex: swap in the data buffer, or if it is   *)
(* empty fill up from the queue (queue_to_buf).                             *)
Refill ==
  LET n == Least(BufSize, Len(wait)) IN
  /\ chain = "written"
  /\ \/ /\ data # <<>>
        /\ sending' = data
        /\ data'    = sending
        /\ UNCHANGED wait
     \/ /\ data = <<>>
        /\ sending' = SubSeq(wait, 1, n)
        /\ wait'    = SubSeq(wait, n + 1, Len(wait))
        /\ UNCHANGED data
  /\ chain' = "refilled"
  /\ UNCHANGED <<writing, wire, calls, accepted>>

(* Outside the mutex: post the next write, or stop. *)
NextWrite ==
  /\ chain = "refilled"
  /\ \/ /\ sending # <<>>
        /\ chain' = "op"
        /\ UNCHANGED writing
     \/ /\ sending = <<>>
        /\ chain'   = "none"
        /\ writing' = FALSE
  /\ UNCHANGED <<data, wait, sending, wire, calls, accepted>>

Next ==
  \/ \E size \in Sizes, alloc \in {TRUE, ~AllocFails} : SendMsg(size, alloc)
  \/ PostWrite
  \/ \E n \in 1..Len(sending) : WriteDone(n)
  \/ Refill
  \/ NextWrite

Spec == Init /\ [][Next]_vars

-----------------------------------------------------------------------------
(* The type of every variable; no buffer holds more than its size. *)
TypeOK ==
  /\ data \in Seq(Byte) /\ Len(data) <= BufSize
  /\ sending \in Seq(Byte) /\ Len(sending) <= BufSize
  /\ wait \in Seq(Byte)
  /\ writing \in BOOLEAN
  /\ chain \in {"none", "post", "op", "written", "refilled"}
  /\ wire \in Seq(Byte)
  /\ calls \in 0..MaxMsgs
  /\ accepted \in Seq(Byte)

(* A write of no bytes completes with 0 bytes, which handle_write takes for *)
(* a broken connection. No write is posted with nothing to send, and bytes  *)
(* that are to be sent have a write.                                        *)
NoEmptyWrite ==
  /\ chain \in {"post", "op"} => sending # <<>>
  /\ chain \in {"none", "written"} => sending = <<>>
  /\ writing <=> chain # "none"

(* Bytes keep their order through the two buffers and the queue. *)
Pipe == INSTANCE BytePipe WITH held <- sending \o data \o wait, out <- wire
ImplementsPipe == Pipe!Spec

(* The payload bytes among others (a recursive function, for the proofs). *)
PayloadOf(bytes) ==
  LET payload[n \in 0..Len(bytes)] ==
        IF n = 0 THEN <<>>
        ELSE IF bytes[n][2] > HeaderSize THEN Append(payload[n - 1], bytes[n])
        ELSE payload[n - 1]
  IN payload[Len(bytes)]

(* Whatever becomes of the headers, the payloads go out whole, in order and *)
(* once, those of the messages that were accepted and no byte of a refused  *)
(* one: however a message is split over the buffer and the queue, and when  *)
(* the part of it that is in the buffer is taken back.                      *)
PayloadsIntact == IsPrefix(PayloadOf(wire), PayloadOf(accepted))

(* "send the data to the given connection": what goes out is a prefix of    *)
(* the frames of the messages that were accepted.                           *)
FramesIntact == IsPrefix(wire, accepted)
=============================================================================
