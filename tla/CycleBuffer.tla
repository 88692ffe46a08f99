----------------------------- MODULE CycleBuffer -----------------------------
(***************************************************************************)
(* wcycle_buffer: a ring of bytes in a buffer of the caller; a read or a   *)
(* write that crosses the end is copied in two parts                       *)
(* (src/wlib/wcycle_buffer.cpp).                                           *)
(***************************************************************************)
EXTENDS Naturals, Sequences

CONSTANTS
  BufSize, (* m_buf_size                                    *)
  Values,  (* bytes                                         *)
  Garbage  (* what the caller's buffer holds at the start    *)

CycleBufferAssumption == BufSize \in Nat \ {0}

VARIABLES
  buf,    (* m_buf                              *)
  head,   (* m_head                             *)
  tail,   (* m_tail                             *)
  len,    (* m_cur_len                          *)
  call    (* the last call and what it returned *)

ring == <<buf, head, tail, len>>
vars == <<ring, call>>

Places == 0..(BufSize - 1)

(* memcpy out of and into the ring, within its end. *)
Bytes(at, n) == [i \in 1..n |-> buf[at + i - 1]]
Copied(b, at, xs) ==
  [i \in Places |-> IF at <= i /\ i < at + Len(xs) THEN xs[i - at + 1] ELSE b[i]]

Called(op, given, n, ok, got) ==
  call' = [op |-> op, given |-> given, n |-> n, ok |-> ok, got |-> got]

Init ==
  /\ buf = [i \in Places |-> Garbage]
  /\ head = 0 /\ tail = 0 /\ len = 0
  /\ call = [op |-> "clear", given |-> <<>>, n |-> 0, ok |-> TRUE, got |-> <<>>]

-----------------------------------------------------------------------------
Reset ==
  /\ head' = 0 /\ tail' = 0 /\ len' = 0
  /\ Called("clear", <<>>, 0, TRUE, <<>>)
  /\ UNCHANGED buf

(* Mutant: the second part starts over with the first byte. *)
StoredTwice(xs) ==
  LET right == BufSize - tail IN
  IF Len(xs) <= right
  THEN Copied(buf, tail, xs)
  ELSE Copied(Copied(buf, tail, SubSeq(xs, 1, right)), 0, SubSeq(xs, 1, Len(xs) - right))

Stored(xs) ==
  LET right == BufSize - tail IN
  IF Len(xs) <= right
  THEN Copied(buf, tail, xs)
  ELSE Copied(Copied(buf, tail, SubSeq(xs, 1, right)), 0, SubSeq(xs, right + 1, Len(xs)))

Write(xs) ==
  LET room == Len(xs) <= BufSize - len IN
  /\ IF xs # <<>> /\ room
     THEN /\ buf'  = Stored(xs)
          /\ tail' = (tail + Len(xs)) % BufSize
          /\ len'  = len + Len(xs)
          /\ UNCHANGED head
     ELSE UNCHANGED ring
  /\ Called("put", xs, 0, xs = <<>> \/ room, <<>>)

Peeked(n) ==
  LET right == BufSize - head IN
  IF n <= right THEN Bytes(head, n) ELSE Bytes(head, right) \o Bytes(0, n - right)

Peek(n) ==
  /\ Called("look", <<>>, n, n <= len, IF n <= len THEN Peeked(n) ELSE <<>>)
  /\ UNCHANGED ring

HeadAfter(n) == (head + n) % BufSize

Skip(n) ==
  /\ IF n <= len
     THEN /\ head' = HeadAfter(n)
          /\ len'  = len - n
          /\ UNCHANGED <<buf, tail>>
     ELSE UNCHANGED ring
  /\ Called("skip", <<>>, n, n <= len, <<>>)

Read(n) ==
  /\ IF n <= len
     THEN /\ head' = HeadAfter(n)
          /\ len'  = len - n
          /\ UNCHANGED <<buf, tail>>
     ELSE UNCHANGED ring
  /\ Called("get", <<>>, n, n <= len, IF n <= len THEN Peeked(n) ELSE <<>>)

-----------------------------------------------------------------------------
Inputs == UNION {[1..n -> Values] : n \in 0..(BufSize + 1)}

Next ==
  \/ Reset
  \/ \E xs \in Inputs : Write(xs)
  \/ \E n \in 0..(BufSize + 1) : Peek(n) \/ Skip(n) \/ Read(n)

Spec == Init /\ [][Next]_vars

-----------------------------------------------------------------------------
(* The type of every variable; the three counters agree, with the ring empty *)
(* or full when head and tail meet.                                         *)
TypeOK ==
  /\ buf \in [Places -> Values \cup {Garbage}]
  /\ head \in Places /\ tail \in Places
  /\ len \in 0..BufSize
  /\ tail = (head + len) % BufSize

(* The ring is the fifo of its bytes, wherever the head stands. *)
Fifo == INSTANCE BoundedFifo
          WITH capacity <- BufSize,
               items <- [i \in 1..len |-> buf[(head + i - 1) % BufSize]]
ImplementsFifo == Fifo!Spec
=============================================================================
