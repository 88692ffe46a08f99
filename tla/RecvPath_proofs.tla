---------------------------- MODULE RecvPath_proofs ----------------------------
(***************************************************************************)
(* Theorems about RecvPath: its types and bounds for any constants, and,   *)
(* with a receive buffer of one header as in linux/cfg.txt and connections *)
(* that end between two messages, that messages are handed out as they     *)
(* were sent.                                                              *)
(***************************************************************************)
EXTENDS RecvPath, WellFoundedInduction, TLAPS

(* The first inductive invariant: the types and the bounds.                   *)
IInv == TypeOK /\ InBounds

-----------------------------------------------------------------------------
(* Sequences. *)

(* A part of a sequence, and its length.                                      *)
LEMMA SubSeqKeepsType ==
  ASSUME NEW S, NEW s \in Seq(S), NEW m \in Nat \ {0}, NEW n \in 0..Len(s)
  PROVE  /\ SubSeq(s, m, n) \in Seq(S)
         /\ Len(SubSeq(s, m, n)) = IF m <= n THEN n - m + 1 ELSE 0
OBVIOUS

(* The elements of a part.                                                    *)
LEMMA PartOf ==
  ASSUME NEW S, NEW s \in Seq(S), NEW p \in 0..Len(s), NEW e \in 0..(Len(s) - p)
  PROVE  /\ SubSeq(s, p + 1, p + e) \in Seq(S) /\ Len(SubSeq(s, p + 1, p + e)) = e
         /\ \A j \in 1..e : SubSeq(s, p + 1, p + e)[j] = s[p + j]
OBVIOUS

(* An element of a sequence.                                                  *)
LEMMA ElementType ==
  ASSUME NEW S, NEW s \in Seq(S), NEW i \in 1..Len(s)
  PROVE  s[i] \in S
OBVIOUS

(* The length of a sequence.                                                  *)
LEMMA LenType ==
  ASSUME NEW S, NEW s \in Seq(S)
  PROVE  Len(s) \in Nat
OBVIOUS

(* Two sequences, one after the other.                                        *)
LEMMA ConcatKeepsType ==
  ASSUME NEW S, NEW s \in Seq(S), NEW t \in Seq(S)
  PROVE  s \o t \in Seq(S) /\ Len(s \o t) = Len(s) + Len(t)
OBVIOUS

(* The elements of the second of two sequences.                               *)
LEMMA SecondPart ==
  ASSUME NEW S, NEW s \in Seq(S), NEW t \in Seq(S), NEW i \in 1..Len(t)
  PROVE  (s \o t)[Len(s) + i] = t[i]
OBVIOUS

(* The elements of both.                                                      *)
LEMMA JoinOf ==
  ASSUME NEW S, NEW s \in Seq(S), NEW t \in Seq(S)
  PROVE  /\ Len(s \o t) = Len(s) + Len(t)
         /\ \A i \in 1..Len(s) : (s \o t)[i] = s[i]
         /\ \A i \in 1..Len(t) : (s \o t)[Len(s) + i] = t[i]
OBVIOUS

(* The place in the second sequence of one beyond the first.                  *)
LEMMA PlaceInSecond ==
  ASSUME NEW k \in Nat, NEW n \in Nat, NEW i \in 1..(k + n), ~(i <= k)
  PROVE  i - k \in 1..n /\ k + (i - k) = i
OBVIOUS

(* The bytes of a frame. *)
LEMMA FrameType ==
  ASSUME RecvPathAssumption, NEW m \in 1..MaxMsgs, NEW size \in Nat
  PROVE  Frame(m, size) \in Bytes /\ Len(Frame(m, size)) = HeaderSize + size
BY DEF Frame, Bytes, HeaderSize, RecvPathAssumption

(* Whatever is taken for a header has an id and a size in the range of both. *)
LEMMA HeadersType ==
  ASSUME RecvPathAssumption, TypeOK, NEW h \in Headers
  PROVE  h.id \in 0..MaxMsgs /\ h.size \in Nat
<1>1. CASE \E m \in 1..Len(sent) : HeaderBytes = SubSeq(Frame(m, 0), 1, HeaderSize)
  <2>1. Len(buf) >= HeaderSize
    BY DEF Headers, HeaderSize, TypeOK, Bytes
  <2>2. h = [id |-> HeaderBytes[1][1], size |-> sent[HeaderBytes[1][1]].size]
    BY <1>1, <2>1 DEF Headers
  <2>3. PICK m \in 1..Len(sent) : HeaderBytes = SubSeq(Frame(m, 0), 1, HeaderSize)
    BY <1>1
  <2>4. HeaderBytes[1] = <<m, 1>>
    BY <2>3 DEF Frame, HeaderSize, TypeOK
  <2>5. HeaderBytes[1] = buf[1] /\ buf[1] \in (0..MaxMsgs) \X Nat
    BY <2>1 DEF HeaderBytes, HeaderSize, TypeOK, Bytes
  <2>6. sent[m].size \in Nat
    <3>1. sent[m] \in [conn : 1..MaxConns, size : Sizes]
      <4>1. sent \in Seq([conn : 1..MaxConns, size : Sizes])
        BY DEF TypeOK
      <4> QED
        BY <2>3, <4>1, ElementType
    <3> QED
      BY <3>1 DEF RecvPathAssumption
  <2> QED
    BY <2>2, <2>4, <2>5, <2>6
<1>2. CASE ~\E m \in 1..Len(sent) : HeaderBytes = SubSeq(Frame(m, 0), 1, HeaderSize)
  <2>1. h \in [id : {0}, size : 0..(MaxSize + 1)]
    BY <1>2 DEF Headers
  <2> QED
    BY <2>1 DEF RecvPathAssumption
<1> QED
  BY <1>1, <1>2

-----------------------------------------------------------------------------
(* A step of the peer, which leaves the receiver alone.                     *)
LEMMA PeerStep ==
  ASSUME IInv, sent' \in Seq([conn : 1..MaxConns, size : Sizes]), stream' \in Bytes,
         UNCHANGED <<conn, buf, parse, expect, msg, delivered, pc>>
  PROVE  IInv'
BY DEF IInv, TypeOK, InBounds

(* The peer sends a message.                                                  *)
LEMMA PeerSendStep ==
  ASSUME RecvPathAssumption, IInv, NEW size \in Sizes, PeerSend(size)
  PROVE  IInv'
<1> USE DEF IInv, PeerSend
<1>1. size \in Nat /\ Len(sent) + 1 \in 1..MaxMsgs
  BY DEF RecvPathAssumption, TypeOK
<1>2. sent' \in Seq([conn : 1..MaxConns, size : Sizes])
  BY DEF TypeOK
<1>3. stream' \in Bytes
  BY <1>1, FrameType, ConcatKeepsType DEF TypeOK, Bytes
<1> QED
  BY <1>2, <1>3, PeerStep

(* handle_read appends a part of the stream to the buffer, at most what it    *)
(* has room for.                                                              *)
LEMMA ReadStep ==
  ASSUME RecvPathAssumption, IInv, Read
  PROVE  IInv'
<1> USE DEF IInv
<1>1. PICK n \in 1..Len(stream) : n <= Room /\ HandleRead(n)
  BY DEF Read
<1>2. stream \in Seq((0..MaxMsgs) \X Nat) /\ buf \in Seq((0..MaxMsgs) \X Nat)
  BY DEF TypeOK, Bytes
<1>3. SubSeq(stream, 1, n) \in Bytes /\ Len(SubSeq(stream, 1, n)) = n
  BY <1>2, SubSeqKeepsType DEF Bytes
<1>4. buf' \in Bytes /\ Len(buf') = Len(buf) + n
  BY <1>1, <1>2, <1>3, ConcatKeepsType DEF HandleRead, Bytes
<1>5. stream' \in Bytes
  <2>1. n + 1 \in Nat \ {0} /\ Len(stream) \in 0..Len(stream)
    BY <1>2
  <2> QED
    BY <1>1, <1>2, <2>1, SubSeqKeepsType DEF HandleRead, Bytes
<1>6. Len(buf') <= RecvBuf
  BY <1>1, <1>2, <1>4 DEF Room, RecvPathAssumption
<1>7. TypeOK'
  BY <1>1, <1>4, <1>5, <1>6 DEF HandleRead, TypeOK, RecvPathAssumption
<1>8. InBounds'
  <2>1. pc' = "parse" => parse' <= Len(buf')
    BY <1>1, <1>2, <1>4 DEF HandleRead
  <2>2. pc' = "reading" => Len(buf') < HeaderSize
    BY <1>1, <1>2, <1>4 DEF HandleRead, EnoughToParse, HeaderSize
  <2>3. msg' # Nil => Len(msg'.body) + expect' <= MaxSize
    BY <1>1 DEF HandleRead, InBounds
  <2> QED
    BY <2>1, <2>2, <2>3 DEF InBounds
<1> QED
  BY <1>7, <1>8

(* A header is parsed: too large a size and a failing allocation close the    *)
(* session.                                                                   *)
LEMMA ParseHeaderStep ==
  ASSUME RecvPathAssumption, IInv, NEW h \in Headers, NEW alloc \in BOOLEAN, ParseHeader(h, alloc)
  PROVE  IInv'
<1> USE DEF IInv
<1>1. h.id \in 0..MaxMsgs /\ h.size \in Nat
  BY HeadersType
<1>2. buf \in Seq((0..MaxMsgs) \X Nat)
  BY DEF TypeOK, Bytes
<1>3. CASE pc' = "closed" /\ UNCHANGED <<msg, parse>>
  <2>1. TypeOK'
    BY <1>1, <1>3 DEF ParseHeader, TypeOK, peerVars
  <2> QED
    BY <2>1, <1>3 DEF ParseHeader, InBounds
<1>4. CASE /\ h.size <= MaxSize
           /\ msg' = [conn |-> conn, id |-> h.id, body |-> <<>>]
           /\ parse' = parse + HeaderSize
           /\ UNCHANGED pc
  <2>1. parse \in Nat /\ parse' <= Len(buf)
    BY <1>2, <1>4 DEF ParseHeader, Available, HeaderSize, TypeOK
  <2>2. parse' \in 0..RecvBuf
    BY <1>2, <1>4, <2>1 DEF TypeOK, RecvPathAssumption, HeaderSize
  <2>3. msg' \in Message
    BY <1>1, <1>4 DEF Message, Bytes, TypeOK
  <2>4. TypeOK'
    BY <1>1, <1>4, <2>2, <2>3 DEF ParseHeader, TypeOK, peerVars
  <2>5. InBounds'
    BY <1>1, <1>4, <2>1 DEF ParseHeader, InBounds, RecvPathAssumption
  <2> QED
    BY <2>4, <2>5
<1> QED
  BY <1>3, <1>4 DEF ParseHeader

(* The rest of a message is in the buffer.                                    *)
LEMMA ParseCompleteStep ==
  ASSUME RecvPathAssumption, IInv, ParseComplete
  PROVE  IInv'
<1> USE DEF IInv
<1>1. buf \in Seq((0..MaxMsgs) \X Nat) /\ parse \in Nat /\ expect \in Nat
  BY DEF TypeOK, Bytes
<1>2. parse' = parse + expect /\ parse + expect <= Len(buf) /\ Len(buf) <= RecvBuf
  BY <1>1 DEF ParseComplete, Available, TypeOK
<1>3. parse' \in 0..RecvBuf
  BY <1>1, <1>2 DEF RecvPathAssumption
<1>4. msg \in Message
  BY DEF ParseComplete, TypeOK
<1>5. SubSeq(buf, parse + 1, parse + expect) \in Bytes
  <2>1. parse + 1 \in Nat \ {0} /\ parse + expect \in 0..Len(buf)
    BY <1>1, <1>2
  <2> QED
    BY <1>1, <2>1, SubSeqKeepsType DEF Bytes
<1>6. msg.body \o SubSeq(buf, parse + 1, parse + expect) \in Bytes
  BY <1>4, <1>5, ConcatKeepsType DEF Message, Bytes
<1>7. [msg EXCEPT !.body = @ \o SubSeq(buf, parse + 1, parse + expect)] \in Message
  BY <1>4, <1>6 DEF Message
<1>8. delivered' \in Seq(Message)
  BY <1>7 DEF ParseComplete, TypeOK
<1>9. TypeOK'
  BY <1>3, <1>8 DEF ParseComplete, TypeOK, peerVars
<1>10. InBounds'
  BY <1>2 DEF ParseComplete, InBounds
<1> QED
  BY <1>9, <1>10

(* A part of the rest of a message is in the buffer.                          *)
LEMMA ParsePartialStep ==
  ASSUME RecvPathAssumption, IInv, ParsePartial
  PROVE  IInv'
<1> USE DEF IInv
<1>1. buf \in Seq((0..MaxMsgs) \X Nat) /\ parse \in Nat /\ expect \in Nat /\ parse <= Len(buf)
  BY DEF TypeOK, Bytes, InBounds, ParsePartial
<1>2. msg \in Message /\ msg # Nil
  BY DEF ParsePartial, TypeOK
<1>3. /\ SubSeq(buf, parse + 1, Len(buf)) \in Bytes
      /\ Len(SubSeq(buf, parse + 1, Len(buf))) = Available
  <2>1. parse + 1 \in Nat \ {0} /\ Len(buf) \in 0..Len(buf)
    BY <1>1
  <2>2. /\ SubSeq(buf, parse + 1, Len(buf)) \in Bytes
        /\ Len(SubSeq(buf, parse + 1, Len(buf))) =
             IF parse + 1 <= Len(buf) THEN Len(buf) - (parse + 1) + 1 ELSE 0
    BY <1>1, <2>1, SubSeqKeepsType DEF Bytes
  <2> QED
    BY <1>1, <2>2 DEF Available
<1>4. /\ msg.body \o SubSeq(buf, parse + 1, Len(buf)) \in Bytes
      /\ Len(msg.body \o SubSeq(buf, parse + 1, Len(buf))) = Len(msg.body) + Available
  BY <1>2, <1>3, ConcatKeepsType DEF Message, Bytes
<1>5. /\ msg' \in Message
      /\ Len(msg'.body) = Len(msg.body) + Available
  BY <1>2, <1>4 DEF Message, ParsePartial
<1>6. expect' = expect - Available /\ Available \in Nat /\ Available < expect
  BY <1>1 DEF ParsePartial, StillExpected, Available
<1>7. parse' \in 0..RecvBuf
  BY <1>1 DEF ParsePartial, TypeOK, RecvPathAssumption
<1>8. buf' = <<>> /\ buf' \in Bytes /\ Len(buf') = 0
  BY DEF ParsePartial, Bytes
<1>9. TypeOK'
  <2>1. Len(buf') <= RecvBuf /\ expect' \in Nat /\ pc' = "reading"
    BY <1>1, <1>6, <1>8 DEF ParsePartial, RecvPathAssumption, HeaderSize
  <2> QED
    BY <1>5, <1>7, <1>8, <2>1 DEF ParsePartial, TypeOK, peerVars
<1>10. Len(msg'.body) + expect' <= MaxSize
  <2>1. Len(msg.body) \in Nat
    BY <1>2 DEF Message, Bytes
  <2>2. Len(msg.body) + expect <= MaxSize
    BY <1>2 DEF InBounds
  <2> QED
    BY <1>1, <1>5, <1>6, <2>1, <2>2 DEF RecvPathAssumption
<1>11. InBounds'
  <2>1. pc' = "reading" /\ Len(buf') < HeaderSize
    BY <1>8 DEF ParsePartial, HeaderSize
  <2> QED
    BY <1>10, <2>1 DEF InBounds
<1> QED
  BY <1>9, <1>11

(* What is not parsed moves to the front of the buffer.                       *)
LEMMA ParseEndStep ==
  ASSUME RecvPathAssumption, IInv, ParseEnd
  PROVE  IInv'
<1> USE DEF IInv
<1>1. buf \in Seq((0..MaxMsgs) \X Nat) /\ parse \in Nat /\ parse <= Len(buf)
  BY DEF TypeOK, Bytes, InBounds, ParseEnd
<1>2. buf' \in Bytes /\ Len(buf') = Available
  <2>1. parse + 1 \in Nat \ {0} /\ Len(buf) \in 0..Len(buf)
    BY <1>1
  <2>2. /\ buf' \in Bytes
        /\ Len(buf') = IF parse + 1 <= Len(buf) THEN Len(buf) - (parse + 1) + 1 ELSE 0
    BY <1>1, <2>1, SubSeqKeepsType DEF Bytes, ParseEnd
  <2> QED
    BY <1>1, <2>2 DEF Available
<1>3. Len(buf') <= RecvBuf
  BY <1>1, <1>2 DEF Available, TypeOK, RecvPathAssumption
<1>4. TypeOK'
  BY <1>2, <1>3 DEF ParseEnd, TypeOK, peerVars
<1>5. InBounds'
  BY <1>2 DEF ParseEnd, InBounds
<1> QED
  BY <1>4, <1>5

(* The session is reset for another connection.                               *)
LEMMA ReconnectStep ==
  ASSUME RecvPathAssumption, IInv, Reconnect
  PROVE  IInv'
<1> USE DEF IInv
<1>1. TypeOK'
  BY DEF Reconnect, TypeOK, Bytes, RecvPathAssumption
<1>2. msg # Nil => Len(msg.body) \in Nat /\ expect \in Nat
  BY DEF TypeOK, Message, Bytes
<1>3. InBounds'
  BY <1>2 DEF Reconnect, InBounds, RecvPathAssumption, HeaderSize
<1> QED
  BY <1>1, <1>3

(* The invariant holds at the start.                                          *)
LEMMA InitHolds ==
  ASSUME RecvPathAssumption, Init
  PROVE  IInv
BY DEF Init, IInv, TypeOK, InBounds, Bytes, RecvPathAssumption, HeaderSize

(* parse_msg keeps the invariant.                                             *)
LEMMA ParseStep ==
  ASSUME RecvPathAssumption, IInv, Parse
  PROVE  IInv'
<1>1. {TRUE, ~AllocFails} \subseteq BOOLEAN
  OBVIOUS
<1> QED
  BY <1>1, ParseHeaderStep, ParseCompleteStep, ParsePartialStep, ParseEndStep DEF Parse

(* Every step keeps the invariant.                                            *)
LEMMA NextStep ==
  ASSUME RecvPathAssumption, IInv, [Next]_vars
  PROVE  IInv'
<1>1. CASE UNCHANGED vars
  BY <1>1 DEF vars, peerVars, IInv, TypeOK, InBounds
<1> QED
  BY <1>1, PeerSendStep, ReadStep, ParseStep, ReconnectStep DEF Next

(* The type invariant of the receive side, for any sizes of buffer and        *)
(* messages: among others expect_size never wraps below zero                  *)
(* (src/wlib/wnet_session.cpp).                                               *)
THEOREM TypeCorrect ==
  ASSUME RecvPathAssumption
  PROVE  Spec => []TypeOK
<1>1. Init => IInv
  BY InitHolds
<1>2. IInv /\ [Next]_vars => IInv'
  BY NextStep
<1>3. IInv => TypeOK
  BY DEF IInv
<1> QED
  BY <1>1, <1>2, <1>3, PTL DEF Spec

(* parse_msg never parses beyond what was read, a message never outgrows the  *)
(* block that was allocated for it, and a read always has room, for any sizes *)
(* of buffer and messages and however the stream is cut, into reads and by    *)
(* the end of a connection (src/wlib/wnet_session.cpp).                       *)
THEOREM StaysInBounds ==
  ASSUME RecvPathAssumption
  PROVE  Spec => []InBounds
<1>1. Init => IInv
  BY InitHolds
<1>2. IInv /\ [Next]_vars => IInv'
  BY NextStep
<1>3. IInv => InBounds
  BY DEF IInv
<1> QED
  BY <1>1, <1>2, <1>3, PTL DEF Spec

-----------------------------------------------------------------------------
(* The bytes of a stream. q: the messages that were sent, as in "sent".      *)

(* What "sent" may be.                                                        *)
Msgs == Seq([conn : 1..MaxConns, size : Sizes])

(* The bytes of message m, with its header.                                   *)
Total(q, m) == HeaderSize + q[m].size

(* Whole messages, up to the last one; of the first one the end.            *)
InOrder(q, s) ==
  \A i \in 1..Len(s) :
    LET m   == s[i][1]
        k   == s[i][2]
        end == i + Total(q, m) - k
    IN /\ m \in 1..Len(q) /\ k \in 1..Total(q, m)
       /\ end <= Len(s)
       /\ \A j \in i..end : s[j] = <<m, k + (j - i)>>
       /\ IF end = Len(s) THEN m = Len(q) ELSE s[end + 1] = <<m + 1, 1>>

(* The first byte of s, or of the message that comes next.                  *)
Starts(q, s, m, k) == IF Len(s) = 0 THEN m = Len(q) + 1 /\ k = 1 ELSE s[1] = <<m, k>>

(* s goes on after the first k bytes of message m.                          *)
Follows(q, s, m, k) ==
  IF k < Total(q, m) THEN Starts(q, s, m, k + 1) ELSE Starts(q, s, m + 1, 1)

(* What is left of b after n bytes, and s.                                  *)
Rest(b, n, s) ==
  [i \in 1..(Len(b) - n + Len(s)) |->
     IF i <= Len(b) - n THEN b[n + i] ELSE s[i - (Len(b) - n)]]

(* They are at least those of the header.                                     *)
LEMMA TotalType ==
  ASSUME RecvPathAssumption, NEW q \in Msgs, NEW m \in 1..Len(q)
  PROVE  Total(q, m) \in Nat /\ Total(q, m) >= HeaderSize /\ q[m].size \in Nat
<1>1. q[m] \in [conn : 1..MaxConns, size : Sizes]
  BY ElementType DEF Msgs
<1>2. q[m].size \in Nat
  BY <1>1 DEF RecvPathAssumption
<1> QED
  BY <1>2 DEF Total, HeaderSize

(* A byte of a stream.                                                        *)
LEMMA ByteType ==
  ASSUME NEW s \in Bytes, NEW i \in 1..Len(s)
  PROVE  s[i] \in (0..MaxMsgs) \X Nat
BY ElementType DEF Bytes

(* The rest is a sequence of bytes, those of the buffer before those of the   *)
(* stream.                                                                    *)
LEMMA RestType ==
  ASSUME NEW b \in Bytes, NEW s \in Bytes, NEW n \in 0..Len(b)
  PROVE  /\ Rest(b, n, s) \in Bytes
         /\ Len(Rest(b, n, s)) = Len(b) - n + Len(s)
         /\ \A i \in 1..(Len(b) - n) : Rest(b, n, s)[i] = b[n + i]
         /\ \A i \in 1..Len(s) : Rest(b, n, s)[Len(b) - n + i] = s[i]
<1>1. Len(b) \in Nat /\ Len(s) \in Nat /\ Len(b) - n + Len(s) \in Nat
  BY DEF Bytes
<1>2. ASSUME NEW i \in 1..(Len(b) - n + Len(s))
      PROVE  (IF i <= Len(b) - n THEN b[n + i] ELSE s[i - (Len(b) - n)]) \in (0..MaxMsgs) \X Nat
  <2>1. CASE i <= Len(b) - n
    BY <1>1, <2>1, ByteType
  <2>2. CASE ~(i <= Len(b) - n)
    BY <1>1, <2>2, ByteType
  <2> QED
    BY <2>1, <2>2
<1>3. Rest(b, n, s) \in Bytes /\ Len(Rest(b, n, s)) = Len(b) - n + Len(s)
  BY <1>1, <1>2 DEF Rest, Bytes
<1>4. \A i \in 1..(Len(b) - n) : Rest(b, n, s)[i] = b[n + i]
  BY <1>1 DEF Rest
<1>5. \A i \in 1..Len(s) : Rest(b, n, s)[Len(b) - n + i] = s[i]
  BY <1>1 DEF Rest
<1> QED
  BY <1>3, <1>4, <1>5

(* A suffix of a stream is one.                                             *)
LEMMA SuffixInOrder ==
  ASSUME RecvPathAssumption, NEW q \in Msgs, NEW s \in Bytes, NEW t \in Bytes,
         NEW n \in 0..Len(s), Len(t) = Len(s) - n, \A i \in 1..Len(t) : t[i] = s[n + i],
         InOrder(q, s)
  PROVE  InOrder(q, t)
<1>1. Len(s) \in Nat /\ Len(t) \in Nat
  BY DEF Bytes
<1>2. SUFFICES ASSUME NEW i \in 1..Len(t)
               PROVE  LET m   == t[i][1]
                          k   == t[i][2]
                          end == i + Total(q, m) - k
                      IN /\ m \in 1..Len(q) /\ k \in 1..Total(q, m)
                         /\ end <= Len(t)
                         /\ \A j \in i..end : t[j] = <<m, k + (j - i)>>
                         /\ IF end = Len(t) THEN m = Len(q) ELSE t[end + 1] = <<m + 1, 1>>
  BY DEF InOrder
<1> DEFINE m == t[i][1]
           k == t[i][2]
           end == i + Total(q, m) - k
<1>3. n + i \in 1..Len(s) /\ t[i] = s[n + i]
  BY <1>1
<1>4. /\ m \in 1..Len(q) /\ k \in 1..Total(q, m)
      /\ n + i + Total(q, m) - k <= Len(s)
      /\ \A j \in (n + i)..(n + i + Total(q, m) - k) : s[j] = <<m, k + (j - (n + i))>>
      /\ IF n + i + Total(q, m) - k = Len(s) THEN m = Len(q)
         ELSE s[n + i + Total(q, m) - k + 1] = <<m + 1, 1>>
  BY <1>3 DEF InOrder
<1>5. Total(q, m) \in Nat /\ end \in Nat /\ i <= end
  BY <1>1, <1>4, TotalType, SMTT(30)
<1> HIDE DEF m, k
<1>6. end <= Len(t)
  BY <1>1, <1>4, <1>5
<1>7. ASSUME NEW j \in i..end
      PROVE  t[j] = <<m, k + (j - i)>>
  <2>1. t[j] = s[n + j] /\ n + j \in (n + i)..(n + i + Total(q, m) - k)
    BY <1>1, <1>4, <1>5, <1>6, SMTT(30)
  <2>2. s[n + j] = <<m, k + ((n + j) - (n + i))>>
    BY <1>4, <2>1
  <2> QED
    BY <2>1, <2>2, <1>1, <1>4
<1>8. IF end = Len(t) THEN m = Len(q) ELSE t[end + 1] = <<m + 1, 1>>
  <2>1. CASE end = Len(t)
    BY <1>1, <1>4, <1>5, <2>1
  <2>2. CASE end # Len(t)
    <3>1. end + 1 \in 1..Len(t)
      BY <1>1, <1>5, <1>6, <2>2
    <3>4. t[end + 1] = s[n + (end + 1)]
      BY <3>1
    <3>2. n + i + Total(q, m) - k # Len(s) /\ n + (end + 1) = n + i + Total(q, m) - k + 1
      BY <1>1, <1>4, <1>5, <2>2, SMTT(30)
    <3> QED
      BY <1>4, <2>2, <3>2, <3>4
  <2> QED
    BY <2>1, <2>2
<1> QED
  BY <1>4, <1>6, <1>7, <1>8 DEF m, k

(* The next n bytes of a message, and how the stream goes on after them.     *)
LEMMA NextBytes ==
  ASSUME RecvPathAssumption, NEW q \in Msgs, NEW s \in Bytes, NEW t \in Bytes,
         NEW m \in 1..Len(q), NEW k \in 0..Total(q, m), NEW n \in 0..(Total(q, m) - k),
         n <= Len(s), Len(t) = Len(s) - n, \A i \in 1..Len(t) : t[i] = s[n + i],
         InOrder(q, s), Follows(q, s, m, k)
  PROVE  /\ \A j \in 1..n : s[j] = <<m, k + j>>
         /\ Follows(q, t, m, k + n)
<1>1. Len(s) \in Nat /\ Len(t) \in Nat /\ Total(q, m) \in Nat /\ Len(q) \in Nat
  BY TotalType, LenType DEF Bytes, Msgs
<1>2. CASE n = 0
  <2>1. Len(t) = Len(s) /\ (Len(t) # 0 => t[1] = s[1]) /\ k + n = k
    BY <1>1, <1>2
  <2> QED
    BY <1>2, <2>1 DEF Follows, Starts
<1>3. CASE n # 0
  <2>1. k < Total(q, m) /\ Len(s) # 0 /\ 1 \in 1..Len(s)
    BY <1>1, <1>3
  <2>2. s[1] = <<m, k + 1>>
    BY <2>1 DEF Follows, Starts
  <2>3. /\ \A j \in 1..(1 + Total(q, m) - (k + 1)) : s[j] = <<m, (k + 1) + (j - 1)>>
        /\ 1 + Total(q, m) - (k + 1) <= Len(s)
        /\ IF 1 + Total(q, m) - (k + 1) = Len(s) THEN m = Len(q)
           ELSE s[1 + Total(q, m) - (k + 1) + 1] = <<m + 1, 1>>
    <3>1. s[1][1] = m /\ s[1][2] = k + 1
      BY <2>2
    <3> QED
      BY <2>1, <3>1 DEF InOrder
  <2>4. 1 + Total(q, m) - (k + 1) = Total(q, m) - k
    BY <1>1
  <2>5. \A j \in 1..(Total(q, m) - k) : s[j] = <<m, k + j>>
    BY <1>1, <2>3, <2>4
  <2>6. \A j \in 1..n : s[j] = <<m, k + j>>
    BY <1>1, <2>5
  <2>7. CASE k + n < Total(q, m)
    <3>1. n + 1 \in 1..(Total(q, m) - k) /\ Len(t) # 0 /\ t[1] = s[n + 1]
      <4>1. Total(q, m) - k <= Len(s)
        BY <2>3, <2>4
      <4>2. n \in Nat /\ k \in Nat /\ n < Total(q, m) - k
        BY <1>1, <2>7
      <4>3. n + 1 \in 1..(Total(q, m) - k) /\ Len(t) >= 1
        BY <1>1, <4>1, <4>2
      <4> QED
        BY <1>1, <4>3
    <3>2. t[1] = <<m, (k + n) + 1>>
      BY <1>1, <2>5, <3>1
    <3> QED
      BY <2>6, <2>7, <3>1, <3>2 DEF Follows, Starts
  <2>8. CASE ~(k + n < Total(q, m))
    <3>1. n = Total(q, m) - k
      BY <1>1, <2>8
    <3>2. CASE Len(t) = 0
      <4>1. m = Len(q)
        BY <1>1, <2>3, <2>4, <3>1, <3>2, SMTT(30)
      <4> QED
        BY <2>6, <2>8, <3>2, <4>1 DEF Follows, Starts
    <3>3. CASE Len(t) # 0
      <4>1. t[1] = s[n + 1] /\ Total(q, m) - k # Len(s)
        BY <1>1, <3>1, <3>3
      <4>2. t[1] = <<m + 1, 1>>
        BY <2>3, <2>4, <3>1, <4>1
      <4> QED
        BY <2>6, <2>8, <3>3, <4>2 DEF Follows, Starts
    <3> QED
      BY <3>2, <3>3
  <2> QED
    BY <2>7, <2>8
<1> QED
  BY <1>2, <1>3

(* Another message is sent.                                                 *)
LEMMA OneMore ==
  ASSUME RecvPathAssumption, NEW q \in Msgs, NEW r \in [conn : 1..MaxConns, size : Sizes],
         NEW s \in Bytes, NEW t \in Bytes, Len(t) = Len(s) + HeaderSize + r.size,
         \A i \in 1..Len(s) : t[i] = s[i],
         \A i \in 1..(HeaderSize + r.size) : t[Len(s) + i] = <<Len(q) + 1, i>>,
         InOrder(q, s)
  PROVE  /\ InOrder(Append(q, r), t)
         /\ \A m \in 1..(Len(q) + 1), k \in Nat :
              Starts(q, s, m, k) => Starts(Append(q, r), t, m, k)
<1> DEFINE p == Append(q, r)
           N == Len(q) + 1
           T == HeaderSize + r.size
           L == Len(s)
<1>1. /\ L \in Nat /\ r.size \in Nat /\ T \in Nat /\ T >= 6 /\ N \in Nat /\ Len(q) \in Nat
      /\ Len(t) = L + T
  <2>1. L \in Nat /\ Len(q) \in Nat
    BY LenType DEF Bytes, Msgs
  <2>2. r.size \in Nat
    BY DEF RecvPathAssumption
  <2> QED
    BY <2>1, <2>2 DEF HeaderSize
<1>2. /\ p \in Msgs /\ Len(p) = N /\ Total(p, N) = T
      /\ \A m \in 1..Len(q) : Total(p, m) = Total(q, m)
  <2>1. p \in Msgs /\ Len(p) = N /\ p[N] = r /\ \A m \in 1..Len(q) : p[m] = q[m]
    BY DEF Msgs
  <2> QED
    BY <2>1 DEF Total
<1>3. \A i \in 1..T : t[L + i] = <<N, i>>
  OBVIOUS
<1>4. t[L + 1] = <<N, 1>>
  BY <1>1, <1>3
<1> HIDE DEF p, N, T, L
<1>5. ASSUME NEW i \in 1..Len(t)
      PROVE  LET m   == t[i][1]
                 k   == t[i][2]
                 end == i + Total(p, m) - k
             IN /\ m \in 1..Len(p) /\ k \in 1..Total(p, m)
                /\ end <= Len(t)
                /\ \A j \in i..end : t[j] = <<m, k + (j - i)>>
                /\ IF end = Len(t) THEN m = Len(p) ELSE t[end + 1] = <<m + 1, 1>>
  <2>1. CASE i <= L
    <3> DEFINE m == s[i][1]
               k == s[i][2]
               end == i + Total(q, m) - k
    <3>1. i \in 1..Len(s) /\ t[i] = s[i]
      BY <1>1, <2>1 DEF L
    <3>2. /\ m \in 1..Len(q) /\ k \in 1..Total(q, m)
          /\ end <= L
          /\ \A j \in i..end : s[j] = <<m, k + (j - i)>>
          /\ IF end = L THEN m = Len(q) ELSE s[end + 1] = <<m + 1, 1>>
      BY <3>1 DEF InOrder, L
    <3>3. Total(p, m) = Total(q, m) /\ Total(q, m) \in Nat
      BY <1>2, <3>2, TotalType
    <3> HIDE DEF m, k
    <3>4. end \in Nat /\ i <= end
      BY <1>1, <3>2, <3>3, SMTT(30)
    <3>5. m \in 1..Len(p) /\ k \in 1..Total(p, m)
      BY <1>1, <1>2, <3>2, <3>3 DEF N
    <3>6. ASSUME NEW j \in i..end
          PROVE  t[j] = <<m, k + (j - i)>>
      <4>1. j \in 1..Len(s)
        BY <1>1, <3>2, <3>4 DEF L
      <4> QED
        BY <3>2, <4>1
    <3>7. end # Len(t)
      BY <1>1, <3>2, <3>4
    <3>8. t[end + 1] = <<m + 1, 1>>
      <4>1. CASE end = L
        BY <1>4, <3>2, <4>1 DEF N
      <4>2. CASE end # L
        <5>1. end + 1 \in 1..Len(s)
          BY <1>1, <3>2, <3>4, <4>2 DEF L
        <5> QED
          BY <3>2, <4>2, <5>1
      <4> QED
        BY <4>1, <4>2
    <3>9. end <= Len(t)
      BY <1>1, <3>2, <3>4
    <3>10. t[i][1] = m /\ t[i][2] = k
      BY <3>1 DEF m, k
    <3> HIDE DEF end
    <3>11. i + Total(p, m) - k = end
      BY <3>3 DEF end
    <3> QED
      BY <3>5, <3>6, <3>7, <3>8, <3>9, <3>10, <3>11
  <2>2. CASE ~(i <= L)
    <3> DEFINE k == i - L
    <3>1. k \in 1..T /\ i = L + k
      BY <1>1, <2>2
    <3>2. t[i] = <<N, k>>
      BY <1>3, <3>1
    <3>3. i + Total(p, N) - k = Len(t)
      BY <1>1, <1>2, <3>1
    <3>4. ASSUME NEW j \in i..Len(t)
          PROVE  t[j] = <<N, k + (j - i)>>
      <4>1. j - L \in 1..T /\ L + (j - L) = j /\ j - L = k + (j - i)
        BY <1>1, <3>1
      <4> QED
        BY <1>3, <4>1
    <3>5. N \in 1..Len(p) /\ k \in 1..Total(p, N) /\ N = Len(p)
      BY <1>1, <1>2, <3>1 DEF N
    <3>6. t[i][1] = N /\ t[i][2] = k
      BY <3>2
    <3>7. Len(t) <= Len(t)
      BY <1>1
    <3> HIDE DEF k
    <3> QED
      BY <3>3, <3>4, <3>5, <3>6, <3>7
  <2> QED
    BY <2>1, <2>2
<1>6. InOrder(p, t)
  BY <1>5 DEF InOrder
<1>7. ASSUME NEW m \in 1..N, NEW k \in Nat, Starts(q, s, m, k)
      PROVE  Starts(p, t, m, k)
  <2>1. Len(t) # 0
    BY <1>1
  <2>2. CASE L = 0
    BY <1>1, <1>4, <1>7, <2>1, <2>2 DEF Starts, L, N
  <2>3. CASE L # 0
    BY <1>1, <1>7, <2>1, <2>3 DEF Starts, L
  <2> QED
    BY <2>2, <2>3
<1> QED
  BY <1>6, <1>7 DEF p, N

(* Sequences with the same elements are the same.                             *)
LEMMA SameSequence ==
  ASSUME NEW S, NEW s \in Seq(S), NEW t \in Seq(S), Len(s) = Len(t),
         \A i \in 1..Len(s) : s[i] = t[i]
  PROVE  s = t
OBVIOUS

(* Bytes move from the stream to the buffer.                                *)
LEMMA RestMoves ==
  ASSUME NEW b \in Bytes, NEW s \in Bytes, NEW n \in 1..Len(s)
  PROVE  Rest(b \o SubSeq(s, 1, n), 0, SubSeq(s, n + 1, Len(s))) = Rest(b, 0, s)
<1> DEFINE c == b \o SubSeq(s, 1, n)
           u == SubSeq(s, n + 1, Len(s))
<1>1. Len(b) \in Nat /\ Len(s) \in Nat
  BY LenType DEF Bytes
<1>2. /\ SubSeq(s, 1, n) \in Bytes /\ Len(SubSeq(s, 1, n)) = n
      /\ \A i \in 1..n : SubSeq(s, 1, n)[i] = s[i]
  BY <1>1 DEF Bytes
<1>3. /\ u \in Bytes /\ Len(u) = Len(s) - n
      /\ \A i \in 1..(Len(s) - n) : u[i] = s[n + i]
  BY <1>1 DEF Bytes
<1>4. /\ c \in Bytes /\ Len(c) = Len(b) + n
      /\ \A i \in 1..Len(b) : c[i] = b[i]
      /\ \A i \in 1..n : c[Len(b) + i] = s[i]
  BY <1>1, <1>2, SMTT(30) DEF Bytes
<1> HIDE DEF c, u
<1>5. /\ Rest(c, 0, u) \in Bytes /\ Len(Rest(c, 0, u)) = Len(b) + Len(s)
      /\ \A i \in 1..(Len(b) + n) : Rest(c, 0, u)[i] = c[i]
      /\ \A i \in 1..(Len(s) - n) : Rest(c, 0, u)[Len(b) + n + i] = u[i]
  <2>1. 0 \in 0..Len(c)
    BY <1>1, <1>4
  <2>2. /\ Rest(c, 0, u) \in Bytes /\ Len(Rest(c, 0, u)) = Len(c) - 0 + Len(u)
        /\ \A i \in 1..(Len(c) - 0) : Rest(c, 0, u)[i] = c[0 + i]
        /\ \A i \in 1..Len(u) : Rest(c, 0, u)[Len(c) - 0 + i] = u[i]
    BY <1>3, <1>4, <2>1, RestType
  <2> QED
    BY <1>1, <1>3, <1>4, <2>2
<1>6. /\ Rest(b, 0, s) \in Bytes /\ Len(Rest(b, 0, s)) = Len(b) + Len(s)
      /\ \A i \in 1..Len(b) : Rest(b, 0, s)[i] = b[i]
      /\ \A i \in 1..Len(s) : Rest(b, 0, s)[Len(b) + i] = s[i]
  <2>1. 0 \in 0..Len(b)
    BY <1>1
  <2>2. /\ Rest(b, 0, s) \in Bytes /\ Len(Rest(b, 0, s)) = Len(b) - 0 + Len(s)
        /\ \A i \in 1..(Len(b) - 0) : Rest(b, 0, s)[i] = b[0 + i]
        /\ \A i \in 1..Len(s) : Rest(b, 0, s)[Len(b) - 0 + i] = s[i]
    BY <2>1, RestType
  <2> QED
    BY <1>1, <2>2
<1>7. ASSUME NEW i \in 1..(Len(b) + Len(s))
      PROVE  Rest(c, 0, u)[i] = Rest(b, 0, s)[i]
  <2>1. CASE i <= Len(b)
    <3>1. i \in 1..Len(b) /\ i \in 1..(Len(b) + n)
      BY <1>1, <2>1
    <3> QED
      BY <1>4, <1>5, <1>6, <3>1
  <2>2. CASE Len(b) < i /\ i <= Len(b) + n
    <3>1. /\ i - Len(b) \in 1..n /\ i - Len(b) \in 1..Len(s) /\ i \in 1..(Len(b) + n)
          /\ i = Len(b) + (i - Len(b))
      BY <1>1, <2>2
    <3>2. c[i] = s[i - Len(b)]
      BY <1>4, <3>1
    <3>3. Rest(b, 0, s)[i] = s[i - Len(b)]
      BY <1>6, <3>1
    <3> QED
      BY <1>5, <3>1, <3>2, <3>3
  <2>3. CASE Len(b) + n < i
    <3> DEFINE j == i - (Len(b) + n)
    <3>1. /\ j \in 1..(Len(s) - n) /\ i = Len(b) + n + j
          /\ n + j \in 1..Len(s) /\ i = Len(b) + (n + j)
      BY <1>1, <2>3
    <3>2. Rest(c, 0, u)[i] = u[j] /\ u[j] = s[n + j]
      BY <1>3, <1>5, <3>1
    <3>3. Rest(b, 0, s)[i] = s[n + j]
      BY <1>6, <3>1
    <3> QED
      BY <3>2, <3>3
  <2> QED
    BY <1>1, <2>1, <2>2, <2>3
<1> QED
  BY <1>5, <1>6, <1>7, SameSequence, ZenonT(30) DEF Bytes, c, u

(* n bytes more of the buffer are parsed.                                   *)
LEMMA RestSkips ==
  ASSUME NEW b \in Bytes, NEW s \in Bytes, NEW p \in 0..Len(b), NEW n \in 0..(Len(b) - p)
  PROVE  /\ n <= Len(Rest(b, p, s))
         /\ Len(Rest(b, p + n, s)) = Len(Rest(b, p, s)) - n
         /\ \A i \in 1..Len(Rest(b, p + n, s)) : Rest(b, p + n, s)[i] = Rest(b, p, s)[n + i]
<1>1. Len(b) \in Nat /\ Len(s) \in Nat /\ p + n \in 0..Len(b)
  BY LenType DEF Bytes
<1>2. /\ Len(Rest(b, p, s)) = Len(b) - p + Len(s)
      /\ \A i \in 1..(Len(b) - p) : Rest(b, p, s)[i] = b[p + i]
      /\ \A i \in 1..Len(s) : Rest(b, p, s)[Len(b) - p + i] = s[i]
  BY RestType
<1>3. /\ Len(Rest(b, p + n, s)) = Len(b) - (p + n) + Len(s)
      /\ \A i \in 1..(Len(b) - (p + n)) : Rest(b, p + n, s)[i] = b[p + n + i]
      /\ \A i \in 1..Len(s) : Rest(b, p + n, s)[Len(b) - (p + n) + i] = s[i]
  BY <1>1, RestType
<1>4. ASSUME NEW i \in 1..Len(Rest(b, p + n, s))
      PROVE  Rest(b, p + n, s)[i] = Rest(b, p, s)[n + i]
  <2>1. CASE i <= Len(b) - (p + n)
    <3>1. /\ i \in 1..(Len(b) - (p + n)) /\ n + i \in 1..(Len(b) - p)
          /\ p + n + i = p + (n + i)
      BY <1>1, <1>3, <2>1
    <3> QED
      BY <1>2, <1>3, <3>1
  <2>2. CASE ~(i <= Len(b) - (p + n))
    <3> DEFINE j == i - (Len(b) - (p + n))
    <3>1. /\ j \in 1..Len(s) /\ i = Len(b) - (p + n) + j /\ n + i = Len(b) - p + j
      <4>1. i \in 1..(Len(b) - (p + n) + Len(s)) /\ i > Len(b) - (p + n)
        BY <1>1, <1>3, <2>2
      <4> QED
        BY <1>1, <4>1
    <3> QED
      BY <1>2, <1>3, <3>1
  <2> QED
    BY <2>1, <2>2
<1> QED
  BY <1>1, <1>2, <1>3, <1>4

(* All of the buffer was parsed, and it is empty.                           *)
LEMMA RestOfStream ==
  ASSUME NEW b \in Bytes, NEW s \in Bytes
  PROVE  Rest(<<>>, 0, s) = Rest(b, Len(b), s)
<1>1. Len(b) \in Nat /\ Len(s) \in Nat /\ <<>> \in Bytes /\ Len(<<>>) = 0
  BY LenType DEF Bytes
<1> QED
  BY <1>1 DEF Rest

(* What is not parsed of the buffer moves to its front.                     *)
LEMMA RestToFront ==
  ASSUME NEW b \in Bytes, NEW s \in Bytes, NEW p \in 0..Len(b)
  PROVE  Rest(SubSeq(b, p + 1, Len(b)), 0, s) = Rest(b, p, s)
<1> DEFINE c == SubSeq(b, p + 1, Len(b))
<1>1. Len(b) \in Nat /\ Len(s) \in Nat
  BY LenType DEF Bytes
<1>2. /\ Len(c) = Len(b) - p
      /\ \A i \in 1..(Len(b) - p) : c[i] = b[p + i]
  BY <1>1 DEF Bytes
<1> HIDE DEF c
<1>3. Len(c) - 0 = Len(b) - p
  BY <1>1, <1>2
<1>4. ASSUME NEW i \in 1..(Len(b) - p + Len(s))
      PROVE  (IF i <= Len(b) - p THEN c[0 + i] ELSE s[i - (Len(b) - p)])
               = IF i <= Len(b) - p THEN b[p + i] ELSE s[i - (Len(b) - p)]
  <2>1. i <= Len(b) - p => i \in 1..(Len(b) - p) /\ 0 + i = i
    BY <1>1
  <2> QED
    BY <1>2, <2>1
<1>5. Rest(c, 0, s) = Rest(b, p, s)
  BY <1>3, <1>4 DEF Rest
<1> QED
  BY <1>5 DEF c

(* Bytes are added to the stream.                                           *)
LEMMA RestGrows ==
  ASSUME NEW b \in Bytes, NEW s \in Bytes, NEW f \in Bytes, NEW p \in 0..Len(b)
  PROVE  /\ Len(Rest(b, p, s \o f)) = Len(Rest(b, p, s)) + Len(f)
         /\ \A i \in 1..Len(Rest(b, p, s)) : Rest(b, p, s \o f)[i] = Rest(b, p, s)[i]
         /\ \A i \in 1..Len(f) : Rest(b, p, s \o f)[Len(Rest(b, p, s)) + i] = f[i]
<1> DEFINE t == s \o f
<1>1. Len(b) \in Nat /\ Len(s) \in Nat /\ Len(f) \in Nat
  BY LenType DEF Bytes
<1>2. /\ t \in Bytes /\ Len(t) = Len(s) + Len(f)
      /\ \A i \in 1..Len(s) : t[i] = s[i]
      /\ \A i \in 1..Len(f) : t[Len(s) + i] = f[i]
  BY <1>1 DEF Bytes
<1> HIDE DEF t
<1>3. /\ Len(Rest(b, p, s)) = Len(b) - p + Len(s)
      /\ \A i \in 1..(Len(b) - p) : Rest(b, p, s)[i] = b[p + i]
      /\ \A i \in 1..Len(s) : Rest(b, p, s)[Len(b) - p + i] = s[i]
  BY RestType
<1>4. /\ Len(Rest(b, p, t)) = Len(b) - p + Len(t)
      /\ \A i \in 1..(Len(b) - p) : Rest(b, p, t)[i] = b[p + i]
      /\ \A i \in 1..Len(t) : Rest(b, p, t)[Len(b) - p + i] = t[i]
  BY <1>2, RestType
<1>5. ASSUME NEW i \in 1..Len(Rest(b, p, s))
      PROVE  Rest(b, p, t)[i] = Rest(b, p, s)[i]
  <2>1. CASE i <= Len(b) - p
    <3>1. i \in 1..(Len(b) - p)
      BY <1>1, <2>1
    <3> QED
      BY <1>3, <1>4, <3>1
  <2>2. CASE ~(i <= Len(b) - p)
    <3> DEFINE j == i - (Len(b) - p)
    <3>1. j \in 1..Len(s) /\ j \in 1..Len(t) /\ i = Len(b) - p + j
      BY <1>1, <1>2, <1>3, <2>2
    <3>2. Rest(b, p, t)[i] = t[j] /\ Rest(b, p, s)[i] = s[j] /\ t[j] = s[j]
      BY <1>2, <1>3, <1>4, <3>1
    <3> QED
      BY <3>2
  <2> QED
    BY <2>1, <2>2
<1>6. ASSUME NEW i \in 1..Len(f)
      PROVE  Rest(b, p, t)[Len(Rest(b, p, s)) + i] = f[i]
  <2>1. /\ Len(s) + i \in 1..Len(t)
        /\ Len(Rest(b, p, s)) + i = Len(b) - p + (Len(s) + i)
    BY <1>1, <1>2, <1>3
  <2> QED
    BY <1>2, <1>4, <2>1
<1> QED
  BY <1>1, <1>2, <1>3, <1>4, <1>5, <1>6 DEF t

-----------------------------------------------------------------------------
(* The invariant.                                                           *)

(* As in linux/cfg.txt, and connections that end between two messages.      *)
Shipped == RecvBuf = HeaderSize /\ ~CutMidway

(* The bytes that are not parsed yet, in the buffer and on their way.       *)
Parsed  == IF pc = "parse" THEN parse ELSE 0

(* The bytes that are not parsed.                                             *)
Pending == Rest(buf, Parsed, stream)

(* The message being received is m.                                         *)
Receiving(m) ==
  /\ m <= Len(sent)
  /\ msg.conn = conn /\ msg.id = m
  /\ Len(msg.body) + expect = sent[m].size
  /\ \A k \in 1..Len(msg.body) : msg.body[k] = <<m, HeaderSize + k>>
  /\ Follows(sent, Pending, m, HeaderSize + Len(msg.body))

(* d: the last message that was delivered, or lost with its connection.     *)
Track(d) ==
  /\ \A i \in DOMAIN delivered : delivered[i].id <= d
  /\ \A k \in 1..d : sent[k].conn = conn => \E j \in DOMAIN delivered : delivered[j].id = k
  /\ \A k \in (d + 1)..Len(sent) : sent[k].conn = conn
  /\ InOrder(sent, Pending)
  /\ IF msg = Nil THEN Starts(sent, Pending, d + 1, 1) ELSE Receiving(d + 1)

(* The second inductive invariant: the bytes to come go on where the message  *)
(* being received, or the last one delivered, ends.                           *)
Tracked ==
  /\ \A k \in 1..Len(sent) : sent[k].conn <= conn
  /\ pc = "closed" => msg = Nil
  /\ pc # "closed" => \E d \in 0..Len(sent) : Track(d)
  /\ DeliveredAsSent

(* The types of what Pending is made of.                                      *)
LEMMA PendingType ==
  ASSUME IInv
  PROVE  /\ buf \in Bytes /\ stream \in Bytes /\ sent \in Msgs
         /\ Parsed \in 0..Len(buf)
         /\ Pending \in Bytes /\ Len(Pending) = Len(buf) - Parsed + Len(stream)
         /\ \A i \in 1..(Len(buf) - Parsed) : Pending[i] = buf[Parsed + i]
<1>1. buf \in Bytes /\ stream \in Bytes /\ sent \in Msgs
  BY DEF IInv, TypeOK, Msgs
<1>2. Len(buf) \in Nat /\ parse \in Nat
  BY <1>1, LenType DEF Bytes, IInv, TypeOK
<1>3. Parsed \in 0..Len(buf)
  BY <1>2 DEF Parsed, IInv, InBounds
<1> QED
  BY <1>1, <1>3, RestType DEF Pending

(* A step that sends and delivers nothing keeps the property.                 *)
LEMMA DeliveredStays ==
  ASSUME DeliveredAsSent, UNCHANGED <<sent, delivered>>
  PROVE  DeliveredAsSent'
BY DEF DeliveredAsSent, Meant

(* Tracked holds at the start.                                                *)
LEMMA TrackedInit ==
  ASSUME RecvPathAssumption, Init
  PROVE  Tracked
<1>1. /\ sent = <<>> /\ stream = <<>> /\ buf = <<>> /\ msg = Nil /\ delivered = <<>>
      /\ pc = "reading" /\ Len(sent) = 0
  BY DEF Init
<1>2. IInv
  BY InitHolds
<1>3. Len(Pending) = 0
  <2>1. Len(buf) = 0 /\ Len(stream) = 0 /\ Parsed = 0
    BY <1>1 DEF Parsed
  <2> QED
    BY <1>2, <2>1, PendingType
<1>4. Track(0)
  BY <1>1, <1>3 DEF Track, InOrder, Starts
<1>5. DeliveredAsSent
  BY <1>1 DEF DeliveredAsSent
<1> QED
  BY <1>1, <1>4, <1>5 DEF Tracked

(* The peer sends a message: its bytes follow the ones of the last message.   *)
LEMMA PeerSendTracked ==
  ASSUME RecvPathAssumption, IInv, Tracked, NEW size \in Sizes, PeerSend(size)
  PROVE  Tracked'
<1> DEFINE r == [conn |-> conn, size |-> size]
           N == Len(sent) + 1
<1>1. /\ sent' = Append(sent, r) /\ stream' = stream \o Frame(N, size)
      /\ UNCHANGED <<conn, buf, parse, expect, msg, delivered, pc>>
      /\ pc # "closed" /\ N \in 1..MaxMsgs /\ Len(sent) \in Nat
  <2>1. Len(sent) \in Nat
    BY LenType DEF IInv, TypeOK
  <2> QED
    BY <2>1 DEF PeerSend, RecvPathAssumption
<1>2. r \in [conn : 1..MaxConns, size : Sizes] /\ size \in Nat
  BY DEF IInv, TypeOK, RecvPathAssumption
<1>3. /\ buf \in Bytes /\ stream \in Bytes /\ sent \in Msgs
      /\ Parsed \in 0..Len(buf) /\ Pending \in Bytes
  BY PendingType
<1>4. /\ sent' \in Msgs /\ Len(sent') = N /\ sent'[N] = r
      /\ \A m \in 1..Len(sent) : sent'[m] = sent[m]
  BY <1>1, <1>2, <1>3 DEF Msgs
<1>5. /\ Frame(N, size) \in Bytes /\ Len(Frame(N, size)) = HeaderSize + size
      /\ \A i \in 1..(HeaderSize + size) : Frame(N, size)[i] = <<N, i>>
  BY <1>1, <1>2, FrameType DEF Frame
<1>6. Parsed' = Parsed /\ Pending' = Rest(buf, Parsed, stream \o Frame(N, size))
  BY <1>1 DEF Parsed, Pending
<1>7. Pending' \in Bytes
  BY <1>3, <1>5, <1>6, RestType, ConcatKeepsType DEF Bytes
<1>8. /\ Len(Pending') = Len(Pending) + HeaderSize + size
      /\ \A i \in 1..Len(Pending) : Pending'[i] = Pending[i]
      /\ \A i \in 1..(HeaderSize + size) : Pending'[Len(Pending) + i] = <<N, i>>
  <2>1. /\ Len(Pending') = Len(Pending) + (HeaderSize + size)
        /\ \A i \in 1..Len(Pending) : Pending'[i] = Pending[i]
        /\ \A i \in 1..(HeaderSize + size) : Pending'[Len(Pending) + i] = <<N, i>>
    <3> DEFINE f == Frame(N, size)
    <3>1. /\ f \in Bytes /\ Len(f) = HeaderSize + size
          /\ \A i \in 1..(HeaderSize + size) : f[i] = <<N, i>>
          /\ Pending' = Rest(buf, Parsed, stream \o f)
      BY <1>5, <1>6
    <3> HIDE DEF f
    <3>2. /\ Len(Pending') = Len(Pending) + Len(f)
          /\ \A i \in 1..Len(Pending) : Pending'[i] = Pending[i]
          /\ \A i \in 1..Len(f) : Pending'[Len(Pending) + i] = f[i]
      <4>1. Pending = Rest(buf, Parsed, stream)
        BY DEF Pending
      <4>2. /\ Len(Rest(buf, Parsed, stream \o f)) = Len(Rest(buf, Parsed, stream)) + Len(f)
            /\ \A i \in 1..Len(Rest(buf, Parsed, stream)) :
                 Rest(buf, Parsed, stream \o f)[i] = Rest(buf, Parsed, stream)[i]
            /\ \A i \in 1..Len(f) :
                 Rest(buf, Parsed, stream \o f)[Len(Rest(buf, Parsed, stream)) + i] = f[i]
        BY <1>3, <3>1, RestGrows
      <4> HIDE DEF Pending
      <4> QED
        BY <3>1, <4>1, <4>2, Zenon
    <3> QED
      BY <3>1, <3>2
  <2>2. Len(Pending) \in Nat
    BY <1>3, LenType DEF Bytes
  <2> QED
    BY <1>2, <2>1, <2>2 DEF HeaderSize
<1>9. PICK d \in 0..Len(sent) : Track(d)
  BY <1>1 DEF Tracked
<1>10. /\ InOrder(sent', Pending')
       /\ \A m \in 1..N, k \in Nat : Starts(sent, Pending, m, k) => Starts(sent', Pending', m, k)
  <2>1. r.size = size /\ InOrder(sent, Pending)
    BY <1>9 DEF Track
  <2> QED
    BY <1>1, <1>2, <1>3, <1>7, <1>8, <2>1, OneMore
<1>11. Track(d)'
  <2>1. \A i \in DOMAIN delivered' : delivered'[i].id <= d
    BY <1>1, <1>9 DEF Track
  <2>2. \A k \in 1..d : sent'[k].conn = conn' => \E j \in DOMAIN delivered' : delivered'[j].id = k
    BY <1>1, <1>4, <1>9 DEF Track
  <2>3. \A k \in (d + 1)..Len(sent') : sent'[k].conn = conn'
    <3>1. ASSUME NEW k \in (d + 1)..N
          PROVE  sent'[k].conn = conn
      <4>1. CASE k = N
        BY <1>4, <4>1
      <4>2. CASE k # N
        <5>1. k \in (d + 1)..Len(sent) /\ k \in 1..Len(sent)
          BY <1>1, <4>2
        <5> QED
          BY <1>4, <1>9, <5>1 DEF Track
      <4> QED
        BY <4>1, <4>2
    <3> QED
      BY <1>1, <1>4, <3>1
  <2>4. msg = Nil => Starts(sent', Pending', d + 1, 1)
    BY <1>1, <1>9, <1>10, SMTT(30) DEF Track
  <2>5. ASSUME msg # Nil
        PROVE  Receiving(d + 1)'
    <3>1. Receiving(d + 1) /\ d + 1 \in 1..Len(sent)
      BY <1>1, <1>9, <2>5 DEF Track, Receiving
    <3>2. Total(sent', d + 1) = Total(sent, d + 1)
      BY <1>4, <3>1 DEF Total
    <3>3. HeaderSize + Len(msg.body) \in Nat
      BY <1>1, <2>5, LenType DEF IInv, TypeOK, Message, Bytes, HeaderSize
    <3>4. Follows(sent', Pending', d + 1, HeaderSize + Len(msg.body))
      <4>1. d + 1 \in 1..N /\ d + 1 + 1 \in 1..N /\ 1 \in Nat
            /\ HeaderSize + Len(msg.body) + 1 \in Nat
        BY <1>1, <3>1, <3>3
      <4> QED
        BY <1>10, <3>1, <3>2, <4>1 DEF Receiving, Follows
    <3>5. d + 1 <= Len(sent') /\ sent'[d + 1] = sent[d + 1]
      BY <1>1, <1>4, <3>1
    <3> QED
      BY <1>1, <3>1, <3>4, <3>5 DEF Receiving
  <2> QED
    BY <1>1, <1>10, <2>1, <2>2, <2>3, <2>4, <2>5 DEF Track
<1>12. \A k \in 1..Len(sent') : sent'[k].conn <= conn'
  <2>1. ASSUME NEW k \in 1..N
        PROVE  sent'[k].conn <= conn
    <3>1. CASE k = N
      BY <1>4, <3>1 DEF IInv, TypeOK
    <3>2. CASE k # N
      <4>1. k \in 1..Len(sent)
        BY <1>1, <3>2
      <4> QED
        BY <1>4, <4>1 DEF Tracked
    <3> QED
      BY <3>1, <3>2
  <2> QED
    BY <1>1, <1>4, <2>1
<1>13. DeliveredAsSent'
  <2>1. ASSUME NEW i \in DOMAIN delivered, NEW id, id = delivered[i].id
        PROVE  /\ id \in 1..Len(sent')
               /\ delivered[i] = [conn |-> sent'[id].conn, id |-> id,
                                  body |-> Payload(id, sent'[id].size)]
               /\ \A j \in 1..(i - 1) : delivered[j].id < id
               /\ \A m \in 1..(id - 1) :
                    sent'[m].conn = sent'[id].conn => \E j \in 1..(i - 1) : delivered[j].id = m
    <3>1. /\ id \in 1..Len(sent) /\ delivered[i] = Meant(id)
          /\ \A j \in 1..(i - 1) : delivered[j].id < id
          /\ \A m \in 1..(id - 1) :
               sent[m].conn = sent[id].conn => \E j \in 1..(i - 1) : delivered[j].id = m
      BY <2>1 DEF Tracked, DeliveredAsSent
    <3>2. id \in 1..Len(sent') /\ sent'[id] = sent[id] /\ \A m \in 1..(id - 1) : sent'[m] = sent[m]
      BY <1>1, <1>4, <3>1
    <3> QED
      BY <3>1, <3>2 DEF Meant
  <2>2. ASSUME NEW i \in DOMAIN delivered
        PROVE  LET id == delivered[i].id IN
               /\ id \in 1..Len(sent')
               /\ delivered[i] = [conn |-> sent'[id].conn, id |-> id,
                                  body |-> Payload(id, sent'[id].size)]
               /\ \A j \in 1..(i - 1) : delivered[j].id < id
               /\ \A m \in 1..(id - 1) :
                    sent'[m].conn = sent'[id].conn => \E j \in 1..(i - 1) : delivered[j].id = m
    BY <2>1
  <2>3. delivered' = delivered
    BY <1>1
  <2> QED
    BY <2>2, <2>3 DEF DeliveredAsSent, Meant
<1> QED
  BY <1>1, <1>4, <1>11, <1>12, <1>13 DEF Tracked

(* A step that only moves bytes, or parses some of them.                    *)
LEMMA SamePending ==
  ASSUME IInv, Tracked, Pending' = Pending, pc # "closed", pc' # "closed",
         UNCHANGED <<conn, sent, expect, msg, delivered>>
  PROVE  Tracked'
<1>1. PICK d \in 0..Len(sent) : Track(d)
  BY DEF Tracked
<1>2. Track(d)'
  <2>1. msg # Nil => Receiving(d + 1)'
    BY <1>1 DEF Track, Receiving
  <2> QED
    BY <1>1, <2>1 DEF Track
<1> QED
  BY <1>1, <1>2, DeliveredStays DEF Tracked

(* A read moves bytes from the stream to the buffer, and the end of a pass of *)
(* parse_msg moves them to the front of it.                                   *)
LEMMA MovesBytes ==
  ASSUME RecvPathAssumption, IInv, Read \/ ParseEnd
  PROVE  /\ Pending' = Pending /\ pc # "closed" /\ pc' # "closed"
         /\ UNCHANGED <<conn, sent, expect, msg, delivered>>
<1>1. CASE Read
  <2>1. PICK n \in 1..Len(stream) : HandleRead(n)
    BY <1>1 DEF Read
  <2>2. /\ Parsed = 0 /\ Parsed' = 0
        /\ buf' = buf \o SubSeq(stream, 1, n) /\ stream' = SubSeq(stream, n + 1, Len(stream))
    BY <2>1 DEF HandleRead, Parsed
  <2>3. Pending' = Pending
    BY <2>2, PendingType, RestMoves DEF Pending
  <2> QED
    BY <2>1, <2>3 DEF HandleRead
<1>2. CASE ParseEnd
  <2>1. Parsed = parse /\ Parsed' = 0 /\ buf' = SubSeq(buf, parse + 1, Len(buf)) /\ stream' = stream
    BY <1>2 DEF ParseEnd, Parsed, peerVars
  <2>2. Pending' = Pending
    BY <2>1, PendingType, RestToFront DEF Pending
  <2> QED
    BY <1>2, <2>2 DEF ParseEnd, peerVars
<1> QED
  BY <1>1, <1>2

(* The next connection starts with nothing of the last: here it matters that  *)
(* connections end between two messages.                                      *)
LEMMA ReconnectTracked ==
  ASSUME RecvPathAssumption, Shipped, IInv, Tracked, Reconnect
  PROVE  Tracked'
<1>1. /\ conn' = conn + 1 /\ stream' = <<>> /\ buf' = <<>> /\ pc' = "reading"
      /\ UNCHANGED <<sent, msg, delivered>> /\ msg = Nil
  BY DEF Reconnect, Shipped, Tracked
<1>2. Len(sent) \in Nat /\ conn \in Nat
  BY LenType DEF IInv, TypeOK
<1>3. \A k \in 1..Len(sent) : sent[k].conn \in Nat /\ sent[k].conn <= conn
  <2>1. ASSUME NEW k \in 1..Len(sent)
        PROVE  sent[k].conn \in Nat
    <3>1. sent[k] \in [conn : 1..MaxConns, size : Sizes]
      BY PendingType, ElementType DEF Msgs
    <3> QED
      BY <3>1
  <2> QED
    BY <2>1 DEF Tracked
<1>4. Len(Pending') = 0
  <2>1. Parsed' = 0 /\ Pending' = Rest(<<>>, 0, <<>>)
    BY <1>1 DEF Parsed, Pending
  <2>2. <<>> \in Bytes /\ Len(<<>>) = 0 /\ 0 \in 0..0
    BY DEF Bytes
  <2>3. Len(Rest(<<>>, 0, <<>>)) = 0
    BY <2>2, RestType
  <2> QED
    BY <2>1, <2>3
<1>5. Track(Len(sent))'
  <2>1. \A i \in DOMAIN delivered : delivered[i].id <= Len(sent)
    BY <1>2 DEF Tracked, DeliveredAsSent
  <2>2. \A k \in 1..Len(sent) : sent[k].conn # conn + 1
    BY <1>2, <1>3
  <2>3. InOrder(sent', Pending')
    BY <1>4 DEF InOrder
  <2>4. Starts(sent', Pending', Len(sent) + 1, 1)
    BY <1>1, <1>4 DEF Starts
  <2>5. \A k \in (Len(sent) + 1)..Len(sent) : FALSE
    BY <1>2
  <2> QED
    BY <1>1, <2>1, <2>2, <2>3, <2>4, <2>5 DEF Track
<1>6. Len(sent) \in 0..Len(sent')
  BY <1>1, <1>2
<1>7. \A k \in 1..Len(sent) : sent[k].conn <= conn + 1
  BY <1>2, <1>3
<1> QED
  BY <1>1, <1>5, <1>6, <1>7, DeliveredStays DEF Tracked

(* A buffer of one header has no room for a second: the header is read at its *)
(* start.                                                                     *)
LEMMA Whole ==
  ASSUME NEW len \in Nat, NEW p \in Nat, len <= 6, len - p >= 6
  PROVE  p = 0 /\ len = 6
OBVIOUS

(* The header is alone in the buffer.                                         *)
LEMMA HeaderAlone ==
  ASSUME IInv, RecvBuf = HeaderSize, pc = "parse", Available >= HeaderSize
  PROVE  parse = 0 /\ Parsed = 0 /\ Len(buf) = 6
<1>1. parse \in Nat /\ Len(buf) <= RecvBuf /\ Len(buf) - parse >= HeaderSize
  BY DEF IInv, TypeOK, Available
<1>2. RecvBuf = 6 /\ HeaderSize = 6
  BY DEF HeaderSize
<1>3. Len(buf) \in Nat /\ parse \in Nat /\ Len(buf) <= 6 /\ Len(buf) - parse >= 6
  BY <1>1, <1>2, PendingType, LenType DEF Bytes
<1>4. parse = 0 /\ Len(buf) = 6
  BY <1>3, Whole
<1> QED
  BY <1>4 DEF Parsed

(* The bytes of a header are taken for it.                                    *)
LEMMA HeaderIs ==
  ASSUME IInv, Len(buf) = 6, NEW m \in 1..Len(sent), \A i \in 1..6 : buf[i] = <<m, i>>,
         NEW h \in Headers
  PROVE  h = [id |-> m, size |-> sent[m].size]
<1>1. buf \in Bytes
  BY PendingType
<1>2. \A i \in 1..6 : HeaderBytes[i] = <<m, i>>
  BY <1>1, SMTT(30) DEF HeaderBytes, HeaderSize, Bytes
<1>3. HeaderBytes \in Seq((0..MaxMsgs) \X Nat) /\ Len(HeaderBytes) = 6
  <2>1. buf \in Seq((0..MaxMsgs) \X Nat) /\ 1 \in Nat \ {0} /\ 6 \in 0..Len(buf)
    BY <1>1 DEF Bytes
  <2>2. /\ SubSeq(buf, 1, 6) \in Seq((0..MaxMsgs) \X Nat)
        /\ Len(SubSeq(buf, 1, 6)) = IF 1 <= 6 THEN 6 - 1 + 1 ELSE 0
    BY <2>1, SubSeqKeepsType
  <2> QED
    BY <2>2 DEF HeaderBytes, HeaderSize
<1>4. m \in 0..MaxMsgs
  <2>1. 1 \in 1..Len(buf) /\ 1 \in 1..6
    OBVIOUS
  <2>2. buf[1] \in (0..MaxMsgs) \X Nat /\ buf[1] = <<m, 1>>
    BY <1>1, <2>1, ByteType
  <2> QED
    BY <2>2
<1>5. PICK v : v = SubSeq(Frame(m, 0), 1, HeaderSize)
  OBVIOUS
<1>6. v \in Seq((0..MaxMsgs) \X Nat) /\ Len(v) = 6 /\ \A i \in 1..6 : v[i] = <<m, i>>
  <2>1. /\ Frame(m, 0) \in Seq((0..MaxMsgs) \X Nat) /\ Len(Frame(m, 0)) = 6
        /\ \A i \in 1..6 : Frame(m, 0)[i] = <<m, i>>
    BY <1>4 DEF Frame, HeaderSize
  <2>2. PICK S, t : S = (0..MaxMsgs) \X Nat /\ t = Frame(m, 0)
    OBVIOUS
  <2>3. t \in Seq(S) /\ Len(t) = 6 /\ \A i \in 1..6 : t[i] = <<m, i>>
    BY <2>1, <2>2
  <2>4. PICK p, e, o : p = 0 /\ e = 6 /\ o = 1
    OBVIOUS
  <2>5. t \in Seq(S) /\ p \in 0..Len(t) /\ e \in 0..(Len(t) - p)
    BY <2>3, <2>4
  <2>6. /\ SubSeq(t, p + 1, p + e) \in Seq(S) /\ Len(SubSeq(t, p + 1, p + e)) = e
        /\ \A i \in 1..e : SubSeq(t, p + 1, p + e)[i] = t[p + i]
    BY ONLY <2>5, PartOf
  <2>7. p + 1 = o /\ p + e = e /\ HeaderSize = e
    BY <2>4 DEF HeaderSize
  <2>8. v = SubSeq(t, p + 1, p + e)
    BY ONLY <1>5, <2>2, <2>4, <2>7
  <2>9. v \in Seq(S) /\ Len(v) = e /\ \A i \in 1..e : v[i] = t[p + i]
    BY ONLY <2>6, <2>8
  <2>10. \A i \in 1..e : t[p + i] = <<m, i>>
    BY ONLY <2>3, <2>4
  <2> QED
    BY ONLY <2>2, <2>4, <2>9, <2>10
<1>7. HeaderBytes = SubSeq(Frame(m, 0), 1, HeaderSize)
  <2>1. PICK u, S : u = HeaderBytes /\ S = (0..MaxMsgs) \X Nat
    OBVIOUS
  <2>2. /\ u \in Seq(S) /\ v \in Seq(S) /\ Len(u) = Len(v)
        /\ \A i \in 1..Len(u) : u[i] = v[i]
    BY <1>2, <1>3, <1>6, <2>1
  <2>3. u = v
    BY ONLY <2>2, SameSequence
  <2> QED
    BY ONLY <1>5, <2>1, <2>3
<1>8. HeaderBytes[1][1] = m
  BY <1>2
<1>9. Headers = {[id |-> m, size |-> sent[m].size]}
  BY <1>7, <1>8 DEF Headers, HeaderSize
<1> QED
  BY <1>9

(* A header is parsed: here it matters that the buffer holds no more than     *)
(* one.                                                                       *)
LEMMA ParseHeaderTracked ==
  ASSUME RecvPathAssumption, Shipped, IInv, Tracked, NEW h \in Headers, NEW alloc \in BOOLEAN,
         ParseHeader(h, alloc)
  PROVE  Tracked'
<1>1. /\ pc = "parse" /\ msg = Nil /\ Available >= HeaderSize /\ expect' = h.size
      /\ UNCHANGED <<conn, sent, stream, buf, delivered>>
  BY DEF ParseHeader, peerVars
<1>2. CASE pc' = "closed" /\ UNCHANGED <<msg, parse>>
  BY <1>1, <1>2, DeliveredStays DEF Tracked
<1>3. CASE /\ msg' = [conn |-> conn, id |-> h.id, body |-> <<>>]
           /\ parse' = parse + HeaderSize
           /\ UNCHANGED pc
  <2>1. PICK d \in 0..Len(sent) : Track(d)
    BY <1>1 DEF Tracked
  <2> DEFINE m == d + 1
  <2>2. /\ buf \in Bytes /\ stream \in Bytes /\ sent \in Msgs /\ Pending \in Bytes
        /\ \A i \in 1..(Len(buf) - Parsed) : Pending[i] = buf[Parsed + i]
        /\ Len(Pending) = Len(buf) - Parsed + Len(stream)
        /\ Len(buf) \in Nat /\ Len(stream) \in Nat /\ Len(sent) \in Nat
    BY PendingType, LenType DEF Bytes, Msgs
  <2>3. parse = 0 /\ Parsed = 0 /\ Len(buf) = 6 /\ parse' = 6
    <3>1. parse = 0 /\ Parsed = 0 /\ Len(buf) = 6
      BY <1>1, HeaderAlone DEF Shipped
    <3> QED
      BY <1>1, <1>3, <3>1 DEF Parsed, HeaderSize
  <2>4. /\ Len(Pending) # 0 /\ 6 <= Len(Pending) /\ 1 \in 1..Len(Pending)
        /\ \A i \in 1..6 : Pending[i] = buf[i]
    BY <2>2, <2>3
  <2>5. Pending[1] = <<m, 1>> /\ InOrder(sent, Pending)
    BY <1>1, <2>1, <2>4 DEF Track, Starts
  <2>6. m \in 1..Len(sent)
    <3>1. Pending[1][1] \in 1..Len(sent)
      BY <2>4, <2>5 DEF InOrder
    <3> QED
      BY <2>5, <3>1
  <2>7. Total(sent, m) \in Nat /\ Total(sent, m) >= 6 /\ sent[m].size \in Nat
        /\ Total(sent, m) = 6 + sent[m].size
    BY <2>2, <2>6, TotalType DEF HeaderSize, Total
  <2>8. Follows(sent, Pending, m, 0)
    BY <2>4, <2>5, <2>7 DEF Follows, Starts
  <2>9. Pending' = Rest(buf, 0 + 6, stream) /\ Pending = Rest(buf, 0, stream)
    BY <1>1, <1>3, <2>3 DEF Pending, Parsed
  <2>10. /\ Pending' \in Bytes /\ Len(Pending') = Len(Pending) - 6
         /\ \A i \in 1..Len(Pending') : Pending'[i] = Pending[6 + i]
    <3>1. 0 \in 0..Len(buf) /\ 6 \in 0..(Len(buf) - 0) /\ 0 + 6 \in 0..Len(buf)
      BY <2>3
    <3>2. Pending' \in Bytes
      BY <2>2, <2>9, <3>1, RestType
    <3>3. /\ Len(Rest(buf, 0 + 6, stream)) = Len(Rest(buf, 0, stream)) - 6
          /\ \A i \in 1..Len(Rest(buf, 0 + 6, stream)) :
               Rest(buf, 0 + 6, stream)[i] = Rest(buf, 0, stream)[6 + i]
      BY <2>2, <3>1, RestSkips
    <3> QED
      BY <2>9, <3>2, <3>3
  <2>11. /\ \A j \in 1..6 : Pending[j] = <<m, 0 + j>>
         /\ Follows(sent, Pending', m, 0 + 6)
    <3>1. 0 \in 0..Total(sent, m) /\ 6 \in 0..(Total(sent, m) - 0)
      BY <2>7
    <3> HIDE DEF m
    <3> QED
      BY <2>2, <2>4, <2>5, <2>6, <2>8, <2>10, <3>1, NextBytes
  <2>12. InOrder(sent, Pending')
    <3>1. 6 \in 0..Len(Pending)
      BY <2>2, <2>4
    <3> QED
      BY <2>2, <2>5, <2>10, <3>1, SuffixInOrder
  <2>13. h = [id |-> m, size |-> sent[m].size]
    <3>1. \A i \in 1..6 : buf[i] = <<m, i>>
      BY <2>4, <2>11
    <3> HIDE DEF m
    <3> QED
      BY <2>3, <2>6, <3>1, HeaderIs
  <2>14. msg' # Nil
    <3>1. conn \in Nat /\ m \in Nat
      BY <2>6 DEF IInv, TypeOK
    <3>2. [conn |-> conn, id |-> m, body |-> <<>>] \in [conn : Nat, id : Nat, body : Seq(Nat \X Nat)]
      BY <3>1
    <3> QED
      BY <1>3, <2>13, <3>2 DEF RecvPathAssumption
  <2>15. Receiving(m)'
    <3>1. /\ msg'.conn = conn' /\ msg'.id = m /\ msg'.body = <<>> /\ Len(msg'.body) = 0
          /\ expect' = sent[m].size
      BY <1>1, <1>3, <2>13
    <3>2. Follows(sent', Pending', m, HeaderSize + Len(msg'.body))
      BY <1>1, <2>11, <3>1 DEF HeaderSize
    <3>3. m <= Len(sent') /\ Len(msg'.body) + expect' = sent'[m].size
      BY <1>1, <2>2, <2>6, <2>7, <3>1
    <3> QED
      BY <3>1, <3>2, <3>3 DEF Receiving
  <2>16. Track(d)'
    BY <1>1, <2>1, <2>12, <2>14, <2>15 DEF Track
  <2> QED
    BY <1>1, <1>3, <2>14, <2>16, DeliveredStays DEF Tracked
<1> QED
  BY <1>2, <1>3 DEF ParseHeader

(* The next n bytes belong to the message, and are in the buffer.           *)
LEMMA ParseBody ==
  ASSUME RecvPathAssumption, IInv, pc = "parse", msg # Nil,
         NEW m \in Nat \ {0}, Receiving(m), InOrder(sent, Pending),
         NEW n \in Nat, n <= expect, n <= Available
  PROVE  /\ m \in 1..Len(sent) /\ m \in 0..MaxMsgs
         /\ sent[m].size \in Nat
         /\ Len(msg.body) \in Nat /\ msg.body \in Bytes
         /\ SubSeq(buf, parse + 1, parse + n) \in Bytes
         /\ Len(SubSeq(buf, parse + 1, parse + n)) = n
         /\ \A j \in 1..n :
              SubSeq(buf, parse + 1, parse + n)[j] = <<m, HeaderSize + Len(msg.body) + j>>
         /\ Rest(buf, parse + n, stream) \in Bytes
         /\ InOrder(sent, Rest(buf, parse + n, stream))
         /\ Follows(sent, Rest(buf, parse + n, stream), m, HeaderSize + Len(msg.body) + n)
<1> DEFINE k == HeaderSize + Len(msg.body)
           t == Rest(buf, parse + n, stream)
           part == SubSeq(buf, parse + 1, parse + n)
<1>1. /\ buf \in Bytes /\ stream \in Bytes /\ sent \in Msgs /\ Pending \in Bytes
      /\ Parsed = parse /\ parse \in 0..Len(buf)
      /\ \A i \in 1..(Len(buf) - parse) : Pending[i] = buf[parse + i]
      /\ Pending = Rest(buf, parse, stream)
      /\ Len(buf) \in Nat /\ Len(sent) \in Nat
  BY PendingType, LenType DEF Bytes, Msgs, Parsed, Pending
<1>2. msg \in Message /\ msg.id = m /\ msg.body \in Bytes /\ Len(msg.body) \in Nat /\ expect \in Nat
  BY LenType DEF IInv, TypeOK, Message, Bytes, Receiving
<1>3. m \in 0..MaxMsgs
  BY <1>2 DEF Message
<1>4. m \in 1..Len(sent)
  BY <1>1 DEF Receiving
<1>5. /\ Total(sent, m) \in Nat /\ sent[m].size \in Nat
      /\ Total(sent, m) = HeaderSize + sent[m].size
  BY <1>1, <1>4, TotalType DEF Total
<1>6. k \in 0..Total(sent, m) /\ n \in 0..(Total(sent, m) - k)
  <2>1. Len(msg.body) + expect = sent[m].size
    BY DEF Receiving
  <2> QED
    BY <1>2, <1>5, <2>1, SMTT(30) DEF HeaderSize
<1>7. n \in 0..(Len(buf) - parse) /\ parse + n \in 0..Len(buf) /\ parse + 1 \in Nat \ {0}
  BY <1>1 DEF Available
<1>8. /\ t \in Bytes /\ n <= Len(Pending) /\ Len(t) = Len(Pending) - n
      /\ \A i \in 1..Len(t) : t[i] = Pending[n + i]
  <2>1. t \in Bytes
    BY <1>1, <1>7, RestType
  <2>2. /\ n <= Len(Rest(buf, parse, stream))
        /\ Len(t) = Len(Rest(buf, parse, stream)) - n
        /\ \A i \in 1..Len(t) : t[i] = Rest(buf, parse, stream)[n + i]
    BY <1>1, <1>7, RestSkips
  <2> QED
    BY <1>1, <2>1, <2>2
<1>9. /\ part \in Bytes /\ Len(part) = n
      /\ \A j \in 1..n : part[j] = Pending[j]
  <2>1. part \in Bytes /\ Len(part) = n
    <3>1. /\ part \in Bytes
          /\ Len(part) = IF parse + 1 <= parse + n THEN (parse + n) - (parse + 1) + 1 ELSE 0
      BY <1>1, <1>7, SubSeqKeepsType DEF Bytes
    <3> QED
      BY <1>1, <3>1
  <2>2. \A j \in 1..n : part[j] = buf[parse + j]
    BY <1>1, <1>7 DEF Bytes
  <2> QED
    BY <1>1, <1>7, <2>1, <2>2
<1> HIDE DEF t, part
<1>10. Follows(sent, Pending, m, k)
  BY DEF Receiving
<1>11. /\ \A j \in 1..n : Pending[j] = <<m, k + j>>
       /\ Follows(sent, t, m, k + n)
  <2> HIDE DEF k
  <2> QED
    BY <1>1, <1>4, <1>6, <1>8, <1>10, NextBytes
<1>12. InOrder(sent, t)
  <2>1. n \in 0..Len(Pending)
    BY <1>1, <1>8, LenType DEF Bytes
  <2> QED
    BY <1>1, <1>8, <2>1, SuffixInOrder
<1> QED
  BY <1>2, <1>3, <1>4, <1>5, <1>8, <1>9, <1>11, <1>12 DEF t, part

(* A part of the message goes into its block.                                 *)
LEMMA ParsePartialTracked ==
  ASSUME RecvPathAssumption, IInv, Tracked, ParsePartial
  PROVE  Tracked'
<1> DEFINE n == Available
           part == SubSeq(buf, parse + 1, Len(buf))
<1>1. /\ pc = "parse" /\ msg # Nil /\ n < expect
      /\ msg' = [msg EXCEPT !.body = @ \o part]
      /\ expect' = expect - n /\ buf' = <<>> /\ pc' = "reading"
      /\ UNCHANGED <<conn, sent, stream, delivered>>
  BY DEF ParsePartial, peerVars, StillExpected
<1>2. PICK d \in 0..Len(sent) : Track(d)
  BY <1>1 DEF Tracked
<1> DEFINE m == d + 1
<1>3. Receiving(m) /\ InOrder(sent, Pending)
  BY <1>1, <1>2 DEF Track
<1>4. /\ buf \in Bytes /\ stream \in Bytes /\ sent \in Msgs
      /\ parse \in 0..Len(buf) /\ expect \in Nat /\ Len(buf) \in Nat /\ Len(sent) \in Nat
  BY <1>1, PendingType, LenType DEF Bytes, Msgs, Parsed, IInv, TypeOK
<1>5. n \in Nat /\ n <= expect /\ n <= Available /\ parse + n = Len(buf) /\ m \in Nat \ {0}
  BY <1>1, <1>4 DEF Available
<1>6. /\ m \in 1..Len(sent) /\ m \in 0..MaxMsgs
      /\ sent[m].size \in Nat
      /\ Len(msg.body) \in Nat /\ msg.body \in Bytes
      /\ part \in Bytes /\ Len(part) = n
      /\ \A j \in 1..n : part[j] = <<m, HeaderSize + Len(msg.body) + j>>
      /\ InOrder(sent, Rest(buf, Len(buf), stream))
      /\ Follows(sent, Rest(buf, Len(buf), stream), m, HeaderSize + Len(msg.body) + n)
  <2> HIDE DEF m, n
  <2>1. /\ m \in 1..Len(sent) /\ m \in 0..MaxMsgs
        /\ sent[m].size \in Nat
        /\ Len(msg.body) \in Nat /\ msg.body \in Bytes
        /\ SubSeq(buf, parse + 1, parse + n) \in Bytes
        /\ Len(SubSeq(buf, parse + 1, parse + n)) = n
        /\ \A j \in 1..n :
             SubSeq(buf, parse + 1, parse + n)[j] = <<m, HeaderSize + Len(msg.body) + j>>
        /\ InOrder(sent, Rest(buf, parse + n, stream))
        /\ Follows(sent, Rest(buf, parse + n, stream), m, HeaderSize + Len(msg.body) + n)
    BY <1>1, <1>3, <1>5, ParseBody
  <2> QED
    BY <1>5, <2>1
<1>7. Pending' = Rest(buf, Len(buf), stream)
  <2>1. Pending' = Rest(<<>>, 0, stream)
    BY <1>1 DEF Pending, Parsed
  <2> QED
    BY <1>4, <2>1, RestOfStream
<1>8. msg \in Message
  BY <1>1 DEF IInv, TypeOK
<1> HIDE DEF part, n
<1>9. /\ msg'.conn = msg.conn /\ msg'.id = msg.id /\ msg'.body = msg.body \o part
      /\ Len(msg'.body) = Len(msg.body) + n
  BY <1>1, <1>6, <1>8, ConcatKeepsType DEF Message, Bytes
<1>10. \A j \in 1..Len(msg'.body) : msg'.body[j] = <<m, HeaderSize + j>>
  <2> HIDE DEF m
  <2>1. ASSUME NEW j \in 1..(Len(msg.body) + n)
        PROVE  (msg.body \o part)[j] = <<m, HeaderSize + j>>
    <3>1. CASE j <= Len(msg.body)
      <4>1. j \in 1..Len(msg.body) /\ (msg.body \o part)[j] = msg.body[j]
        BY <1>5, <1>6, <3>1 DEF Bytes
      <4> QED
        BY <1>3, <4>1 DEF Receiving
    <3>2. CASE ~(j <= Len(msg.body))
      <4>1. /\ j - Len(msg.body) \in 1..n
            /\ (msg.body \o part)[j] = part[j - Len(msg.body)]
            /\ HeaderSize + Len(msg.body) + (j - Len(msg.body)) = HeaderSize + j
        <5>1. j - Len(msg.body) \in 1..n /\ Len(msg.body) + (j - Len(msg.body)) = j
          <6>1. Len(msg.body) \in Nat /\ n \in Nat
            BY <1>5, <1>6
          <6> QED
            BY <3>2, <6>1, PlaceInSecond
        <5>4. ASSUME NEW i \in 1..n
              PROVE  (msg.body \o part)[Len(msg.body) + i] = part[i]
          BY <1>5, <1>6, SecondPart DEF Bytes
        <5>2. (msg.body \o part)[j] = part[j - Len(msg.body)]
          BY <5>1, <5>4
        <5>3. ASSUME NEW l \in Nat
              PROVE  HeaderSize + l + (j - l) = HeaderSize + j
          BY <1>5, <1>6 DEF HeaderSize
        <5> QED
          BY <1>6, <5>1, <5>2, <5>3
      <4> QED
        BY <1>6, <4>1
    <3> QED
      BY <3>1, <3>2
  <2> QED
    BY <1>9, <2>1
<1>11. msg' # Nil
  <2>1. msg' \in Message
    <3>1. IInv'
      BY ParsePartialStep
    <3>2. msg' = [msg EXCEPT !.body = msg.body \o part] /\ msg.body \o part \in Bytes
      BY <1>1, <1>6, <1>8, ConcatKeepsType DEF Bytes
    <3> QED
      BY <1>8, <3>2 DEF Message
  <2>2. msg' \in [conn : Nat, id : Nat, body : Seq(Nat \X Nat)]
    BY <2>1 DEF Message, Bytes
  <2> QED
    BY <2>2 DEF RecvPathAssumption
<1>12. Receiving(m)'
  <2>1. Len(msg'.body) + expect' = sent[m].size
    BY <1>1, <1>3, <1>4, <1>5, <1>6, <1>9 DEF Receiving
  <2>2. Follows(sent', Pending', m, HeaderSize + Len(msg'.body))
    <3>1. HeaderSize + Len(msg'.body) = HeaderSize + Len(msg.body) + n
      BY <1>5, <1>6, <1>9 DEF HeaderSize
    <3> QED
      BY <1>1, <1>6, <1>7, <3>1
  <2> QED
    BY <1>1, <1>3, <1>9, <1>10, <2>1, <2>2 DEF Receiving
<1>13. Track(d)'
  <2>1. InOrder(sent', Pending')
    BY <1>1, <1>6, <1>7
  <2> QED
    BY <1>1, <1>2, <1>11, <1>12, <2>1 DEF Track
<1> QED
  BY <1>1, <1>11, <1>13, DeliveredStays DEF Tracked

(* The bytes of a payload.                                                    *)
LEMMA PayloadType ==
  ASSUME NEW m \in 0..MaxMsgs, NEW size \in Nat
  PROVE  /\ Payload(m, size) \in Bytes /\ Len(Payload(m, size)) = size
         /\ \A k \in 1..size : Payload(m, size)[k] = <<m, HeaderSize + k>>
BY DEF Payload, Bytes, HeaderSize

(* The message is complete, and delivered: it is the next one.                *)
LEMMA ParseCompleteTracked ==
  ASSUME RecvPathAssumption, IInv, Tracked, ParseComplete
  PROVE  Tracked'
<1> DEFINE part == SubSeq(buf, parse + 1, parse + expect)
<1>1. /\ pc = "parse" /\ msg # Nil /\ Available >= expect
      /\ delivered' = Append(delivered, [msg EXCEPT !.body = @ \o part])
      /\ parse' = parse + expect /\ msg' = Nil
      /\ UNCHANGED <<conn, sent, stream, buf, pc>>
  BY DEF ParseComplete, peerVars
<1>2. PICK d \in 0..Len(sent) : Track(d)
  BY <1>1 DEF Tracked
<1>3. PICK m \in Nat \ {0} : m = d + 1
  OBVIOUS
<1>4. Receiving(m) /\ InOrder(sent, Pending)
  BY <1>1, <1>2, <1>3 DEF Track
<1>5. /\ expect \in Nat /\ expect <= expect /\ expect <= Available
      /\ Len(delivered) \in Nat /\ delivered \in Seq(Message) /\ Len(sent) \in Nat
  <2>1. expect \in Nat /\ delivered \in Seq(Message) /\ Len(sent) \in Nat
    BY LenType DEF IInv, TypeOK
  <2>2. buf \in Bytes /\ parse \in 0..Len(buf) /\ Len(buf) \in Nat
    BY <1>1, PendingType, LenType DEF Bytes, Parsed
  <2> QED
    BY <1>1, <2>1, <2>2, LenType DEF Available
<1>6. /\ m \in 1..Len(sent) /\ m \in 0..MaxMsgs
      /\ sent[m].size \in Nat
      /\ Len(msg.body) \in Nat /\ msg.body \in Bytes
      /\ part \in Bytes /\ Len(part) = expect
      /\ \A j \in 1..expect : part[j] = <<m, HeaderSize + Len(msg.body) + j>>
      /\ InOrder(sent, Rest(buf, parse + expect, stream))
      /\ Follows(sent, Rest(buf, parse + expect, stream), m, HeaderSize + Len(msg.body) + expect)
  BY <1>1, <1>4, <1>5, ParseBody
<1>7. Pending' = Rest(buf, parse + expect, stream)
  BY <1>1 DEF Pending, Parsed
<1>8. msg \in Message /\ msg.conn = conn /\ msg.id = m /\ Len(msg.body) + expect = sent[m].size
  BY <1>1, <1>4 DEF IInv, TypeOK, Receiving
<1> HIDE DEF part
<1>9. msg.body \o part = Payload(m, sent[m].size)
  <2>1. /\ msg.body \o part \in Bytes /\ Len(msg.body \o part) = sent[m].size
    BY <1>6, <1>8, ConcatKeepsType DEF Bytes
  <2>2. /\ Payload(m, sent[m].size) \in Bytes /\ Len(Payload(m, sent[m].size)) = sent[m].size
        /\ \A k \in 1..sent[m].size : Payload(m, sent[m].size)[k] = <<m, HeaderSize + k>>
    BY <1>6, PayloadType
  <2>3. ASSUME NEW k \in 1..sent[m].size
        PROVE  (msg.body \o part)[k] = <<m, HeaderSize + k>>
    <3>1. CASE k <= Len(msg.body)
      <4>1. k \in 1..Len(msg.body) /\ (msg.body \o part)[k] = msg.body[k]
        BY <1>6, <3>1 DEF Bytes
      <4> QED
        BY <1>4, <4>1 DEF Receiving
    <3>2. CASE ~(k <= Len(msg.body))
      <4>1. /\ k - Len(msg.body) \in 1..expect /\ Len(msg.body) + (k - Len(msg.body)) = k
        BY <1>5, <1>6, <1>8, <3>2
      <4>2. (msg.body \o part)[k] = part[k - Len(msg.body)]
        BY <1>6, <4>1, <3>2 DEF Bytes
      <4>3. ASSUME NEW l \in Nat
            PROVE  HeaderSize + l + (k - l) = HeaderSize + k
        BY <1>6 DEF HeaderSize
      <4> QED
        BY <1>6, <4>1, <4>2, <4>3
    <3> QED
      BY <3>1, <3>2
  <2> QED
    BY <2>1, <2>2, <2>3, SameSequence DEF Bytes
<1> DEFINE new == [msg EXCEPT !.body = @ \o part]
<1>10. new = Meant(m) /\ new.id = m /\ new.conn = conn
  <2>1. new = [conn |-> conn, id |-> m, body |-> msg.body \o part]
    <3>1. \A v : [msg EXCEPT !.body = v] = [conn |-> msg.conn, id |-> msg.id, body |-> v]
      BY <1>8 DEF Message
    <3> QED
      BY <1>8, <3>1
  <2>2. sent[m].conn = conn
    <3>1. m \in (d + 1)..Len(sent)
      BY <1>3, <1>5, <1>6
    <3> QED
      BY <1>2, <3>1 DEF Track
  <2> QED
    BY <1>9, <2>1, <2>2 DEF Meant
<1>11. /\ Len(delivered') = Len(delivered) + 1
       /\ DOMAIN delivered' = 1..(Len(delivered) + 1) /\ DOMAIN delivered = 1..Len(delivered)
       /\ \A i \in 1..Len(delivered) : delivered'[i] = delivered[i]
       /\ delivered'[Len(delivered) + 1] = new
  <2> HIDE DEF new
  <2>1. delivered' = Append(delivered, new)
    BY <1>1 DEF new
  <2> QED
    BY <1>5, <2>1
<1> HIDE DEF new
<1>12. Starts(sent, Pending', m + 1, 1)
  <2>1. Total(sent, m) = HeaderSize + Len(msg.body) + expect
    BY <1>5, <1>6, <1>8 DEF Total, HeaderSize
  <2>2. ~(Total(sent, m) < Total(sent, m))
    BY <1>6 DEF Total, HeaderSize
  <2> QED
    BY <1>6, <1>7, <2>1, <2>2 DEF Follows
<1>13. Track(m)'
  <2>1. ASSUME NEW i \in DOMAIN delivered'
        PROVE  delivered'[i].id <= m
    <3>1. CASE i \in 1..Len(delivered)
      <4>1. delivered'[i].id <= d /\ delivered'[i].id \in Nat
        <5>1. delivered[i].id <= d /\ delivered[i] \in Message
          BY <1>2, <1>5, <1>11, <3>1, ElementType DEF Track
        <5> QED
          BY <1>11, <3>1, <5>1 DEF Message
      <4> QED
        BY <1>3, <4>1
    <3>2. CASE i = Len(delivered) + 1
      BY <1>10, <1>11, <3>2
    <3> QED
      BY <1>5, <1>11, <3>1, <3>2
  <2>2. ASSUME NEW k \in 1..m, sent[k].conn = conn
        PROVE  \E j \in DOMAIN delivered' : delivered'[j].id = k
    <3>1. CASE k = m
      BY <1>5, <1>10, <1>11, <3>1
    <3>2. CASE k # m
      <4>1. k \in 1..d
        BY <1>3, <3>2
      <4>2. PICK j \in DOMAIN delivered : delivered[j].id = k
        BY <1>2, <2>2, <4>1 DEF Track
      <4> QED
        BY <1>5, <1>11, <4>2
    <3> QED
      BY <3>1, <3>2
  <2>3. \A k \in (m + 1)..Len(sent) : sent[k].conn = conn
    <3>1. \A k \in (m + 1)..Len(sent) : k \in (d + 1)..Len(sent)
      BY <1>3, <1>5
    <3> QED
      BY <1>2, <3>1 DEF Track
  <2>4. InOrder(sent', Pending')
    BY <1>1, <1>6, <1>7
  <2> QED
    BY <1>1, <1>12, <2>1, <2>2, <2>3, <2>4 DEF Track
<1>14. DeliveredAsSent'
  <2>1. ASSUME NEW i \in 1..Len(delivered)
        PROVE  LET id == delivered'[i].id IN
               /\ id \in 1..Len(sent) /\ delivered'[i] = Meant(id)
               /\ \A j \in 1..(i - 1) : delivered'[j].id < id
               /\ \A k \in 1..(id - 1) :
                    sent[k].conn = sent[id].conn => \E j \in 1..(i - 1) : delivered'[j].id = k
    <3>1. /\ delivered'[i] = delivered[i] /\ i \in DOMAIN delivered
          /\ \A j \in 1..(i - 1) : delivered'[j] = delivered[j]
      BY <1>5, <1>11
    <3>2. LET id == delivered[i].id IN
          /\ id \in 1..Len(sent) /\ delivered[i] = Meant(id)
          /\ \A j \in 1..(i - 1) : delivered[j].id < id
          /\ \A k \in 1..(id - 1) :
               sent[k].conn = sent[id].conn => \E j \in 1..(i - 1) : delivered[j].id = k
      BY <3>1 DEF Tracked, DeliveredAsSent
    <3> QED
      BY <3>1, <3>2
  <2>2. /\ m \in 1..Len(sent) /\ new = Meant(m)
        /\ \A j \in 1..Len(delivered) : delivered'[j].id < m
        /\ \A k \in 1..(m - 1) :
             sent[k].conn = sent[m].conn => \E j \in 1..Len(delivered) : delivered'[j].id = k
    <3>1. ASSUME NEW j \in 1..Len(delivered)
          PROVE  delivered'[j].id < m
      <4>1. delivered[j].id <= d /\ delivered[j] \in Message
        BY <1>2, <1>5, <1>11, ElementType DEF Track
      <4>2. delivered[j].id \in Nat
        BY <4>1 DEF Message
      <4> QED
        BY <1>3, <1>11, <4>1, <4>2
    <3>2. ASSUME NEW k \in 1..(m - 1), sent[k].conn = sent[m].conn
          PROVE  \E j \in 1..Len(delivered) : delivered'[j].id = k
      <4>1. k \in 1..d /\ m \in (d + 1)..Len(sent)
        BY <1>3, <1>5, <1>6
      <4>2. sent[m].conn = conn
        BY <1>2, <4>1 DEF Track
      <4>3. PICK j \in DOMAIN delivered : delivered[j].id = k
        BY <1>2, <3>2, <4>1, <4>2 DEF Track
      <4> QED
        BY <1>11, <4>3
    <3> QED
      BY <1>6, <1>10, <3>1, <3>2
  <2>3. ASSUME NEW i \in DOMAIN delivered'
        PROVE  LET id == delivered'[i].id IN
               /\ id \in 1..Len(sent) /\ delivered'[i] = Meant(id)
               /\ \A j \in 1..(i - 1) : delivered'[j].id < id
               /\ \A k \in 1..(id - 1) :
                    sent[k].conn = sent[id].conn => \E j \in 1..(i - 1) : delivered'[j].id = k
    <3>1. CASE i \in 1..Len(delivered)
      BY <2>1, <3>1
    <3>2. CASE i = Len(delivered) + 1
      <4>1. delivered'[i] = new /\ new.id = m /\ i - 1 = Len(delivered)
        BY <1>5, <1>10, <1>11, <3>2
      <4> QED
        BY <2>2, <4>1
    <3> QED
      BY <1>5, <1>11, <3>1, <3>2
  <2>4. sent' = sent
    BY <1>1
  <2> QED
    BY <2>3, <2>4 DEF DeliveredAsSent, Meant
<1> QED
  <2>1. m \in 0..Len(sent)
    BY <1>5, <1>6
  <2>2. \A k \in 1..Len(sent) : sent[k].conn <= conn
    BY DEF Tracked
  <2> QED
    BY <1>1, <1>13, <1>14, <2>1, <2>2 DEF Tracked

(* Every step keeps Tracked.                                                  *)
LEMMA TrackedStep ==
  ASSUME RecvPathAssumption, Shipped, IInv, Tracked, [Next]_vars
  PROVE  Tracked'
<1>1. CASE UNCHANGED vars
  <2>1. Pending' = Pending
    BY <1>1 DEF vars, peerVars, Pending, Parsed
  <2>2. CASE pc = "closed"
    BY <1>1, <2>2, DeliveredStays DEF vars, peerVars, Tracked
  <2>3. CASE pc # "closed"
    BY <1>1, <2>1, <2>3, SamePending DEF vars, peerVars
  <2> QED
    BY <2>2, <2>3
<1>2. CASE Parse
  <2>1. {TRUE, ~AllocFails} \subseteq BOOLEAN
    OBVIOUS
  <2> QED
    BY <1>2, <2>1, ParseHeaderTracked, ParseCompleteTracked, ParsePartialTracked, MovesBytes,
       SamePending DEF Parse
<1> QED
  BY <1>1, <1>2, PeerSendTracked, MovesBytes, SamePending, ReconnectTracked DEF Next

(* With a receive buffer of one header, and if every connection ends between *)
(* two messages, parse_msg hands out the messages of a connection whole, in *)
(* order and once, however the stream is cut into reads                     *)
(* (src/wlib/wnet_session.cpp).                                             *)
THEOREM DeliversAsSent ==
  ASSUME RecvPathAssumption, Shipped
  PROVE  Spec => []DeliveredAsSent
<1>1. Init => IInv /\ Tracked
  BY InitHolds, TrackedInit
<1>2. IInv /\ Tracked /\ [Next]_vars => (IInv /\ Tracked)'
  BY NextStep, TrackedStep
<1>3. Tracked => DeliveredAsSent
  BY DEF Tracked
<1> QED
  BY <1>1, <1>2, <1>3, PTL DEF Spec

-----------------------------------------------------------------------------
(* A sender that leaves messages out.                                         *)

(* Message m has its first byte in a.                                         *)
Begun(a, m) == \E i \in 1..Len(a) : a[i] = <<m, 1>>

(* The message of byte i of a.                                                *)
MessageAt(a, i) == IF i = 0 THEN 0 ELSE a[i][1]

(* After byte i of a, m is the next message that has bytes in a.              *)
NextIs(a, i, m) ==
  MessageAt(a, i) < m /\ \A k \in (MessageAt(a, i) + 1)..(m - 1) : ~Begun(a, k)

(* Byte i of a ends a message.                                                *)
Ends(q, a, i) == i = 0 \/ a[i][2] = Total(q, a[i][1])

(* Byte i of a is followed by the next one of its message, by the first one   *)
(* of a later message, or, as the last one of its message, by none.           *)
GoesOn(q, a, i) ==
  /\ ~Ends(q, a, i) => i < Len(a) /\ a[i + 1] = <<a[i][1], a[i][2] + 1>>
  /\ Ends(q, a, i) /\ i < Len(a) => a[i + 1][2] = 1 /\ NextIs(a, i, a[i + 1][1])
  /\ Ends(q, a, i) /\ i = Len(a) => NextIs(a, i, Len(q) + 1)

(* a: whole frames of some of the messages in q, in order.                    *)
Frames(q, a) ==
  /\ \A i \in 1..Len(a) : a[i][1] \in 1..Len(q) /\ a[i][2] \in 1..Total(q, a[i][1])
  /\ \A i \in 0..Len(a) : GoesOn(q, a, i)

(* f[m]: what is to arrive of the messages up to m, of which a has the frames. *)
Arrivals(f, q, a) ==
  f = [m \in 0..Len(q) |->
         IF m = 0 THEN <<>>
         ELSE IF Begun(a, m)
              THEN Append(f[m - 1], [conn |-> q[m].conn, id |-> m, body |-> Payload(m, q[m].size)])
         ELSE f[m - 1]]

(* Of the first l bytes of a, the first n are parsed.                         *)
Heard(a, l, f, n) ==
  /\ l = n + Len(Pending) /\ \A i \in 1..Len(Pending) : Pending[i] = a[n + i]
  /\ IF msg = Nil THEN Ends(sent, a, n) /\ delivered = f[MessageAt(a, n)]
     ELSE /\ n # 0 /\ Begun(a, a[n][1])
          /\ msg.conn = conn /\ msg.id = a[n][1] /\ a[n][2] = HeaderSize + Len(msg.body)
          /\ Len(msg.body) + expect = sent[a[n][1]].size
          /\ \A k \in 1..Len(msg.body) : msg.body[k] = <<a[n][1], HeaderSize + k>>
          /\ delivered = f[a[n][1] - 1]

(* The first l bytes of a were received or are on their way, and what was     *)
(* delivered is what their messages are; all are of this connection.          *)
Hearing(a, l, f) ==
  /\ \A k \in 1..Len(sent) : sent[k].conn = conn
  /\ IF pc = "closed" THEN \E m \in 0..Len(sent) : delivered = f[m]
     ELSE \E n \in 0..l : Heard(a, l, f, n)

(* A set of numbers that has 0 and the next of each of its numbers has all.   *)
LEMMA Induct ==
  ASSUME NEW T \in SUBSET Nat, 0 \in T, \A n \in T : n + 1 \in T
  PROVE  \A n \in Nat : n \in T
<1> DEFINE D == Nat \ T
           R == OpToRel(<, Nat)
<1>1. SUFFICES ASSUME D # {} PROVE FALSE
  OBVIOUS
<1>2. IsWellFoundedOn(R, Nat)
  BY NatLessThanWellFounded
<1>3. \A x, y \in Nat : y < x => <<y, x>> \in R
  BY DEF OpToRel
<1> HIDE DEF R
<1>4. PICK x \in D : \A y \in D : ~(<<y, x>> \in R)
  <2>1. \E x \in D : \A y \in D : ~(<<y, x>> \in R)
    BY <1>1, <1>2, WFMin
  <2> QED
    BY <2>1
<1>5. x # 0 /\ x - 1 \in Nat /\ x - 1 < x
  OBVIOUS
<1>6. x - 1 \in T
  BY <1>3, <1>4, <1>5
<1> QED
  BY <1>5, <1>6

(* A byte of the frames is that of a message.                                 *)
LEMMA FramesType ==
  ASSUME RecvPathAssumption, NEW q \in Msgs, NEW a \in Bytes, Frames(q, a), NEW i \in 1..Len(a)
  PROVE  /\ a[i][1] \in 1..Len(q) /\ a[i][2] \in 1..Total(q, a[i][1])
         /\ a[i] = <<a[i][1], a[i][2]>>
         /\ Total(q, a[i][1]) \in Nat /\ Total(q, a[i][1]) >= HeaderSize
         /\ Total(q, a[i][1]) = HeaderSize + q[a[i][1]].size /\ q[a[i][1]].size \in Nat
<1>1. a[i][1] \in 1..Len(q) /\ a[i][2] \in 1..Total(q, a[i][1])
  BY DEF Frames
<1>2. a[i] \in (0..MaxMsgs) \X Nat
  BY ByteType
<1> QED
  BY <1>1, <1>2, TotalType DEF Total

(* From byte i of a on, there are bytes k to k + e of message m.              *)
Runs(a, i, m, k, e) == \A j \in 0..e : i + j \in 1..Len(a) /\ a[i + j] = <<m, k + j>>

(* The bytes of a message follow each other.                                  *)
LEMMA FrameRuns ==
  ASSUME RecvPathAssumption, NEW q \in Msgs, NEW a \in Bytes, Frames(q, a), NEW i \in 1..Len(a),
         NEW m, NEW k, a[i] = <<m, k>>, NEW e \in Nat, k + e <= Total(q, m)
  PROVE  Runs(a, i, m, k, e)
<1> DEFINE T == {j \in Nat : j \in 0..e => i + j \in 1..Len(a) /\ a[i + j] = <<m, k + j>>}
<1>0. Len(a) \in Nat /\ a[i][1] = m /\ a[i][2] = k
  BY LenType DEF Bytes
<1>1. m \in 1..Len(q) /\ Total(q, m) \in Nat /\ k \in 1..Total(q, m) /\ k \in Nat
  <2>1. /\ a[i][1] \in 1..Len(q) /\ a[i][2] \in 1..Total(q, a[i][1])
        /\ Total(q, a[i][1]) \in Nat
    BY FramesType
  <2> QED
    BY <1>0, <2>1
<1>2. 0 \in T
  BY <1>0, <1>1
<1>3. ASSUME NEW j \in T
      PROVE  j + 1 \in T
  <2> SUFFICES ASSUME j + 1 \in 0..e
               PROVE  i + (j + 1) \in 1..Len(a) /\ a[i + (j + 1)] = <<m, k + (j + 1)>>
    OBVIOUS
  <2>1. j \in Nat /\ i + j \in 1..Len(a) /\ a[i + j] = <<m, k + j>>
    OBVIOUS
  <2> HIDE DEF T
  <2>2. i + j # 0 /\ k + j < Total(q, m) /\ k + j # Total(q, m)
    BY <1>0, <1>1, <2>1
  <2>3. ~Ends(q, a, i + j)
    <3>1. a[i + j][1] = m /\ a[i + j][2] = k + j
      BY <2>1
    <3> QED
      BY <2>2, <3>1 DEF Ends
  <2>4. i + j < Len(a) /\ a[(i + j) + 1] = <<m, (k + j) + 1>>
    <3>1. i + j \in 0..Len(a)
      BY <1>0, <2>1
    <3>2. i + j < Len(a) /\ a[(i + j) + 1] = <<a[i + j][1], a[i + j][2] + 1>>
      BY <2>3, <3>1 DEF Frames, GoesOn
    <3> QED
      BY <2>1, <3>2
  <2>5. (i + j) + 1 = i + (j + 1) /\ (k + j) + 1 = k + (j + 1)
    BY <1>0, <1>1, <2>1
  <2> QED
    BY <1>0, <2>1, <2>4, <2>5
<1> HIDE DEF T
<1>4. \A j \in Nat : j \in T
  BY <1>2, <1>3, Induct DEF T
<1>5. ASSUME NEW j \in 0..e
      PROVE  i + j \in 1..Len(a) /\ a[i + j] = <<m, k + j>>
  <2>1. j \in T
    BY <1>4
  <2> QED
    BY <2>1 DEF T
<1> QED
  BY <1>5 DEF Runs

(* After the end of a message comes all of the next one that has bytes.       *)
LEMMA FrameNext ==
  ASSUME RecvPathAssumption, NEW q \in Msgs, NEW a \in Bytes, Frames(q, a),
         NEW n \in 0..Len(a), Ends(q, a, n), n # Len(a)
  PROVE  \E m \in 1..Len(q) :
           /\ NextIs(a, n, m)
           /\ \A j \in 1..Total(q, m) : n + j \in 1..Len(a) /\ a[n + j] = <<m, j>>
<1> DEFINE m == a[n + 1][1]
<1>1. Len(a) \in Nat /\ n + 1 \in 1..Len(a) /\ n < Len(a)
  BY LenType DEF Bytes
<1>2. a[n + 1][2] = 1 /\ NextIs(a, n, m)
  BY <1>1 DEF Frames, GoesOn
<1>3. /\ m \in 1..Len(q) /\ a[n + 1] = <<m, 1>>
      /\ Total(q, m) \in Nat /\ Total(q, m) >= 6
  BY <1>1, <1>2, FramesType DEF HeaderSize
<1> HIDE DEF m
<1>4. \A j \in 0..(Total(q, m) - 1) : (n + 1) + j \in 1..Len(a) /\ a[(n + 1) + j] = <<m, 1 + j>>
  <2> DEFINE e == Total(q, m) - 1
             i == n + 1
  <2>1. e \in Nat /\ 1 + e <= Total(q, m)
    BY <1>3
  <2>2. PICK k \in Nat : k = 1
    OBVIOUS
  <2>a. /\ RecvPathAssumption /\ q \in Msgs /\ a \in Bytes /\ Frames(q, a)
        /\ i \in 1..Len(a) /\ a[i] = <<m, k>> /\ e \in Nat /\ k + e <= Total(q, m)
    BY <1>1, <1>3, <2>1, <2>2
  <2> HIDE DEF e, i
  <2>b. Runs(a, i, m, k, e)
    BY ONLY <2>a, FrameRuns
  <2>3. \A j \in 0..e : i + j \in 1..Len(a) /\ a[i + j] = <<m, 1 + j>>
    BY <2>2, <2>b DEF Runs
  <2> QED
    BY <2>3 DEF e, i
<1>5. ASSUME NEW j \in 1..Total(q, m)
      PROVE  n + j \in 1..Len(a) /\ a[n + j] = <<m, j>>
  <2>1. j - 1 \in 0..(Total(q, m) - 1) /\ (n + 1) + (j - 1) = n + j /\ 1 + (j - 1) = j
    BY <1>3
  <2> QED
    BY <1>4, <2>1
<1> QED
  BY <1>2, <1>3, <1>5

(* Nothing arrives of messages that have no bytes.                            *)
LEMMA ArrivalsSkip ==
  ASSUME NEW q \in Msgs, NEW a, NEW f, Arrivals(f, q, a),
         NEW i \in 0..Len(q), NEW m \in 1..(Len(q) + 1), i < m,
         \A k \in (i + 1)..(m - 1) : ~Begun(a, k)
  PROVE  f[m - 1] = f[i]
<1> DEFINE T == {j \in Nat : j \in i..(m - 1) => f[j] = f[i]}
<1>1. Len(q) \in Nat
  BY LenType DEF Msgs
<1>2. 0 \in T
  BY <1>1
<1>3. ASSUME NEW j \in T
      PROVE  j + 1 \in T
  <2> SUFFICES ASSUME j + 1 \in i..(m - 1), j + 1 # i
               PROVE  f[j + 1] = f[i]
    OBVIOUS
  <2>1. j \in Nat /\ f[j] = f[i]
    BY <1>1
  <2> HIDE DEF T
  <2>2. j + 1 \in 0..Len(q) /\ j + 1 # 0 /\ (j + 1) - 1 = j /\ j + 1 \in (i + 1)..(m - 1)
    BY <1>1, <2>1
  <2>3. ~Begun(a, j + 1)
    BY <2>2
  <2>4. f[j + 1] = f[(j + 1) - 1]
    BY <2>2, <2>3 DEF Arrivals
  <2> QED
    BY <2>1, <2>2, <2>4
<1> HIDE DEF T
<1>4. \A j \in Nat : j \in T
  BY <1>2, <1>3, Induct DEF T
<1>5. m - 1 \in T /\ m - 1 \in i..(m - 1)
  BY <1>1, <1>4
<1> QED
  BY <1>5 DEF T

(* A message that has bytes arrives after those before it.                    *)
LEMMA ArrivalsNext ==
  ASSUME NEW q \in Msgs, NEW a, NEW f, Arrivals(f, q, a), NEW m \in 1..Len(q), Begun(a, m)
  PROVE  f[m] = Append(f[m - 1],
                  [conn |-> q[m].conn, id |-> m, body |-> Payload(m, q[m].size)])
<1>1. m \in 0..Len(q) /\ m # 0
  BY LenType DEF Msgs
<1> QED
  BY <1>1 DEF Arrivals

(* d: messages, and e those and more.                                         *)
Begins(d, e) ==
  /\ d \in Seq([conn : Nat, id : Nat, body : Seq(Nat \X Nat)])
  /\ e \in Seq([conn : Nat, id : Nat, body : Seq(Nat \X Nat)])
  /\ Len(d) <= Len(e) /\ \A i \in 1..Len(d) : e[i] = d[i]

(* What arrives of fewer messages is the beginning of what arrives of more.   *)
LEMMA ArrivalsGrow ==
  ASSUME RecvPathAssumption, NEW q \in Msgs, Len(q) <= MaxMsgs,
         NEW a, NEW f, Arrivals(f, q, a), NEW m \in 0..Len(q)
  PROVE  Begins(f[m], f[Len(q)])
<1> DEFINE S == [conn : Nat, id : Nat, body : Seq(Nat \X Nat)]
           Of(j) == [conn |-> q[j].conn, id |-> j, body |-> Payload(j, q[j].size)]
           T == {j \in Nat : j \in 0..Len(q) => f[j] \in Seq(S)}
           U == {j \in Nat : j \in m..Len(q) =>
                   Len(f[m]) <= Len(f[j]) /\ \A i \in 1..Len(f[m]) : f[j][i] = f[m][i]}
<1>1. Len(q) \in Nat
  BY LenType DEF Msgs
<1>2. ASSUME NEW j \in 1..Len(q)
      PROVE  Of(j) \in S /\ f[j] \in {Append(f[j - 1], Of(j)), f[j - 1]}
  <2>1. q[j] \in [conn : 1..MaxConns, size : Sizes]
    BY ElementType DEF Msgs
  <2>2. j \in Nat /\ q[j].conn \in Nat /\ q[j].size \in Nat
    <3>1. q[j].conn \in 1..MaxConns /\ q[j].size \in Sizes
      BY <2>1
    <3>2. MaxConns \in Nat /\ Sizes \subseteq Nat
      BY DEF RecvPathAssumption
    <3>3. j \in Nat
      BY <1>1
    <3>4. q[j].conn \in Nat
      BY ONLY <3>1, <3>2
    <3>5. q[j].size \in Nat
      BY ONLY <3>1, <3>2
    <3> QED
      BY <3>3, <3>4, <3>5
  <2>3. Payload(j, q[j].size) \in Seq(Nat \X Nat)
    <3>1. \A k \in Nat : <<j, 6 + k>> \in Nat \X Nat
      BY <2>2
    <3>2. PICK n \in Nat : n = q[j].size
      BY <2>2
    <3>3. [k \in 1..n |-> <<j, 6 + k>>] \in Seq(Nat \X Nat)
      BY <3>1
    <3> QED
      BY <3>2, <3>3 DEF Payload, HeaderSize
  <2>4. j \in 0..Len(q) /\ j # 0
    BY <1>1
  <2>5. f[j] = IF Begun(a, j) THEN Append(f[j - 1], Of(j)) ELSE f[j - 1]
    BY <2>4 DEF Arrivals
  <2> QED
    BY <2>2, <2>3, <2>5
<1>3. f[0] = <<>>
  BY <1>1 DEF Arrivals
<1> HIDE DEF S, Of
<1>4. \A j \in Nat : j \in T
  <2>1. 0 \in T
    <3>1. f[0] \in Seq(S)
      BY <1>3
    <3> QED
      BY <3>1
  <2>2. ASSUME NEW j \in T
        PROVE  j + 1 \in T
    <3> SUFFICES ASSUME j + 1 \in 0..Len(q)
                 PROVE  f[j + 1] \in Seq(S)
      OBVIOUS
    <3>1. j + 1 \in 1..Len(q) /\ (j + 1) - 1 = j /\ f[j] \in Seq(S)
      BY <1>1
    <3> HIDE DEF T
    <3>2. /\ Of(j + 1) \in S
          /\ f[j + 1] = Append(f[j], Of(j + 1)) \/ f[j + 1] = f[j]
      BY <1>2, <3>1
    <3>3. \A x \in S : Append(f[j], x) \in Seq(S)
      BY <3>1
    <3> QED
      BY <3>1, <3>2, <3>3
  <2> HIDE DEF T
  <2> QED
    BY <2>1, <2>2, Induct DEF T
<1>5. ASSUME NEW j \in 0..Len(q)
      PROVE  f[j] \in Seq(S)
  BY <1>1, <1>4
<1> HIDE DEF T
<1>6. \A j \in Nat : j \in U
  <2>1. 0 \in U
    <3>1. f[m] \in Seq(S)
      BY <1>5
    <3>2. Len(f[m]) <= Len(f[m])
      BY <3>1
    <3>3. 0 \in m..Len(q) => m = 0
      OBVIOUS
    <3> QED
      BY <3>2, <3>3
  <2>2. ASSUME NEW j \in U
        PROVE  j + 1 \in U
    <3> SUFFICES ASSUME j + 1 \in m..Len(q)
                 PROVE  /\ Len(f[m]) <= Len(f[j + 1])
                        /\ \A i \in 1..Len(f[m]) : f[j + 1][i] = f[m][i]
      OBVIOUS
    <3>1. f[m] \in Seq(S) /\ j \in Nat
      BY <1>5
    <3>2. CASE j + 1 = m
      BY <3>1, <3>2
    <3>3. CASE j + 1 # m
      <4>1. j + 1 \in 1..Len(q) /\ (j + 1) - 1 = j /\ j \in 0..Len(q) /\ j \in m..Len(q)
        BY <1>1, <3>1, <3>3
      <4>2. Len(f[m]) <= Len(f[j]) /\ \A i \in 1..Len(f[m]) : f[j][i] = f[m][i]
        BY <4>1
      <4> HIDE DEF U
      <4>3. /\ Of(j + 1) \in S /\ f[j] \in Seq(S)
            /\ f[j + 1] = Append(f[j], Of(j + 1)) \/ f[j + 1] = f[j]
        BY <1>2, <1>5, <4>1
      <4>4. \A x \in S : /\ Len(f[j]) <= Len(Append(f[j], x))
                          /\ \A i \in 1..Len(f[j]) : Append(f[j], x)[i] = f[j][i]
        BY <4>3
      <4>5. Len(f[j]) <= Len(f[j + 1]) /\ \A i \in 1..Len(f[j]) : f[j + 1][i] = f[j][i]
        BY <4>3, <4>4
      <4>6. f[j + 1] \in Seq(S) /\ Len(f[m]) \in Nat /\ Len(f[j]) \in Nat
        <5>1. j + 1 \in 0..Len(q)
          BY <1>1, <4>1
        <5> QED
          BY <1>5, <3>1, <4>3, <5>1, LenType
      <4>7. \A i \in 1..Len(f[m]) : i \in 1..Len(f[j])
        BY <4>2, <4>6
      <4>8. Len(f[j + 1]) \in Nat
        BY <4>6
      <4> QED
        BY <4>2, <4>5, <4>6, <4>7, <4>8
    <3> QED
      BY <3>2, <3>3
  <2> HIDE DEF U
  <2> QED
    BY <2>1, <2>2, Induct DEF U
<1>7. Len(q) \in U /\ Len(q) \in m..Len(q) /\ Len(q) \in 0..Len(q)
  BY <1>1, <1>6
<1>8. Len(f[m]) <= Len(f[Len(q)]) /\ \A i \in 1..Len(f[m]) : f[Len(q)][i] = f[m][i]
  BY <1>7 DEF U
<1> QED
  BY <1>5, <1>7, <1>8 DEF S, Begins

(* A step that only moves bytes keeps what was heard.                         *)
LEMMA HeardSame ==
  ASSUME RecvPathAssumption, IInv, NEW a, NEW l, NEW f, Hearing(a, l, f), Read \/ ParseEnd
  PROVE  Hearing(a, l, f)'
<1>1. /\ Pending' = Pending /\ pc # "closed" /\ pc' # "closed"
      /\ UNCHANGED <<conn, sent, expect, msg, delivered>>
  BY MovesBytes
<1>2. PICK n \in 0..l : Heard(a, l, f, n)
  BY <1>1 DEF Hearing
<1>3. Heard(a, l, f, n)'
  BY <1>1, <1>2 DEF Heard
<1> QED
  BY <1>1, <1>3 DEF Hearing

(* A step of the sender alone keeps it, too.                                  *)
LEMMA HeardStays ==
  ASSUME NEW a, NEW l, NEW f, Hearing(a, l, f),
         UNCHANGED <<conn, sent, stream, buf, parse, expect, msg, delivered, pc>>
  PROVE  Hearing(a, l, f)'
<1>1. Pending' = Pending
  BY DEF Pending, Rest, Parsed
<1>2. ASSUME NEW n, Heard(a, l, f, n)
      PROVE  Heard(a, l, f, n)'
  BY <1>1, <1>2 DEF Heard
<1> QED
  BY <1>2 DEF Hearing

(* A header is parsed: it is that of the next message that has bytes.         *)
LEMMA HeardHeader ==
  ASSUME RecvPathAssumption, RecvBuf = HeaderSize, IInv, NEW a \in Bytes, Frames(sent, a),
         NEW f, Arrivals(f, sent, a), NEW l \in 0..Len(a), Hearing(a, l, f),
         NEW h \in Headers, NEW alloc \in BOOLEAN, ParseHeader(h, alloc)
  PROVE  Hearing(a, l, f)'
<1>1. /\ pc = "parse" /\ msg = Nil /\ Available >= HeaderSize /\ expect' = h.size
      /\ UNCHANGED <<conn, sent, stream, buf, delivered>>
      /\ \A k \in 1..Len(sent) : sent[k].conn = conn
  BY DEF ParseHeader, peerVars, Hearing
<1>2. PICK n \in 0..l : Heard(a, l, f, n)
  BY <1>1 DEF Hearing
<1>3. /\ l = n + Len(Pending) /\ \A i \in 1..Len(Pending) : Pending[i] = a[n + i]
      /\ Ends(sent, a, n) /\ delivered = f[MessageAt(a, n)]
  BY <1>1, <1>2 DEF Heard
<1>4. /\ buf \in Bytes /\ stream \in Bytes /\ sent \in Msgs /\ Pending \in Bytes
      /\ Len(Pending) = Len(buf) - Parsed + Len(stream)
      /\ \A i \in 1..(Len(buf) - Parsed) : Pending[i] = buf[Parsed + i]
      /\ Len(stream) \in Nat /\ Len(sent) \in Nat /\ Len(a) \in Nat /\ n \in Nat /\ n \in 0..Len(a)
  <2>1. /\ buf \in Bytes /\ stream \in Bytes /\ sent \in Msgs /\ Pending \in Bytes
        /\ Len(Pending) = Len(buf) - Parsed + Len(stream)
        /\ \A i \in 1..(Len(buf) - Parsed) : Pending[i] = buf[Parsed + i]
    BY ONLY IInv, PendingType
  <2>2. Len(stream) \in Nat /\ Len(sent) \in Nat /\ Len(a) \in Nat
    BY <2>1, LenType DEF Bytes, Msgs
  <2>3. n \in Nat /\ n \in 0..Len(a)
    BY <2>2
  <2> QED
    BY ONLY <2>1, <2>2, <2>3
<1>5. parse = 0 /\ Parsed = 0 /\ Len(buf) = 6
  BY <1>1, HeaderAlone
<1>6. MessageAt(a, n) \in 0..Len(sent)
  <2>1. n # 0 => n \in 1..Len(a)
    BY <1>4
  <2> QED
    BY <1>4, <2>1, FramesType DEF MessageAt
<1>7. CASE pc' = "closed"
  BY <1>1, <1>3, <1>6, <1>7 DEF Hearing
<1>8. CASE /\ msg' = [conn |-> conn, id |-> h.id, body |-> <<>>]
           /\ parse' = parse + HeaderSize /\ UNCHANGED pc
  <2>1. n # Len(a) /\ Len(Pending) = 6 + Len(stream) /\ n + 6 \in 0..l
    BY <1>3, <1>4, <1>5
  <2>2. PICK m \in 1..Len(sent) :
          /\ NextIs(a, n, m)
          /\ \A j \in 1..Total(sent, m) : n + j \in 1..Len(a) /\ a[n + j] = <<m, j>>
    BY <1>3, <1>4, <2>1, FrameNext
  <2>3. \A j \in 1..6 : j \in 1..Total(sent, m) /\ j \in 1..Len(Pending) /\ buf[j] = Pending[j]
    <3>1. Total(sent, m) \in Nat /\ Total(sent, m) >= 6
      BY <1>4, TotalType DEF HeaderSize
    <3> QED
      BY <1>4, <1>5, <2>1, <3>1
  <2>4. \A j \in 1..6 : buf[j] = <<m, j>> /\ a[n + j] = <<m, j>>
    BY <1>3, <2>2, <2>3
  <2>5. h = [id |-> m, size |-> sent[m].size]
    <3>1. /\ IInv /\ Len(buf) = 6 /\ m \in 1..Len(sent) /\ h \in Headers
          /\ \A i \in 1..6 : buf[i] = <<m, i>>
      BY <1>5, <2>4
    <3> QED
      BY ONLY <3>1, HeaderIs, Zenon
  <2>6. Begun(a, m)
    <3>1. PICK j \in 1..6 : j = 1
      OBVIOUS
    <3>2. n + j \in 1..Len(a) /\ a[n + j] = <<m, j>>
      BY <2>2, <2>3
    <3> QED
      BY <3>1, <3>2 DEF Begun
  <2>7. /\ Len(Pending') = Len(Pending) - 6
        /\ \A i \in 1..Len(Pending') : Pending'[i] = Pending[6 + i]
    <3>1. 0 \in 0..Len(buf) /\ 6 \in 0..(Len(buf) - 0)
      BY <1>5
    <3>2. /\ Len(Rest(buf, 0 + 6, stream)) = Len(Rest(buf, 0, stream)) - 6
          /\ \A i \in 1..Len(Rest(buf, 0 + 6, stream)) :
               Rest(buf, 0 + 6, stream)[i] = Rest(buf, 0, stream)[6 + i]
      BY <1>4, <3>1, RestSkips
    <3>3. Pending' = Rest(buf, 0 + 6, stream) /\ Pending = Rest(buf, 0, stream)
      BY <1>1, <1>5, <1>8 DEF Pending, Parsed, HeaderSize
    <3> QED
      BY <3>2, <3>3
  <2>8. l = (n + 6) + Len(Pending') /\ \A i \in 1..Len(Pending') : Pending'[i] = a[(n + 6) + i]
    <3>1. Len(Pending') \in Nat /\ l = (n + 6) + Len(Pending')
      BY <1>3, <1>4, <2>1, <2>7
    <3>2. \A i \in 1..Len(Pending') : 6 + i \in 1..Len(Pending) /\ n + (6 + i) = (n + 6) + i
      BY <1>4, <2>1, <2>7, <3>1
    <3> QED
      BY <1>3, <2>7, <3>1, <3>2
  <2>9. msg' # Nil
    <3>1. conn \in Nat /\ m \in Nat
      BY <1>4 DEF IInv, TypeOK
    <3>2. [conn |-> conn, id |-> m, body |-> <<>>] \in [conn : Nat, id : Nat, body : Seq(Nat \X Nat)]
      BY <3>1
    <3> QED
      BY <1>8, <2>5, <3>2 DEF RecvPathAssumption
  <2>10. delivered = f[m - 1]
    <3>1. MessageAt(a, n) < m /\ \A k \in (MessageAt(a, n) + 1)..(m - 1) : ~Begun(a, k)
      BY <2>2 DEF NextIs
    <3>2. m \in 1..(Len(sent) + 1)
      BY <1>4
    <3>3. f[m - 1] = f[MessageAt(a, n)]
      <4> DEFINE i == MessageAt(a, n)
      <4>1. i \in 0..Len(sent) /\ i < m /\ \A k \in (i + 1)..(m - 1) : ~Begun(a, k)
        BY <1>6, <3>1
      <4> HIDE DEF i
      <4>2. f[m - 1] = f[i]
        BY <1>4, <3>2, <4>1, ArrivalsSkip
      <4> QED
        BY <4>2 DEF i
    <3> QED
      BY <1>3, <3>3
  <2>11. /\ msg'.conn = conn /\ msg'.id = m /\ msg'.body = <<>> /\ Len(msg'.body) = 0
         /\ expect' = sent[m].size /\ sent[m].size \in Nat
    <3>1. sent[m].size \in Nat
      BY <1>4, TotalType
    <3>2. h.id = m /\ h.size = sent[m].size
      BY <2>5
    <3>3. msg'.conn = conn /\ msg'.id = h.id /\ msg'.body = <<>>
      BY <1>8
    <3>4. expect' = h.size /\ Len(msg'.body) = 0
      BY <1>1, <3>3
    <3> QED
      BY <3>1, <3>2, <3>3, <3>4
  <2>12. n + 6 # 0 /\ a[n + 6][1] = m /\ a[n + 6][2] = 6
    <3>1. 6 \in 1..6
      OBVIOUS
    <3>2. a[n + 6] = <<m, 6>>
      BY <2>4, <3>1
    <3> QED
      BY <1>4, <3>2
  <2>13. Heard(a, l, f, n + 6)'
    <3> DEFINE i == n + 6
    <3>1. /\ l = i + Len(Pending') /\ \A j \in 1..Len(Pending') : Pending'[j] = a[i + j]
          /\ i # 0 /\ a[i][1] = m /\ a[i][2] = 6
      BY <2>8, <2>12
    <3> HIDE DEF i
    <3>2. Heard(a, l, f, i)'
      BY <1>1, <2>6, <2>9, <2>10, <2>11, <3>1 DEF Heard, HeaderSize
    <3> QED
      BY <3>2 DEF i
  <2> QED
    BY <1>1, <1>8, <2>1, <2>13 DEF Hearing
<1> QED
  BY <1>7, <1>8 DEF ParseHeader

(* The next e bytes of message m, after byte n of a, are part; rest is left.  *)
BodyIs(a, l, n, e, m, part, rest) ==
  /\ m \in 1..Len(sent) /\ sent[m].size \in Nat /\ Total(sent, m) = HeaderSize + sent[m].size
  /\ msg.body \in Bytes /\ part \in Bytes /\ Len(part) = e
  /\ Len(msg.body \o part) = Len(msg.body) + e /\ Len(msg.body) \in Nat
  /\ \A k \in 1..(Len(msg.body) + e) : (msg.body \o part)[k] = <<m, HeaderSize + k>>
  /\ n + e \in 0..l /\ n + e # 0 /\ a[n + e] = <<m, HeaderSize + (Len(msg.body) + e)>>
  /\ l = (n + e) + Len(rest) /\ \A i \in 1..Len(rest) : rest[i] = a[(n + e) + i]

(* The next e bytes of a message, in the buffer and in the frames.            *)
LEMMA HeardBody ==
  ASSUME RecvPathAssumption, IInv, NEW a \in Bytes, Frames(sent, a),
         NEW f, NEW l \in 0..Len(a), NEW n \in 0..l, Heard(a, l, f, n),
         pc = "parse", msg # Nil, NEW e \in Nat, e <= expect, e <= Available,
         NEW m, m = a[n][1], NEW part, part = SubSeq(buf, parse + 1, parse + e),
         NEW rest, rest = Rest(buf, parse + e, stream)
  PROVE  BodyIs(a, l, n, e, m, part, rest)
<1> DEFINE b == msg.body
           k0 == HeaderSize + Len(b)
<1>1. /\ l = n + Len(Pending) /\ \A i \in 1..Len(Pending) : Pending[i] = a[n + i]
      /\ n # 0 /\ a[n][2] = k0
      /\ Len(b) + expect = sent[m].size
      /\ \A k \in 1..Len(b) : b[k] = <<m, HeaderSize + k>>
  BY DEF Heard
<1>2. /\ buf \in Bytes /\ stream \in Bytes /\ sent \in Msgs /\ Pending \in Bytes
      /\ Parsed = parse /\ parse \in 0..Len(buf)
      /\ \A i \in 1..(Len(buf) - parse) : Pending[i] = buf[parse + i]
      /\ Len(Pending) = Len(buf) - parse + Len(stream)
      /\ Pending = Rest(buf, parse, stream)
      /\ Len(buf) \in Nat /\ Len(sent) \in Nat /\ Len(stream) \in Nat /\ Len(a) \in Nat
      /\ n \in Nat /\ n \in 1..Len(a)
  <2>1. buf \in Bytes /\ stream \in Bytes /\ sent \in Msgs /\ Pending \in Bytes
        /\ Len(buf) \in Nat /\ Len(sent) \in Nat /\ Len(stream) \in Nat /\ Len(a) \in Nat
    BY PendingType, LenType DEF Bytes, Msgs
  <2>2. Parsed = parse
    BY DEF Parsed
  <2>3. /\ Parsed \in 0..Len(buf) /\ Len(Pending) = Len(buf) - Parsed + Len(stream)
        /\ \A i \in 1..(Len(buf) - Parsed) : Pending[i] = buf[Parsed + i]
    BY PendingType
  <2>4. Pending = Rest(buf, parse, stream)
    BY <2>2 DEF Pending
  <2>5. n \in Nat /\ n \in 1..Len(a)
    BY <1>1, <2>1
  <2> QED
    BY ONLY <2>1, <2>2, <2>3, <2>4, <2>5
<1>3. msg \in Message /\ b \in Bytes /\ Len(b) \in Nat /\ expect \in Nat
  BY LenType DEF IInv, TypeOK, Message, Bytes
<1>4. /\ m \in 1..Len(sent) /\ a[n] = <<m, k0>>
      /\ sent[m].size \in Nat /\ Total(sent, m) = HeaderSize + sent[m].size
  BY <1>1, <1>2, FramesType
<1> HIDE DEF b
<1>5. k0 \in Nat /\ k0 + e <= Total(sent, m)
  BY <1>1, <1>3, <1>4 DEF HeaderSize
<1> HIDE DEF k0
<1>6. \A j \in 0..e : n + j \in 1..Len(a) /\ a[n + j] = <<m, k0 + j>>
  <2>1. PICK q, k : q = sent /\ k = k0
    OBVIOUS
  <2>2. /\ RecvPathAssumption /\ q \in Msgs /\ a \in Bytes /\ Frames(q, a)
        /\ n \in 1..Len(a) /\ a[n] = <<m, k>> /\ e \in Nat /\ k + e <= Total(q, m)
    BY <1>2, <1>4, <1>5, <2>1
  <2>3. Runs(a, n, m, k, e)
    BY ONLY <2>2, FrameRuns
  <2> QED
    BY <2>1, <2>3 DEF Runs
<1>7. e \in 0..(Len(buf) - parse) /\ parse + e \in 0..Len(buf) /\ parse + 1 \in Nat \ {0}
  <2>1. Len(buf) \in Nat /\ parse \in 0..Len(buf) /\ e \in Nat /\ e <= Len(buf) - parse
    BY <1>2 DEF Available
  <2> QED
    BY ONLY <2>1
<1>8. /\ e <= Len(Pending) /\ Len(rest) = Len(Pending) - e
      /\ \A i \in 1..Len(rest) : rest[i] = Pending[e + i]
  <2>1. PICK b2, t, p : b2 = buf /\ t = stream /\ p = parse
    OBVIOUS
  <2>2. b2 \in Bytes /\ t \in Bytes /\ p \in 0..Len(b2) /\ e \in 0..(Len(b2) - p)
    BY <1>2, <1>7, <2>1
  <2>3. /\ e <= Len(Rest(b2, p, t)) /\ Len(Rest(b2, p + e, t)) = Len(Rest(b2, p, t)) - e
        /\ \A i \in 1..Len(Rest(b2, p + e, t)) : Rest(b2, p + e, t)[i] = Rest(b2, p, t)[e + i]
    BY ONLY <2>2, RestSkips
  <2>4. Pending = Rest(b2, p, t) /\ rest = Rest(b2, p + e, t)
    BY <1>2, <2>1
  <2> QED
    BY ONLY <2>3, <2>4
<1>9. /\ part \in Bytes /\ Len(part) = e
      /\ \A j \in 1..e : part[j] = Pending[j]
  <2>1. /\ part \in Bytes /\ Len(part) = e
        /\ \A j \in 1..e : part[j] = buf[parse + j]
    <3>1. /\ buf \in Bytes /\ parse \in 0..Len(buf) /\ e \in 0..(Len(buf) - parse)
          /\ part = SubSeq(buf, parse + 1, parse + e)
      BY <1>2, <1>7
    <3> QED
      BY ONLY <3>1, PartOf DEF Bytes
  <2>2. \A j \in 1..e : j \in 1..(Len(buf) - parse)
    BY <1>2, <1>7
  <2> QED
    BY <1>2, <2>1, <2>2
<1>10. \A j \in 1..e : part[j] = <<m, k0 + j>>
  <2>1. \A j \in 1..e : j \in 1..Len(Pending) /\ j \in 0..e
    BY <1>2, <1>8
  <2> QED
    BY <1>1, <1>6, <1>9, <2>1
<1>11. /\ Len(b \o part) = Len(b) + e
       /\ \A k \in 1..Len(b) : (b \o part)[k] = b[k]
       /\ \A j \in 1..e : (b \o part)[Len(b) + j] = part[j]
  <2>1. b \in Bytes /\ part \in Bytes /\ Len(part) = e
    BY <1>3, <1>9
  <2>2. /\ Len(b \o part) = Len(b) + Len(part)
        /\ \A k \in 1..Len(b) : (b \o part)[k] = b[k]
        /\ \A j \in 1..Len(part) : (b \o part)[Len(b) + j] = part[j]
    <3> DEFINE S == (0..MaxMsgs) \X Nat
    <3>1. b \in Seq(S) /\ part \in Seq(S)
      BY <2>1 DEF Bytes
    <3> HIDE DEF S
    <3> QED
      BY ONLY <3>1, JoinOf
  <2> QED
    BY <2>1, <2>2
<1>12. ASSUME NEW k \in 1..(Len(b) + e)
       PROVE  (b \o part)[k] = <<m, HeaderSize + k>>
  <2>1. CASE k <= Len(b)
    <3>1. k \in 1..Len(b)
      BY <1>3, <2>1
    <3> QED
      BY <1>1, <1>11, <3>1
  <2>2. CASE ~(k <= Len(b))
    <3>1. k - Len(b) \in 1..e /\ Len(b) + (k - Len(b)) = k
      BY <1>3, <2>2, PlaceInSecond
    <3>2. (b \o part)[k] = <<m, k0 + (k - Len(b))>>
      BY <1>10, <1>11, <3>1
    <3>3. k0 + (k - Len(b)) = HeaderSize + k
      BY <1>3 DEF k0, HeaderSize
    <3> QED
      BY <3>2, <3>3
  <2> QED
    BY <2>1, <2>2
<1>13. n + e \in 0..l /\ n + e # 0 /\ a[n + e] = <<m, HeaderSize + (Len(b) + e)>>
  <2>1. k0 + e = HeaderSize + (Len(b) + e)
    BY <1>3 DEF k0, HeaderSize
  <2>2. a[n + e] = <<m, k0 + e>>
    BY <1>6
  <2>3. n + e \in 0..l /\ n + e # 0
    <3>1. n \in Nat /\ n # 0 /\ Len(Pending) \in Nat /\ l = n + Len(Pending)
      BY <1>1, <1>2
    <3>2. e \in Nat /\ e <= Len(Pending)
      BY <1>8
    <3> QED
      BY ONLY <3>1, <3>2
  <2> QED
    BY <2>1, <2>2, <2>3
<1>14. l = (n + e) + Len(rest) /\ \A i \in 1..Len(rest) : rest[i] = a[(n + e) + i]
  <2>1. Len(rest) \in Nat /\ l = (n + e) + Len(rest)
    <3>1. /\ n \in Nat /\ Len(Pending) \in Nat /\ l = n + Len(Pending)
          /\ e <= Len(Pending) /\ Len(rest) = Len(Pending) - e
      BY <1>1, <1>2, <1>8
    <3> QED
      BY <3>1
  <2>2. \A i \in 1..Len(rest) : e + i \in 1..Len(Pending) /\ n + (e + i) = (n + e) + i
    BY <1>2, <1>8, <2>1
  <2> QED
    BY <1>1, <1>8, <2>1, <2>2
<1> QED
  BY <1>3, <1>4, <1>9, <1>11, <1>12, <1>13, <1>14 DEF b, BodyIs

(* The message is complete: it is what arrives of it.                         *)
LEMMA HeardComplete ==
  ASSUME RecvPathAssumption, IInv, NEW a \in Bytes, Frames(sent, a),
         NEW f, Arrivals(f, sent, a), NEW l \in 0..Len(a), Hearing(a, l, f), ParseComplete
  PROVE  Hearing(a, l, f)'
<1>0. PICK part, rest, e : /\ part = SubSeq(buf, parse + 1, parse + e)
                           /\ rest = Rest(buf, parse + e, stream) /\ e = expect
  OBVIOUS
<1>1. /\ pc = "parse" /\ msg # Nil /\ Available >= e
      /\ delivered' = Append(delivered, [msg EXCEPT !.body = @ \o part])
      /\ parse' = parse + e /\ msg' = Nil
      /\ UNCHANGED <<conn, sent, stream, buf, pc>>
      /\ \A k \in 1..Len(sent) : sent[k].conn = conn
  BY <1>0 DEF ParseComplete, peerVars, Hearing
<1>2. PICK n \in 0..l : Heard(a, l, f, n)
  BY <1>1 DEF Hearing
<1>3. PICK m : m = a[n][1]
  OBVIOUS
<1>4. /\ msg.conn = conn /\ msg.id = m /\ Len(msg.body) + e = sent[m].size
      /\ delivered = f[m - 1] /\ Begun(a, m)
  BY <1>0, <1>1, <1>2, <1>3 DEF Heard
<1>5. msg \in Message /\ e \in Nat /\ e <= expect /\ e <= Available
  <2>1. msg \in Message /\ expect \in Nat
    BY <1>1 DEF IInv, TypeOK
  <2>2. buf \in Bytes /\ parse \in Nat
    BY DEF IInv, TypeOK
  <2>3. Available \in Int
    BY <2>2, LenType DEF Available, Bytes
  <2> QED
    BY <1>0, <1>1, <2>1, <2>3
<1>6. /\ m \in 1..Len(sent) /\ sent[m].size \in Nat /\ Total(sent, m) = HeaderSize + sent[m].size
      /\ msg.body \in Bytes /\ part \in Bytes /\ Len(part) = e
      /\ Len(msg.body \o part) = Len(msg.body) + e /\ Len(msg.body) \in Nat
      /\ \A k \in 1..(Len(msg.body) + e) : (msg.body \o part)[k] = <<m, HeaderSize + k>>
      /\ n + e \in 0..l /\ n + e # 0
      /\ a[n + e] = <<m, HeaderSize + (Len(msg.body) + e)>>
      /\ l = (n + e) + Len(rest) /\ \A i \in 1..Len(rest) : rest[i] = a[(n + e) + i]
  <2>1. /\ RecvPathAssumption /\ IInv /\ a \in Bytes /\ Frames(sent, a)
        /\ l \in 0..Len(a) /\ n \in 0..l /\ Heard(a, l, f, n)
        /\ pc = "parse" /\ msg # Nil /\ e \in Nat /\ e <= expect /\ e <= Available
        /\ m = a[n][1] /\ part = SubSeq(buf, parse + 1, parse + e)
        /\ rest = Rest(buf, parse + e, stream)
    BY <1>0, <1>1, <1>2, <1>3, <1>5
  <2> QED
    <3>1. BodyIs(a, l, n, e, m, part, rest)
      BY ONLY <2>1, HeardBody
    <3> QED
      BY <3>1 DEF BodyIs
<1>7. Pending' = rest
  BY <1>0, <1>1 DEF Pending, Parsed
<1>8. msg.body \o part = Payload(m, sent[m].size)
  <2>1. msg.body \o part \in Bytes /\ Len(msg.body \o part) = sent[m].size
    BY <1>4, <1>6, ConcatKeepsType DEF Bytes
  <2>2. m \in 0..MaxMsgs
    BY <1>4, <1>5 DEF Message
  <2>3. /\ Payload(m, sent[m].size) \in Bytes /\ Len(Payload(m, sent[m].size)) = sent[m].size
        /\ \A k \in 1..sent[m].size : Payload(m, sent[m].size)[k] = <<m, HeaderSize + k>>
    BY <1>6, <2>2, PayloadType
  <2>4. /\ msg.body \o part \in Seq((0..MaxMsgs) \X Nat)
        /\ Payload(m, sent[m].size) \in Seq((0..MaxMsgs) \X Nat)
        /\ Len(msg.body \o part) = sent[m].size /\ Len(Payload(m, sent[m].size)) = sent[m].size
        /\ \A k \in 1..sent[m].size : (msg.body \o part)[k] = Payload(m, sent[m].size)[k]
    BY <1>4, <1>6, <2>1, <2>3 DEF Bytes
  <2> QED
    BY ONLY <2>4, SameSequence
<1>9. delivered' = f[m]
  <2>1. [msg EXCEPT !.body = @ \o part]
          = [conn |-> conn, id |-> m, body |-> Payload(m, sent[m].size)]
    <3>1. PICK p : p = msg.body \o part
      OBVIOUS
    <3>2. [msg EXCEPT !.body = p] = [conn |-> conn, id |-> m, body |-> p]
      <4>1. msg \in [conn : 1..MaxConns, id : 0..MaxMsgs, body : Bytes]
        BY <1>5 DEF Message
      <4> QED
        BY <1>4, <4>1
    <3> QED
      BY <1>8, <3>1, <3>2
  <2>2. sent[m].conn = conn
    BY <1>1, <1>6
  <2>3. f[m] = Append(f[m - 1], [conn |-> sent[m].conn, id |-> m, body |-> Payload(m, sent[m].size)])
    <3>1. sent \in Msgs
      BY PendingType
    <3> QED
      BY <1>4, <1>6, <3>1, ArrivalsNext
  <2> QED
    BY <1>1, <1>4, <2>1, <2>2, <2>3
<1>10. PICK i \in 0..l : i = n + e
  BY <1>6
<1>11. Ends(sent, a, i) /\ MessageAt(a, i) = m
  <2>1. a[i] = <<m, Total(sent, m)>> /\ i # 0
    BY <1>4, <1>6, <1>10
  <2> QED
    BY <1>6, <2>1 DEF Ends, MessageAt
<1>12. l = i + Len(Pending') /\ \A j \in 1..Len(Pending') : Pending'[j] = a[i + j]
  BY <1>6, <1>7, <1>10
<1>13. Heard(a, l, f, i)'
  BY <1>1, <1>9, <1>11, <1>12 DEF Heard
<1> QED
  BY <1>1, <1>13 DEF Hearing

(* Only a part of it is there.                                                *)
LEMMA HeardPartial ==
  ASSUME RecvPathAssumption, IInv, NEW a \in Bytes, Frames(sent, a),
         NEW f, NEW l \in 0..Len(a), Hearing(a, l, f), ParsePartial
  PROVE  Hearing(a, l, f)'
<1> DEFINE part == SubSeq(buf, parse + 1, Len(buf))
<1>1. /\ pc = "parse" /\ msg # Nil /\ Available < expect
      /\ msg' = [msg EXCEPT !.body = @ \o part]
      /\ expect' = expect - Available /\ buf' = <<>> /\ pc' = "reading"
      /\ UNCHANGED <<conn, sent, stream, delivered>>
      /\ \A k \in 1..Len(sent) : sent[k].conn = conn
  BY DEF ParsePartial, StillExpected, peerVars, Hearing
<1>2. PICK n \in 0..l : Heard(a, l, f, n)
  BY <1>1 DEF Hearing
<1>3. PICK m : m = a[n][1]
  OBVIOUS
<1>4. /\ msg.conn = conn /\ msg.id = m /\ Len(msg.body) + expect = sent[m].size
      /\ delivered = f[m - 1] /\ Begun(a, m)
  BY <1>1, <1>2, <1>3 DEF Heard
<1>5. /\ msg \in Message /\ expect \in Nat /\ buf \in Bytes /\ stream \in Bytes
      /\ Len(buf) \in Nat /\ parse \in 0..Len(buf)
  <2>1. msg \in Message /\ expect \in Nat
    BY <1>1 DEF IInv, TypeOK
  <2>2. buf \in Bytes /\ stream \in Bytes /\ Parsed \in 0..Len(buf)
    BY PendingType
  <2> QED
    BY <1>1, <2>1, <2>2, LenType DEF Parsed, Bytes
<1>6. PICK e \in Nat : e = Available
  <2>1. Available \in Nat
    BY <1>5 DEF Available
  <2> QED
    BY <2>1
<1>7. e <= expect /\ e <= Available /\ parse + e = Len(buf)
  BY <1>1, <1>5, <1>6 DEF Available
<1>8. /\ m \in 1..Len(sent) /\ sent[m].size \in Nat /\ Total(sent, m) = HeaderSize + sent[m].size
      /\ msg.body \in Bytes /\ SubSeq(buf, parse + 1, parse + e) \in Bytes
      /\ Len(msg.body \o SubSeq(buf, parse + 1, parse + e)) = Len(msg.body) + e
      /\ Len(msg.body) \in Nat
      /\ \A k \in 1..(Len(msg.body) + e) :
           (msg.body \o SubSeq(buf, parse + 1, parse + e))[k] = <<m, HeaderSize + k>>
      /\ n + e \in 0..l /\ n + e # 0
      /\ a[n + e] = <<m, HeaderSize + (Len(msg.body) + e)>>
      /\ l = (n + e) + Len(Rest(buf, parse + e, stream))
      /\ \A i \in 1..Len(Rest(buf, parse + e, stream)) :
           Rest(buf, parse + e, stream)[i] = a[(n + e) + i]
  <2>1. PICK p, r : p = SubSeq(buf, parse + 1, parse + e) /\ r = Rest(buf, parse + e, stream)
    OBVIOUS
  <2>2. /\ RecvPathAssumption /\ IInv /\ a \in Bytes /\ Frames(sent, a)
        /\ l \in 0..Len(a) /\ n \in 0..l /\ Heard(a, l, f, n)
        /\ pc = "parse" /\ msg # Nil /\ e \in Nat /\ e <= expect /\ e <= Available
        /\ m = a[n][1] /\ p = SubSeq(buf, parse + 1, parse + e)
        /\ r = Rest(buf, parse + e, stream)
    BY <1>1, <1>2, <1>3, <1>7, <2>1
  <2>3. /\ m \in 1..Len(sent) /\ sent[m].size \in Nat /\ Total(sent, m) = HeaderSize + sent[m].size
        /\ msg.body \in Bytes /\ p \in Bytes /\ Len(p) = e
        /\ Len(msg.body \o p) = Len(msg.body) + e /\ Len(msg.body) \in Nat
        /\ \A k \in 1..(Len(msg.body) + e) : (msg.body \o p)[k] = <<m, HeaderSize + k>>
        /\ n + e \in 0..l /\ n + e # 0
        /\ a[n + e] = <<m, HeaderSize + (Len(msg.body) + e)>>
        /\ l = (n + e) + Len(r) /\ \A i \in 1..Len(r) : r[i] = a[(n + e) + i]
    <3>1. BodyIs(a, l, n, e, m, p, r)
      BY ONLY <2>2, HeardBody
    <3> QED
      BY <3>1 DEF BodyIs
  <2> QED
    BY <2>1, <2>3
<1>9. Pending' = Rest(buf, parse + e, stream)
  BY <1>1, <1>5, <1>7, RestOfStream DEF Pending, Parsed
<1>10. PICK i \in 0..l : i = n + e
  BY <1>8
<1>11. l = i + Len(Pending') /\ \A j \in 1..Len(Pending') : Pending'[j] = a[i + j]
  BY <1>8, <1>9, <1>10
<1>12. SubSeq(buf, parse + 1, parse + e) = part
  BY <1>7
<1> HIDE DEF part
<1>13. /\ msg'.conn = conn /\ msg'.id = m /\ msg'.body = msg.body \o part
       /\ msg' \in [conn : Nat, id : Nat, body : Seq(Nat \X Nat)]
  <2>1. msg.conn \in Nat /\ msg.id \in Nat
    BY <1>5 DEF Message, RecvPathAssumption
  <2>2. msg.body \o part \in Seq(Nat \X Nat)
    <3>1. msg.body \in Seq(Nat \X Nat) /\ part \in Seq(Nat \X Nat)
      <4>1. Seq((0..MaxMsgs) \X Nat) \subseteq Seq(Nat \X Nat)
        BY DEF RecvPathAssumption
      <4> QED
        BY <1>8, <1>12, <4>1 DEF Bytes
    <3> QED
      BY <3>1, ConcatKeepsType
  <2> QED
    BY <1>1, <1>4, <1>5, <2>1, <2>2 DEF Message
<1>14. msg' # Nil
  BY <1>13 DEF RecvPathAssumption
<1>15. /\ Len(msg'.body) = Len(msg.body) + e
       /\ Len(msg'.body) + expect' = sent[m].size
       /\ \A k \in 1..Len(msg'.body) : msg'.body[k] = <<m, HeaderSize + k>>
  <2>1. Len(msg'.body) = Len(msg.body) + e
    BY <1>8, <1>12, <1>13
  <2>2. (Len(msg.body) + e) + (expect - e) = Len(msg.body) + expect
    BY <1>5, <1>8
  <2> QED
    BY <1>1, <1>4, <1>6, <1>8, <1>12, <1>13, <2>1, <2>2
<1>16. i # 0 /\ a[i][1] = m /\ a[i][2] = HeaderSize + Len(msg'.body)
  BY <1>8, <1>10, <1>15, SMTT(30)
<1>17. Heard(a, l, f, i)'
  BY <1>1, <1>4, <1>11, <1>13, <1>14, <1>15, <1>16 DEF Heard
<1> QED
  BY <1>1, <1>17 DEF Hearing

(* Every step of the receiver keeps what was heard.                           *)
LEMMA HeardStep ==
  ASSUME RecvPathAssumption, RecvBuf = HeaderSize, IInv, NEW a \in Bytes, Frames(sent, a),
         NEW f, Arrivals(f, sent, a), NEW l \in 0..Len(a), Hearing(a, l, f), Read \/ Parse
  PROVE  Hearing(a, l, f)'
<1>1. CASE Read \/ ParseEnd
  BY <1>1, HeardSame
<1>2. ASSUME NEW h \in Headers, NEW alloc \in {TRUE, ~AllocFails}, ParseHeader(h, alloc)
      PROVE  Hearing(a, l, f)'
  <2>1. alloc \in BOOLEAN
    OBVIOUS
  <2> QED
    BY <1>2, <2>1, HeardHeader
<1>3. CASE ParseComplete
  BY <1>3, HeardComplete
<1>4. CASE ParsePartial
  BY <1>4, HeardPartial
<1> QED
  BY <1>1, <1>2, <1>3, <1>4 DEF Parse

(* More bytes are on their way.                                               *)
LEMMA HeardMore ==
  ASSUME IInv, NEW a \in Bytes, NEW f, NEW l \in Nat, Hearing(a, l, f),
         NEW s \in Bytes, \A i \in 1..Len(s) : a[l + i] = s[i], stream' = stream \o s,
         UNCHANGED <<conn, sent, buf, parse, expect, msg, delivered, pc>>
  PROVE  Hearing(a, l + Len(s), f)'
<1>1. PICK z : z = l + Len(s)
  OBVIOUS
<1>2. CASE pc = "closed"
  BY <1>1, <1>2 DEF Hearing
<1>3. CASE pc # "closed"
  <2>1. PICK n \in 0..l : Heard(a, l, f, n)
    BY <1>3 DEF Hearing
  <2>2. /\ Pending' = Rest(buf, Parsed, stream \o s) /\ Pending = Rest(buf, Parsed, stream)
        /\ buf \in Bytes /\ stream \in Bytes /\ Parsed \in 0..Len(buf) /\ Pending \in Bytes
    BY PendingType DEF Pending, Parsed
  <2>3. /\ Len(Pending') = Len(Pending) + Len(s)
        /\ \A i \in 1..Len(Pending) : Pending'[i] = Pending[i]
        /\ \A i \in 1..Len(s) : Pending'[Len(Pending) + i] = s[i]
    <3>1. PICK b, t, p : b = buf /\ t = stream /\ p = Parsed
      OBVIOUS
    <3>2. b \in Bytes /\ t \in Bytes /\ s \in Bytes /\ p \in 0..Len(b)
      BY <2>2, <3>1
    <3>3. /\ Len(Rest(b, p, t \o s)) = Len(Rest(b, p, t)) + Len(s)
          /\ \A i \in 1..Len(Rest(b, p, t)) : Rest(b, p, t \o s)[i] = Rest(b, p, t)[i]
          /\ \A i \in 1..Len(s) : Rest(b, p, t \o s)[Len(Rest(b, p, t)) + i] = s[i]
      BY ONLY <3>2, RestGrows
    <3>4. Pending' = Rest(b, p, t \o s) /\ Pending = Rest(b, p, t)
      BY <2>2, <3>1
    <3> QED
      BY <3>3, <3>4
  <2>4. Len(Pending) \in Nat /\ Len(s) \in Nat /\ n \in Nat /\ l = n + Len(Pending)
    BY <2>1, <2>2, LenType DEF Bytes, Heard
  <2>5. z = n + Len(Pending') /\ n \in 0..z
    BY <1>1, <2>3, <2>4
  <2>6. ASSUME NEW i \in 1..Len(Pending')
        PROVE  Pending'[i] = a[n + i]
    <3>1. CASE i <= Len(Pending)
      <4>1. i \in 1..Len(Pending)
        BY <2>3, <2>4, <3>1
      <4> QED
        BY <2>1, <2>3, <4>1 DEF Heard
    <3>2. CASE ~(i <= Len(Pending))
      <4>1. i - Len(Pending) \in 1..Len(s) /\ Len(Pending) + (i - Len(Pending)) = i
        BY <2>3, <2>4, <3>2, PlaceInSecond
      <4>2. l + (i - Len(Pending)) = n + i
        BY <2>3, <2>4
      <4> QED
        BY <2>3, <4>1, <4>2
    <3> QED
      BY <3>1, <3>2
  <2>7. Heard(a, z, f, n)'
    BY <2>1, <2>5, <2>6 DEF Heard
  <2>8. Hearing(a, z, f)'
    BY <1>3, <2>5, <2>7 DEF Hearing
  <2> QED
    BY <1>1, <2>8
<1> QED
  BY <1>2, <1>3

(* q2 has one message more than q.                                            *)
Longer(q, q2) == Len(q2) = Len(q) + 1 /\ \A k \in 1..Len(q) : q2[k] = q[k]

(* a2 has all bytes of a and then those of a message m.                       *)
Adds(a, m, size, a2) ==
  /\ Len(a2) = Len(a) + (HeaderSize + size) /\ \A i \in 1..Len(a) : a2[i] = a[i]
  /\ \A j \in 1..(HeaderSize + size) : a2[Len(a) + j] = <<m, j>>

(* As many of the messages in q have bytes.                                   *)
SameBegun(q, a, a2) == \A k \in 1..Len(q) : Begun(a2, k) <=> Begun(a, k)

(* One message more was sent, and all that there was is kept.                 *)
Extends(q, a, f, q2, a2, f2) ==
  /\ Len(q2) = Len(q) + 1 /\ \A k \in 1..Len(q) : q2[k] = q[k]
  /\ Len(a) <= Len(a2) /\ \A i \in 1..Len(a) : a2[i] = a[i]
  /\ \A k \in 1..Len(q) : Begun(a2, k) <=> Begun(a, k)
  /\ \A k \in 0..Len(q) : f2[k] = f[k]

(* It does not change what was heard.                                         *)
LEMMA HeardSend ==
  ASSUME RecvPathAssumption, IInv, NEW a \in Bytes, Frames(sent, a), NEW f,
         NEW l \in 0..Len(a), Hearing(a, l, f), NEW q2, NEW a2, NEW f2,
         Extends(sent, a, f, q2, a2, f2), sent' = q2, q2[Len(sent) + 1].conn = conn,
         UNCHANGED <<conn, stream, buf, parse, expect, msg, delivered, pc>>
  PROVE  Hearing(a2, l, f2)'
<1>1. /\ Len(q2) = Len(sent) + 1 /\ \A k \in 1..Len(sent) : q2[k] = sent[k]
      /\ \A i \in 1..Len(a) : a2[i] = a[i]
      /\ \A k \in 1..Len(sent) : Begun(a2, k) <=> Begun(a, k)
      /\ \A k \in 0..Len(sent) : f2[k] = f[k]
  BY DEF Extends
<1>2. Len(sent) \in Nat /\ Len(a) \in Nat /\ l \in Nat /\ l <= Len(a) /\ sent \in Msgs
  BY PendingType, LenType DEF Msgs, Bytes
<1>3. \A k \in 1..Len(q2) : q2[k].conn = conn
  <2>1. \A k \in 1..Len(sent) : q2[k].conn = conn
    BY <1>1 DEF Hearing
  <2>2. ASSUME NEW k \in 1..Len(q2)
        PROVE  k \in 1..Len(sent) \/ k = Len(sent) + 1
    BY <1>1, <1>2
  <2> QED
    BY <2>1, <2>2
<1>4. CASE pc = "closed"
  <2>1. PICK m \in 0..Len(sent) : delivered = f[m]
    BY <1>4 DEF Hearing
  <2>2. m \in 0..Len(q2) /\ delivered = f2[m]
    BY <1>1, <1>2, <2>1
  <2> QED
    BY <1>3, <1>4, <2>2 DEF Hearing
<1>5. CASE pc # "closed"
  <2>1. PICK n \in 0..l : Heard(a, l, f, n)
    BY <1>5 DEF Hearing
  <2>2. /\ Pending' = Pending /\ n \in Nat /\ n \in 0..Len(a) /\ Len(Pending) \in Nat
        /\ l = n + Len(Pending)
    BY <1>2, <2>1, PendingType, LenType DEF Pending, Parsed, Bytes, Heard
  <2>3. ASSUME NEW i \in 1..Len(Pending)
        PROVE  Pending[i] = a2[n + i]
    <3>1. n + i \in 1..Len(a)
      BY <1>2, <2>2
    <3> QED
      BY <1>1, <2>1, <3>1 DEF Heard
  <2>4. n # 0 => /\ a2[n] = a[n] /\ a[n][1] \in 1..Len(sent) /\ q2[a[n][1]] = sent[a[n][1]]
                 /\ a[n][1] \in 0..Len(sent) /\ a[n][1] - 1 \in 0..Len(sent)
    <3>1. SUFFICES ASSUME n # 0
                   PROVE  /\ a2[n] = a[n] /\ a[n][1] \in 1..Len(sent) /\ q2[a[n][1]] = sent[a[n][1]]
                          /\ a[n][1] \in 0..Len(sent) /\ a[n][1] - 1 \in 0..Len(sent)
      OBVIOUS
    <3>2. n \in 1..Len(a)
      BY <2>2, <3>1
    <3>3. a[n][1] \in 1..Len(sent)
      BY <1>2, <3>2, FramesType
    <3> QED
      BY <1>1, <1>2, <3>2, <3>3
  <2>5. CASE msg = Nil
    <3>1. Ends(sent, a, n) /\ delivered = f[MessageAt(a, n)]
      BY <2>1, <2>5 DEF Heard
    <3>2. Ends(q2, a2, n) /\ delivered = f2[MessageAt(a2, n)]
      <4>1. CASE n = 0
        <5>1. 0 \in 0..Len(sent)
          BY <1>2
        <5> QED
          BY <1>1, <3>1, <4>1, <5>1 DEF Ends, MessageAt
      <4>2. CASE n # 0
        BY <1>1, <2>4, <3>1, <4>2 DEF Ends, MessageAt, Total
      <4> QED
        BY <4>1, <4>2
    <3>3. Heard(a2, l, f2, n)'
      BY <2>2, <2>3, <2>5, <3>2 DEF Heard
    <3> QED
      BY <1>3, <1>5, <3>3 DEF Hearing
  <2>6. CASE msg # Nil
    <3>1. /\ n # 0 /\ Begun(a, a[n][1])
          /\ msg.conn = conn /\ msg.id = a[n][1] /\ a[n][2] = HeaderSize + Len(msg.body)
          /\ Len(msg.body) + expect = sent[a[n][1]].size
          /\ \A k \in 1..Len(msg.body) : msg.body[k] = <<a[n][1], HeaderSize + k>>
          /\ delivered = f[a[n][1] - 1]
      BY <2>1, <2>6 DEF Heard
    <3>2. /\ n # 0 /\ Begun(a2, a2[n][1])
          /\ msg.conn = conn /\ msg.id = a2[n][1] /\ a2[n][2] = HeaderSize + Len(msg.body)
          /\ Len(msg.body) + expect = q2[a2[n][1]].size
          /\ \A k \in 1..Len(msg.body) : msg.body[k] = <<a2[n][1], HeaderSize + k>>
          /\ delivered = f2[a2[n][1] - 1]
      BY <1>1, <2>4, <3>1
    <3>3. Heard(a2, l, f2, n)'
      BY <2>2, <2>3, <2>6, <3>2 DEF Heard
    <3> QED
      BY <1>3, <1>5, <3>3 DEF Hearing
  <2> QED
    BY <2>5, <2>6
<1> QED
  BY <1>4, <1>5

(* A message that is sent, all of it, is the last one.                        *)
LEMMA FramesAppend ==
  ASSUME RecvPathAssumption, NEW q \in Msgs, NEW a \in Bytes, Frames(q, a),
         NEW q2 \in Msgs, Longer(q, q2), NEW m \in Nat, m = Len(q) + 1,
         NEW size \in Nat, q2[m].size = size, NEW a2 \in Bytes, Adds(a, m, size, a2)
  PROVE  Frames(q2, a2) /\ Begun(a2, m) /\ SameBegun(q, a, a2)
<1>0. /\ Len(q2) = Len(q) + 1 /\ \A k \in 1..Len(q) : q2[k] = q[k]
      /\ Len(a2) = Len(a) + (6 + size) /\ \A i \in 1..Len(a) : a2[i] = a[i]
      /\ \A j \in 1..(6 + size) : a2[Len(a) + j] = <<m, j>>
  BY DEF Longer, Adds, HeaderSize
<1>1. Len(q) \in Nat /\ Len(a) \in Nat /\ Len(a2) \in Nat /\ Len(a2) = Len(a) + (6 + size)
      /\ Len(q2) = Len(q) + 1
  BY <1>0, LenType DEF Msgs, Bytes
<1>2. ASSUME NEW i \in 1..Len(a)
      PROVE  a2[i] = a[i] /\ a[i][1] \in 1..Len(q) /\ Total(q2, a[i][1]) = Total(q, a[i][1])
  BY <1>0, FramesType DEF Total
<1>3. ASSUME NEW j \in 1..(6 + size)
      PROVE  a2[Len(a) + j] = <<m, j>>
  BY <1>0
<1>4. Total(q2, m) = 6 + size /\ m \notin 1..Len(q)
  BY <1>1 DEF Total, HeaderSize
<1>5. ASSUME NEW i \in 1..Len(a2)
      PROVE  i \in 1..Len(a) \/ \E j \in 1..(6 + size) : i = Len(a) + j
  <2>1. ~(i \in 1..Len(a)) => i - Len(a) \in 1..(6 + size) /\ i = Len(a) + (i - Len(a))
    BY <1>1
  <2> QED
    BY <2>1
<1>6. ASSUME NEW k \in 1..Len(q)
      PROVE  Begun(a2, k) <=> Begun(a, k)
  <2>1. Begun(a, k) => Begun(a2, k)
    <3>1. \A i \in 1..Len(a) : i \in 1..Len(a2)
      BY <1>1
    <3> QED
      BY <1>2, <3>1 DEF Begun
  <2>2. ASSUME NEW i \in 1..Len(a2), a2[i] = <<k, 1>>
        PROVE  Begun(a, k)
    <3>1. ASSUME NEW j \in 1..(6 + size), i = Len(a) + j
          PROVE  FALSE
      <4>1. a2[i] = <<m, j>>
        BY <1>3, <3>1
      <4>2. <<m, j>>[1] = <<k, 1>>[1]
        BY <2>2, <4>1
      <4>3. m = k
        BY <4>2
      <4> QED
        BY <1>4, <4>3
    <3>2. i \in 1..Len(a)
      BY <1>5, <3>1
    <3> QED
      BY <1>2, <2>2, <3>2 DEF Begun
  <2> QED
    BY <2>1, <2>2 DEF Begun
<1>7. Begun(a2, m)
  <2>1. 1 \in 1..(6 + size) /\ Len(a) + 1 \in 1..Len(a2)
    BY <1>1
  <2>2. a2[Len(a) + 1] = <<m, 1>>
    BY <1>3, <2>1
  <2> QED
    BY <2>1, <2>2 DEF Begun
<1>8. ASSUME NEW i \in 1..Len(a2)
      PROVE  a2[i][1] \in 1..Len(q2) /\ a2[i][2] \in 1..Total(q2, a2[i][1])
  <2>1. CASE i \in 1..Len(a)
    <3>1. a[i][1] \in 1..Len(q) /\ a[i][2] \in 1..Total(q, a[i][1])
      BY <2>1 DEF Frames
    <3>2. a[i][1] \in 1..Len(q2)
      BY <1>1, <3>1
    <3> QED
      BY <1>2, <2>1, <3>1, <3>2
  <2>2. ASSUME NEW j \in 1..(6 + size), i = Len(a) + j
        PROVE  a2[i][1] \in 1..Len(q2) /\ a2[i][2] \in 1..Total(q2, a2[i][1])
    <3>1. a2[i] = <<m, j>>
      BY <1>3, <2>2
    <3>2. m \in 1..Len(q2) /\ j \in 1..Total(q2, m)
      BY <1>1, <1>4
    <3> QED
      BY <3>1, <3>2
  <2> QED
    BY <1>5, <2>1, <2>2
<1>9. ASSUME NEW i \in 0..Len(a)
      PROVE  /\ MessageAt(a2, i) = MessageAt(a, i) /\ MessageAt(a, i) \in 0..Len(q)
             /\ Ends(q2, a2, i) <=> Ends(q, a, i)
             /\ GoesOn(q, a, i)
  <2>1. i = 0 \/ i \in 1..Len(a)
    BY <1>1
  <2>2. GoesOn(q, a, i)
    BY DEF Frames
  <2>3. CASE i = 0
    BY <1>1, <2>2, <2>3 DEF MessageAt, Ends
  <2>4. CASE i # 0 /\ i \in 1..Len(a)
    <3>1. a2[i] = a[i] /\ a[i][1] \in 0..Len(q) /\ Total(q2, a[i][1]) = Total(q, a[i][1])
      BY <1>1, <1>2, <2>4
    <3> QED
      BY <2>2, <2>4, <3>1 DEF MessageAt, Ends
  <2> QED
    BY <2>1, <2>3, <2>4
<1>10. ASSUME NEW i \in 0..Len(a), NEW k \in 1..m, NextIs(a, i, k)
       PROVE  NextIs(a2, i, k)
  <2>1. MessageAt(a, i) < k /\ \A x \in (MessageAt(a, i) + 1)..(k - 1) : ~Begun(a, x)
    BY <1>10 DEF NextIs
  <2>2. \A x \in (MessageAt(a, i) + 1)..(k - 1) : x \in 1..Len(q)
    BY <1>1, <1>9
  <2> QED
    BY <1>6, <1>9, <2>1, <2>2 DEF NextIs
<1>11. ASSUME NEW i \in 0..Len(a2)
       PROVE  GoesOn(q2, a2, i)
  <2>1. CASE i \in 0..Len(a) /\ i # Len(a)
    <3>1. i \in 0..Len(a) /\ i < Len(a) /\ i < Len(a2) /\ i # Len(a2) /\ i + 1 \in 1..Len(a)
      BY <1>1, <2>1
    <3>2. a2[i + 1] = a[i + 1] /\ a[i + 1][1] \in 1..m
      <4>1. a[i + 1][1] \in 1..Len(q)
        BY <1>2, <3>1
      <4> QED
        BY <1>1, <1>2, <3>1, <4>1
    <3>3. /\ ~Ends(q, a, i) => a[i + 1] = <<a[i][1], a[i][2] + 1>>
          /\ Ends(q, a, i) => a[i + 1][2] = 1 /\ NextIs(a, i, a[i + 1][1])
      BY <1>9, <3>1 DEF GoesOn
    <3>4. ~Ends(q, a, i) => a2[i] = a[i]
      <4>1. i # 0 => i \in 1..Len(a)
        BY <1>1, <3>1
      <4> QED
        BY <1>2, <4>1 DEF Ends
    <3>5. Ends(q, a, i) => NextIs(a2, i, a2[i + 1][1])
      BY <1>10, <3>1, <3>2, <3>3
    <3> QED
      BY <1>9, <3>1, <3>2, <3>3, <3>4, <3>5 DEF GoesOn
  <2>2. CASE i = Len(a)
    <3>1. i \in 0..Len(a) /\ i < Len(a2) /\ i # Len(a2) /\ ~(i < Len(a)) /\ 1 \in 1..(6 + size)
      BY <1>1, <2>2
    <3>2. Ends(q, a, i) /\ NextIs(a, i, m)
      BY <1>9, <2>2, <3>1 DEF GoesOn
    <3>3. a2[i + 1] = <<m, 1>> /\ m \in 1..m
      BY <1>1, <1>3, <2>2, <3>1
    <3>4. Ends(q2, a2, i) /\ NextIs(a2, i, m)
      BY <1>9, <1>10, <3>1, <3>2, <3>3
    <3> QED
      BY <3>1, <3>3, <3>4 DEF GoesOn
  <2>3. ASSUME NEW j \in 1..(6 + size), i = Len(a) + j
        PROVE  GoesOn(q2, a2, i)
    <3>1. /\ a2[i] = <<m, j>> /\ i # 0 /\ a2[i][1] = m /\ a2[i][2] = j
      BY <1>1, <1>3, <2>3
    <3>2. /\ Ends(q2, a2, i) <=> j = 6 + size
          /\ MessageAt(a2, i) = m
      BY <1>4, <3>1 DEF Ends, MessageAt
    <3>3. CASE j = 6 + size
      <4>1. i = Len(a2) /\ ~(i < Len(a2)) /\ Len(q2) + 1 = m + 1
        BY <1>1, <2>3, <3>3
      <4>2. m < m + 1 /\ \A k \in (m + 1)..((m + 1) - 1) : FALSE
        OBVIOUS
      <4>3. NextIs(a2, i, Len(q2) + 1)
        BY <3>2, <4>1, <4>2 DEF NextIs
      <4> QED
        BY <3>2, <3>3, <4>1, <4>3 DEF GoesOn
    <3>4. CASE j # 6 + size
      <4>1. i < Len(a2) /\ j + 1 \in 1..(6 + size) /\ i + 1 = Len(a) + (j + 1)
        BY <1>1, <2>3, <3>4
      <4>2. a2[i + 1] = <<a2[i][1], a2[i][2] + 1>>
        BY <1>3, <3>1, <4>1
      <4> QED
        BY <3>2, <3>4, <4>1, <4>2 DEF GoesOn
    <3> QED
      BY <3>3, <3>4
  <2>4. \/ i \in 0..Len(a) /\ i # Len(a)
        \/ i = Len(a)
        \/ \E j \in 1..(6 + size) : i = Len(a) + j
    <3>1. i \in 0..Len(a) \/ i \in 1..Len(a2)
      BY <1>1
    <3>2. CASE i \in 0..Len(a)
      BY <3>2
    <3>3. CASE ~(i \in 0..Len(a))
      <4>1. ~(i \in 1..Len(a)) /\ i \in 1..Len(a2)
        BY <1>1, <3>1, <3>3
      <4>2. \E j \in 1..(6 + size) : i = Len(a) + j
        BY <1>5, <4>1
      <4> QED
        BY <4>2
    <3> QED
      BY <3>2, <3>3
  <2> QED
    BY <2>1, <2>2, <2>3, <2>4
<1> QED
  BY <1>6, <1>7, <1>8, <1>11 DEF Frames, SameBegun

(* One that is refused has no bytes.                                          *)
LEMMA FramesRefuse ==
  ASSUME RecvPathAssumption, NEW q \in Msgs, NEW a \in Bytes, Frames(q, a),
         NEW q2 \in Msgs, Longer(q, q2)
  PROVE  Frames(q2, a) /\ SameBegun(q, a, a)
<1>0. Len(q2) = Len(q) + 1 /\ \A k \in 1..Len(q) : q2[k] = q[k]
  BY DEF Longer
<1>1. Len(q) \in Nat /\ Len(a) \in Nat /\ Len(q2) = Len(q) + 1
  BY <1>0, LenType DEF Msgs, Bytes
<1>2. ASSUME NEW i \in 1..Len(a)
      PROVE  /\ a[i][1] \in 1..Len(q) /\ a[i][1] \in 1..Len(q2)
             /\ Total(q2, a[i][1]) = Total(q, a[i][1])
             /\ a[i][2] \in 1..Total(q, a[i][1])
  <2>1. a[i][1] \in 1..Len(q) /\ a[i][2] \in 1..Total(q, a[i][1])
    BY FramesType
  <2>2. a[i][1] \in 1..Len(q2)
    BY <1>1, <2>1
  <2> QED
    BY <1>0, <2>1, <2>2 DEF Total
<1>3. ~Begun(a, Len(q) + 1)
  <2>1. ASSUME NEW i \in 1..Len(a), a[i] = <<Len(q) + 1, 1>>
        PROVE  FALSE
    <3>1. Len(q) + 1 \in 1..Len(q)
      BY <1>2, <2>1
    <3> QED
      BY <1>1, <3>1
  <2> QED
    BY <2>1 DEF Begun
<1>4. ASSUME NEW i \in 0..Len(a)
      PROVE  GoesOn(q2, a, i)
  <2>1. i # 0 => i \in 1..Len(a)
    BY <1>1
  <2>2. Ends(q2, a, i) <=> Ends(q, a, i)
    BY <1>2, <2>1 DEF Ends
  <2>3. GoesOn(q, a, i)
    BY DEF Frames
  <2>4. MessageAt(a, i) \in Nat
    BY <1>1, <1>2, <2>1 DEF MessageAt
  <2>5. NextIs(a, i, Len(q) + 1) => NextIs(a, i, Len(q2) + 1)
    <3>1. SUFFICES ASSUME NextIs(a, i, Len(q) + 1) PROVE NextIs(a, i, Len(q2) + 1)
      OBVIOUS
    <3>2. /\ MessageAt(a, i) < Len(q) + 1
          /\ \A k \in (MessageAt(a, i) + 1)..((Len(q) + 1) - 1) : ~Begun(a, k)
      BY <3>1 DEF NextIs
    <3>3. MessageAt(a, i) < Len(q2) + 1
      BY <1>1, <2>4, <3>2
    <3>4. \A k \in (MessageAt(a, i) + 1)..((Len(q2) + 1) - 1) :
            k = Len(q) + 1 \/ k \in (MessageAt(a, i) + 1)..((Len(q) + 1) - 1)
      BY <1>1, <2>4
    <3> QED
      BY <1>3, <3>2, <3>3, <3>4 DEF NextIs
  <2> QED
    BY <2>2, <2>3, <2>5 DEF GoesOn
<1> QED
  BY <1>2, <1>4 DEF Frames, SameBegun

(* What arrives then, of all of them.                                         *)
LEMMA ArrivalsExtend ==
  ASSUME NEW q \in Msgs, NEW a, NEW f, Arrivals(f, q, a), NEW q2 \in Msgs, NEW a2,
         Longer(q, q2), SameBegun(q, a, a2),
         Len(a) <= Len(a2), \A i \in 1..Len(a) : a2[i] = a[i]
  PROVE  \E f2 : Arrivals(f2, q2, a2) /\ Extends(q, a, f, q2, a2, f2)
<1> DEFINE m == Len(q) + 1
           Of(k) == [conn |-> q2[k].conn, id |-> k, body |-> Payload(k, q2[k].size)]
           last == IF Begun(a2, m) THEN Append(f[m - 1], Of(m)) ELSE f[m - 1]
           f2 == [k \in 0..Len(q2) |-> IF k = m THEN last ELSE f[k]]
<1>0. /\ Len(q2) = Len(q) + 1 /\ \A k \in 1..Len(q) : q2[k] = q[k]
      /\ \A k \in 1..Len(q) : Begun(a2, k) <=> Begun(a, k)
  BY DEF Longer, SameBegun
<1>1. Len(q) \in Nat /\ Len(q2) = Len(q) + 1 /\ m \in Nat /\ m # 0 /\ m - 1 = Len(q) /\ m \in 0..Len(q2)
  BY <1>0, LenType DEF Msgs
<1>2. ASSUME NEW k \in 0..Len(q)
      PROVE  k # m /\ k \in 0..Len(q2) /\ k \in Nat /\ (k # 0 => k \in 1..Len(q) /\ k - 1 \in 0..Len(q))
  BY <1>1
<1>3. ASSUME NEW k \in 0..Len(q2)
      PROVE  k = m \/ k \in 0..Len(q)
  BY <1>1
<1>4. m - 1 \in 0..Len(q)
  BY <1>1
<1> HIDE DEF m
<1>5. ASSUME NEW k \in 0..Len(q)
      PROVE  f2[k] = f[k]
  BY <1>2
<1>6. f2[m] = last
  BY <1>1
<1>7. f = [k \in 0..Len(q) |->
            IF k = 0 THEN <<>>
            ELSE IF Begun(a, k)
                 THEN Append(f[k - 1], [conn |-> q[k].conn, id |-> k, body |-> Payload(k, q[k].size)])
            ELSE f[k - 1]]
  BY DEF Arrivals
<1>8. ASSUME NEW k \in 0..Len(q), k # 0
      PROVE  f[k] = IF Begun(a2, k) THEN Append(f2[k - 1], Of(k)) ELSE f2[k - 1]
  <2>1. k \in 1..Len(q) /\ k - 1 \in 0..Len(q)
    BY <1>2, <1>8
  <2>2. f[k] = IF Begun(a, k)
               THEN Append(f[k - 1], [conn |-> q[k].conn, id |-> k, body |-> Payload(k, q[k].size)])
               ELSE f[k - 1]
    BY <1>7, <1>8
  <2>3. f2[k - 1] = f[k - 1]
    BY <1>5, <2>1
  <2>4. q2[k] = q[k] /\ (Begun(a2, k) <=> Begun(a, k))
    BY <1>0, <2>1
  <2> HIDE DEF f2
  <2> QED
    BY <2>2, <2>3, <2>4
<1>9. f[0] = <<>>
  BY <1>1, <1>7
<1>10. f2[m - 1] = f[m - 1]
  BY <1>4, <1>5
<1>11. DOMAIN f2 = 0..Len(q2) /\ f2 = [k \in 0..Len(q2) |-> f2[k]]
  OBVIOUS
<1>12. ASSUME NEW k \in 0..Len(q2)
       PROVE  f2[k] = IF k = 0 THEN <<>>
                      ELSE IF Begun(a2, k) THEN Append(f2[k - 1], Of(k))
                      ELSE f2[k - 1]
  <2>1. CASE k = m
    BY <1>1, <1>6, <1>10, <2>1
  <2>2. CASE k \in 0..Len(q)
    <3>1. f2[k] = f[k]
      BY <1>5, <2>2
    <3> QED
      BY <1>8, <1>9, <2>2, <3>1
  <2> QED
    BY <1>3, <2>1, <2>2
<1> HIDE DEF f2
<1>13. Arrivals(f2, q2, a2)
  <2>1. f2 = [k \in 0..Len(q2) |-> IF k = 0 THEN <<>>
                      ELSE IF Begun(a2, k) THEN Append(f2[k - 1], Of(k))
                      ELSE f2[k - 1]]
    BY <1>11, <1>12
  <2> QED
    BY <2>1 DEF Arrivals
<1>14. Extends(q, a, f, q2, a2, f2)
  BY <1>0, <1>5 DEF Extends
<1> QED
  BY <1>13, <1>14

(* There is only one f.                                                       *)
LEMMA ArrivalsAgree ==
  ASSUME NEW q \in Msgs, NEW a, NEW f, NEW g, Arrivals(f, q, a), Arrivals(g, q, a)
  PROVE  f[Len(q)] = g[Len(q)]
<1> DEFINE T == {k \in Nat : k \in 0..Len(q) => f[k] = g[k]}
           Of(k) == [conn |-> q[k].conn, id |-> k, body |-> Payload(k, q[k].size)]
<1>1. Len(q) \in Nat
  BY LenType DEF Msgs
<1>2. ASSUME NEW k \in 0..Len(q)
      PROVE  /\ f[k] = IF k = 0 THEN <<>> ELSE IF Begun(a, k) THEN Append(f[k - 1], Of(k)) ELSE f[k - 1]
             /\ g[k] = IF k = 0 THEN <<>> ELSE IF Begun(a, k) THEN Append(g[k - 1], Of(k)) ELSE g[k - 1]
  BY DEF Arrivals
<1> HIDE DEF Of
<1>3. 0 \in T
  BY <1>1, <1>2
<1>4. ASSUME NEW k \in T
      PROVE  k + 1 \in T
  <2> SUFFICES ASSUME k + 1 \in 0..Len(q)
               PROVE  f[k + 1] = g[k + 1]
    OBVIOUS
  <2>1. k \in Nat /\ k \in 0..Len(q) /\ f[k] = g[k] /\ k + 1 # 0 /\ (k + 1) - 1 = k
    BY <1>1
  <2> HIDE DEF T
  <2>2. /\ f[k + 1] = IF Begun(a, k + 1) THEN Append(f[k], Of(k + 1)) ELSE f[k]
        /\ g[k + 1] = IF Begun(a, k + 1) THEN Append(g[k], Of(k + 1)) ELSE g[k]
    BY <1>2, <2>1
  <2> QED
    BY <2>1, <2>2
<1> HIDE DEF T
<1>5. \A k \in Nat : k \in T
  BY <1>3, <1>4, Induct DEF T
<1>6. Len(q) \in T /\ Len(q) \in 0..Len(q)
  BY <1>1, <1>5
<1> QED
  BY <1>6 DEF T

(* What was heard is the beginning of what is to arrive.                      *)
LEMMA HeardPrefix ==
  ASSUME RecvPathAssumption, IInv, Len(sent) <= MaxMsgs, NEW a \in Bytes, Frames(sent, a),
         NEW f, Arrivals(f, sent, a), NEW l \in 0..Len(a), Hearing(a, l, f)
  PROVE  Begins(delivered, f[Len(sent)])
<1>1. sent \in Msgs /\ Len(sent) \in Nat /\ Len(a) \in Nat
  BY PendingType, LenType DEF Msgs, Bytes
<1>2. \E m \in 0..Len(sent) : delivered = f[m]
  <2>1. CASE pc = "closed"
    BY <2>1 DEF Hearing
  <2>2. CASE pc # "closed"
    <3>1. PICK n \in 0..l : Heard(a, l, f, n)
      BY <2>2 DEF Hearing
    <3>2. n # 0 => a[n][1] \in 1..Len(sent)
      <4>1. n # 0 => n \in 1..Len(a)
        BY <1>1
      <4> QED
        BY <1>1, <4>1, FramesType
    <3>3. CASE msg = Nil
      <4>1. delivered = f[MessageAt(a, n)]
        BY <3>1, <3>3 DEF Heard
      <4>2. MessageAt(a, n) \in 0..Len(sent)
        BY <1>1, <3>2 DEF MessageAt
      <4> QED
        BY <4>1, <4>2
    <3>4. CASE msg # Nil
      <4>1. n # 0 /\ delivered = f[a[n][1] - 1]
        BY <3>1, <3>4 DEF Heard
      <4>2. a[n][1] - 1 \in 0..Len(sent)
        BY <1>1, <3>2, <4>1
      <4> QED
        BY <4>1, <4>2
    <3> QED
      BY <3>3, <3>4
  <2> QED
    BY <2>1, <2>2
<1>3. PICK m \in 0..Len(sent) : delivered = f[m]
  BY <1>2
<1>4. PICK q : q = sent
  OBVIOUS
<1>5. /\ RecvPathAssumption /\ q \in Msgs /\ Len(q) <= MaxMsgs /\ Arrivals(f, q, a)
      /\ m \in 0..Len(q)
  BY <1>1, <1>4
<1>6. Begins(f[m], f[Len(q)])
  BY ONLY <1>5, ArrivalsGrow
<1> QED
  BY <1>3, <1>4, <1>6

(* It starts with nothing.                                                    *)
LEMMA HearingStarts ==
  ASSUME Init
  PROVE  \E f : Frames(sent, <<>>) /\ Arrivals(f, sent, <<>>) /\ Hearing(<<>>, 0, f)
<1>1. /\ sent = <<>> /\ stream = <<>> /\ buf = <<>> /\ msg = Nil /\ delivered = <<>>
      /\ pc = "reading" /\ Len(<<>>) = 0
  BY DEF Init
<1>2. PICK f : f = [m \in 0..0 |-> <<>>]
  OBVIOUS
<1>3. f[0] = <<>>
  BY <1>2
<1>4. Frames(sent, <<>>)
  <2>1. \A i \in 1..0 : FALSE
    OBVIOUS
  <2>2. NextIs(<<>>, 0, 1)
    <3>1. \A k \in (0 + 1)..(1 - 1) : FALSE
      OBVIOUS
    <3> QED
      BY <3>1 DEF NextIs, MessageAt
  <2>3. GoesOn(sent, <<>>, 0)
    BY <1>1, <2>2 DEF GoesOn, Ends
  <2>4. \A i \in 0..0 : i = 0
    OBVIOUS
  <2> QED
    BY <1>1, <2>1, <2>3, <2>4 DEF Frames
<1>5. Arrivals(f, sent, <<>>)
  <2>1. \A m \in 0..0 : m = 0
    OBVIOUS
  <2> QED
    BY <1>1, <1>2, <2>1 DEF Arrivals
<1>6. Hearing(<<>>, 0, f)
  <2>1. Pending = Rest(<<>>, 0, <<>>)
    BY <1>1 DEF Pending, Parsed
  <2>2. <<>> \in Bytes /\ 0 \in 0..0
    BY DEF Bytes
  <2>3. Len(Pending) = 0
    BY <1>1, <2>1, <2>2, RestType
  <2>4. Heard(<<>>, 0, f, 0)
    BY <1>1, <1>3, <2>3 DEF Heard, Ends, MessageAt
  <2>5. \A k \in 1..Len(sent) : FALSE
    BY <1>1
  <2> QED
    BY <1>1, <2>2, <2>4, <2>5 DEF Hearing
<1> QED
  BY <1>4, <1>5, <1>6
=============================================================================
