---------------------------------- MODULE Md5 ----------------------------------
(***************************************************************************)
(* wMD5: a message that comes in pieces is cut into blocks, padded, and    *)
(* closed with its length (src/wlib/wmd5.cpp).                             *)
(*                                                                         *)
(* transform() is injective as far as anybody knows: _state stands here    *)
(* for the bytes that went into it. A byte is <<kind, value>>; those of    *)
(* the message are told apart by their place in it. A word of _count has   *)
(* LenBytes / 2 bytes, and one of them is enough for it here.              *)
(***************************************************************************)
EXTENDS Naturals, Sequences

CONSTANTS
  Block,    (* bytes of a block: 64                       *)
  LenBytes, (* bytes of the length at the end: 8          *)
  Word,     (* values of a word of _count: 2^32           *)
  MaxPiece, (* bound: length of a piece                   *)
  MaxLen    (* bound: length of a message                 *)

Md5Assumption ==
  /\ Block \in Nat /\ LenBytes \in 1..(Block - 1)
  /\ Word \in Nat \ {0} /\ Word % (8 * Block) = 0
  /\ MaxPiece \in 0..(Word - 1) /\ MaxLen \in Nat

VARIABLES
  state,   (* _state: the bytes transformed since reset()           *)
  low,     (* _count[0]                                             *)
  high,    (* _count[1]                                             *)
  buffer,  (* _buffer                                               *)
  finished,(* _finished                                             *)
  digest,  (* _digest, as state; <<>> before the first              *)
  len,     (* length of the message so far                          *)
  of,      (* length of the message when digest was made            *)
  spoiled, (* a digest has been made that left zeros in the buffer  *)
  sure     (* digest was made before that                           *)

vars == <<state, low, high, buffer, finished, digest, len, of, spoiled, sure>>

Message(from, to) == [k \in 1..(to - from + 1) |-> <<"msg", from + k - 1>>]
Padding(n)        == [k \in 1..n |-> <<"pad", IF k = 1 THEN 128 ELSE 0>>]

(* encode() of the two words of the length, low one first. *)
LengthBytes(lo, hi) ==
  [k \in 1..LenBytes |->
     CASE k = 1 -> <<"low", lo>> [] k = 2 -> <<"high", hi>> [] OTHER -> <<"pad", 0>>]

Init ==
  /\ state = <<>> /\ low = 0 /\ high = 0
  /\ buffer = [k \in 1..Block |-> <<"junk", 0>>]
  /\ finished = FALSE /\ digest = <<>>
  /\ len = 0 /\ of = 0 /\ spoiled = FALSE /\ sure = FALSE

-----------------------------------------------------------------------------
Context == [state |-> state, low |-> low, high |-> high, buffer |-> buffer]

Index(c) == (c.low \div 8) % Block

(* transform(): a block goes into the state. *)
Transformed(bytes, block) == bytes \o block

(* memcpy into the buffer. *)
Overwritten(buf, at, bytes) ==
  [k \in 1..Block |-> IF k - at \in DOMAIN bytes THEN bytes[k - at] ELSE buf[k]]

(* Mutant: a carry out of the low word is lost. *)
NoCarry(c, n) == (c.high + ((8 * n) \div Word)) % Word

HighAfter(c, n) ==
  (c.high + ((8 * n) \div Word) + (IF c.low + ((8 * n) % Word) >= Word THEN 1 ELSE 0)) % Word

(* update(): complete the buffered block, take whole blocks from the input, *)
(* keep the rest.                                                           *)
Updated(c, input) ==
  LET n     == Len(input)
      part  == Block - Index(c)
      taken == part + Block * ((n - part) \div Block)
  IN [low  |-> (c.low + 8 * n) % Word,
      high |-> HighAfter(c, n),
      state |-> IF n < part THEN c.state
                ELSE Transformed(c.state, SubSeq(c.buffer, 1, Index(c)) \o SubSeq(input, 1, taken)),
      buffer |-> IF n < part THEN Overwritten(c.buffer, Index(c), input)
                 ELSE Overwritten(Overwritten(c.buffer, Index(c), SubSeq(input, 1, part)),
                                  0, SubSeq(input, taken + 1, n))]

PadLen(c) ==
  IF Index(c) < Block - LenBytes THEN Block - LenBytes - Index(c)
                                 ELSE 2 * Block - LenBytes - Index(c)

(* final() before it restores the state and the count. *)
Finished(c) == Updated(Updated(c, Padding(PadLen(c))), LengthBytes(c.low, c.high))

Update(n) ==
  LET c == Updated(Context, Message(len + 1, len + n)) IN
  /\ len + n <= MaxLen
  /\ state' = c.state /\ low' = c.low /\ high' = c.high /\ buffer' = c.buffer
  /\ finished' = FALSE
  /\ len' = len + n
  /\ UNCHANGED <<digest, of, spoiled, sure>>

(* digest() and toString(): the update() calls of final() leave _finished   *)
(* FALSE again, and the buffer is not restored.                             *)
Digest ==
  /\ ~finished
  /\ digest' = Finished(Context).state
  /\ buffer' = Finished(Context).buffer
  /\ of' = len /\ sure' = ~spoiled
  /\ spoiled' = (spoiled \/ Index(Context) >= Block - LenBytes)
  /\ UNCHANGED <<state, low, high, finished, len>>

Reset ==
  /\ state' = <<>> /\ low' = 0 /\ high' = 0
  /\ finished' = FALSE
  /\ len' = 0 /\ spoiled' = FALSE
  /\ digest' = <<>> /\ of' = 0 /\ sure' = FALSE
  /\ UNCHANGED buffer

Next == (\E n \in 0..MaxPiece : Update(n)) \/ Digest \/ Reset

Spec == Init /\ [][Next]_vars

-----------------------------------------------------------------------------
(* What MD5 is defined to hash for a message: the message, one bit, zeros   *)
(* to a whole number of blocks but the length, and the length.              *)
Padded(n) ==
  LET zeros == CHOOSE z \in 1..Block : (n + z + LenBytes) % Block = 0
  IN Message(1, n) \o Padding(zeros)
       \o LengthBytes((8 * n) % Word, ((8 * n) \div Word) % Word)

(* However the message is cut into pieces, the digest is that of the whole  *)
(* message, also one that is asked for again or before the message goes on, *)
(* up to the first that came at the end of a block.                         *)
DigestOfMessage == sure => digest = Padded(of)

(* "Return the message-digest": at any time.                                *)
DigestAgain == digest # <<>> => digest = Padded(of)
=============================================================================
