-------------------------------- MODULE LogLine --------------------------------
(***************************************************************************)
(* One line of the log: a wlog writes a prefix, what is streamed into it   *)
(* and a line end into its own buffer, and hands the buffer to the         *)
(* asynchronous log (src/wlib/wlog.cpp, wstream.cpp, wbuffer.cpp).         *)
(*                                                                         *)
(* A character is <<piece, position in it>>. The pieces are texts and      *)
(* numbers; of a text its length is kept, and of a number too.             *)
(***************************************************************************)
EXTENDS Naturals, Sequences, SequencesExt

CONSTANTS
  BufSize,    (* sizeof(m_data): 2048                             *)
  MaxNumeric, (* MAX_NUMERIC_SIZE: 32                             *)
  Lens,       (* lengths of texts; an empty one writes nothing    *)
  Digits,     (* lengths of numbers                               *)
  Starts,     (* the pieces that a constructor writes             *)
  MaxPieces   (* bound: pieces in a line, with those of the prefix *)

Pieces == [kind : {"text"}, len : Lens] \cup [kind : {"number"}, len : Digits]

LogLineAssumption ==
  /\ BufSize \in Nat /\ MaxNumeric \in Nat /\ MaxPieces \in Nat
  /\ Lens \subseteq Nat \ {0} /\ Digits \subseteq 1..MaxNumeric
  /\ Starts \subseteq Seq(Pieces)

VARIABLES
  pieces, (* what was streamed so far                          *)
  data,   (* the first m_pos characters of the buffer          *)
  error,  (* m_error                                           *)
  done    (* the destructor has appended the line to the log   *)

vars == <<pieces, data, error, done>>

LineEnd == <<"end", 1>>

Chars(p, len) == [k \in 1..len |-> <<p, k>>]

-----------------------------------------------------------------------------
(* Mutant: an error does not keep later texts out. *)
WriteAfterError(b, text) ==
  IF Len(b.data) + Len(text) <= BufSize THEN [b EXCEPT !.data = @ \o text]
                                        ELSE [b EXCEPT !.error = TRUE]

(* wbuffer::write. *)
Write(b, text) ==
  IF ~b.error /\ Len(b.data) + Len(text) <= BufSize THEN [b EXCEPT !.data = @ \o text]
                                                    ELSE [b EXCEPT !.error = TRUE]

(* stream_serial_int: room for the longest number and the 0 behind it; an   *)
(* error does not matter.                                                   *)
WriteNumber(b, text) ==
  IF BufSize - Len(b.data) > MaxNumeric THEN [b EXCEPT !.data = @ \o text]
                                        ELSE [b EXCEPT !.error = TRUE]

(* The operators <<, and append. *)
Streamed(b, piece, p) ==
  IF piece.kind = "text" THEN Write(b, Chars(p, piece.len)) ELSE WriteNumber(b, Chars(p, piece.len))

Empty == [data |-> <<>>, error |-> FALSE]

(* wlog::wlog: no prefix, "[time] [level] ", or that and "function:line ". *)
Init ==
  /\ pieces \in Starts
  /\ LET b == FoldLeft(LAMBDA c, p : Streamed(c, pieces[p], p), Empty,
                       [p \in DOMAIN pieces |-> p])
     IN data = b.data /\ error = b.error
  /\ done = FALSE

Stream(piece) ==
  LET b == Streamed([data |-> data, error |-> error], piece, Len(pieces) + 1) IN
  /\ ~done
  /\ Len(pieces) < MaxPieces
  /\ pieces' = Append(pieces, piece)
  /\ data' = b.data /\ error' = b.error
  /\ UNCHANGED done

(* wlog::~wlog: the line end, and append of what there is. *)
End ==
  LET b == Write([data |-> data, error |-> error], <<LineEnd>>) IN
  /\ ~done
  /\ data' = b.data /\ error' = b.error
  /\ done' = TRUE
  /\ UNCHANGED pieces

Next == (\E piece \in Pieces : Stream(piece)) \/ End

Spec == Init /\ [][Next]_vars

-----------------------------------------------------------------------------
Whole(P) == FlattenSeq([i \in DOMAIN P |-> Chars(P[i], pieces[P[i]].len)])

(* The pieces of which the line has characters, in order. *)
Kept ==
  LET IsIn(p) == <<p, 1>> \in ToSet(data)
  IN SelectSeq([p \in DOMAIN pieces |-> p], IsIn)

(* A line consists of whole pieces in order; once one of them did not fit   *)
(* no text comes behind it, and without a loss it ends with its line end.   *)
(* Neither a piece nor the 0 after a number is written beside the buffer.   *)
WholePieces ==
  /\ Len(data) <= BufSize
  /\ data \in {Whole(Kept), Whole(Kept) \o <<LineEnd>>}
  /\ \A i \in DOMAIN Kept : LET p == Kept[i] IN
       /\ pieces[p].kind = "text" => i = p
       /\ pieces[p].kind = "number" => Len(Whole(SubSeq(Kept, 1, i))) < BufSize
  /\ done /\ ~error => Kept = [p \in DOMAIN pieces |-> p] /\ Last(data) = LineEnd

(* Each call of the log writes a line of its own. *)
LineEnds == done => data # <<>> /\ Last(data) = LineEnd

(* What is in the line is the beginning of what was streamed. *)
NoHole == Kept = [p \in 1..Len(Kept) |-> p]
=============================================================================
