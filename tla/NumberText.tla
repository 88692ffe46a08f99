------------------------------- MODULE NumberText -------------------------------
(***************************************************************************)
(* Integers as text: int2str_dec, int2str_hex, byte2hex                    *)
(* (src/wlib/wint2str.cpp) and wMD5::bytesToHexString (src/wlib/wmd5.cpp). *)
(*                                                                         *)
(* A template is modelled for the two types of one width, signed and       *)
(* unsigned; a text is the sequence of its characters.                     *)
(***************************************************************************)
EXTENDS Integers, Sequences, SequencesExt

CONSTANT Half   (* 2^(width - 1): the least signed value is -Half *)

NumberTextAssumption == Half \in Nat \ {0}

VARIABLE value

Signed   == (-Half)..(Half - 1)
Unsigned == 0..(2 * Half - 1)

Init == value = -Half

Next == value < 2 * Half - 1 /\ value' = value + 1

Spec == Init /\ [][Next]_value

-----------------------------------------------------------------------------
(* / and % of C++ round towards zero. *)
Quotient(a, b)  == IF a >= 0 THEN a \div b ELSE -((-a) \div b)
Remainder(a, b) == a - b * Quotient(a, b)

DecDigits == <<"9", "8", "7", "6", "5", "4", "3", "2", "1", "0",
               "1", "2", "3", "4", "5", "6", "7", "8", "9">>
HexDigits == <<"0", "1", "2", "3", "4", "5", "6", "7",
               "8", "9", "A", "B", "C", "D", "E", "F">>

(* Mutant: the table has no digits for negative remainders. *)
DecDigitFromZero(d) == IF d < 0 THEN "0" ELSE DecDigits[10 + d]

(* s_dec_zero[lsd]; "?" stands for what is beside the table. *)
DecDigit(d) == DecDigits[10 + d]
HexDigit(d) == IF d < 0 THEN "?" ELSE HexDigits[1 + d]

(* The loops, least digit first. *)
DecLoop[i \in Signed \cup Unsigned] ==
  <<DecDigit(Remainder(i, 10))>> \o (IF Quotient(i, 10) = 0 THEN <<>> ELSE DecLoop[Quotient(i, 10)])

HexLoop[i \in Signed \cup Unsigned] ==
  <<HexDigit(Remainder(i, 16))>> \o (IF Quotient(i, 16) = 0 THEN <<>> ELSE HexLoop[Quotient(i, 16)])

Dec(v) == Reverse(DecLoop[v] \o (IF v < 0 THEN <<"-">> ELSE <<>>))

(* The signed types but plain char are converted to the unsigned ones. *)
Hex(v)      == Reverse(HexLoop[v % (2 * Half)])
HexOfChar(v) == Reverse(HexLoop[v])

(* Two digits for each byte; wMD5 has the letters in lower case. *)
BytesHex(bytes) ==
  FlattenSeq([i \in DOMAIN bytes |->
                <<HexDigit(bytes[i] \div 16), HexDigit(bytes[i] % 16)>>])

-----------------------------------------------------------------------------
(* The number that a text of digits is in a base, read from the left. *)
Read(digits, base) ==
  LET ValueOf(c) == CHOOSE d \in 0..15 : HexDigits[d + 1] = c
  IN FoldLeft(LAMBDA n, c : n * base + ValueOf(c), 0, digits)

Numeral(digits, base) ==
  /\ digits # <<>>
  /\ \A i \in DOMAIN digits : \E d \in 1..base : HexDigits[d] = digits[i]
  /\ digits[1] = "0" => Len(digits) = 1

(* The text of a number is its one numeral, with a minus sign if it is less  *)
(* than 0, also for the least value of a type, which has no opposite; in    *)
(* base 16 it is that of its bits, and two bytes one after the other read   *)
(* as the number they make.                                                 *)
ReadsAsWritten ==
  /\ IF value < 0
     THEN /\ Dec(value)[1] = "-"
          /\ Numeral(Tail(Dec(value)), 10) /\ -Read(Tail(Dec(value)), 10) = value
     ELSE Numeral(Dec(value), 10) /\ Read(Dec(value), 10) = value
  /\ Numeral(Hex(value), 16)
  /\ Read(Hex(value), 16) = IF value < 0 THEN value + 2 * Half ELSE value
  /\ value \in 0..255 =>
       \A b \in {0, 15, 255} :
         Len(BytesHex(<<b, value>>)) = 4 /\ Read(BytesHex(<<b, value>>), 16) = 256 * b + value

(* A char below 0 has a text in base 16 as well. *)
CharHasHex == value \in Signed => Numeral(HexOfChar(value), 16)
=============================================================================
