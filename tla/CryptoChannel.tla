----------------------------- MODULE CryptoChannel -----------------------------
(***************************************************************************)
(* Encrypted messages of a session: RC4 at both ends of a connection, each *)
(* with its own state, which encrypt_send_msg moves on before it knows     *)
(* whether the message can be sent (src/wlib/wrc4.cpp, wcrypto.cpp,        *)
(* src/wserver/wwan_session.cpp, src/wclient/wclient_session.cpp).         *)
(*                                                                         *)
(* One direction is modelled, with one thread that sends. How the two ends *)
(* agree on a key is up to the application: they set it while nothing is   *)
(* under way. The connection between them keeps the order.                 *)
(***************************************************************************)
EXTENDS Integers, Sequences, FiniteSets

CONSTANTS
  Size,    (* number of values of a byte: 256        *)
  Keys,    (* keys: sequences of bytes               *)
  Texts,   (* bound: the messages that are sent      *)
  MaxSent, (* bound: messages sent on a connection   *)
  MaxWire  (* bound: messages under way              *)

CryptoChannelAssumption ==
  /\ Size \in {1, 2, 4, 8, 16, 32, 64, 128, 256}
  /\ Keys \subseteq Seq(0..(Size - 1)) \ {<<>>} /\ Texts \subseteq Seq(0..(Size - 1))
  /\ MaxSent \in Nat /\ MaxWire \in Nat

VARIABLES
  encrypt,  (* m_encrypt_key of the sender, "off" while m_crypto_flag is false  *)
  decrypt,  (* m_decrypt_key of the receiver                                   *)
  wire,     (* what is under way                                               *)
  sent,     (* the messages send_msg took, since the keys were set             *)
  received, (* the messages as the receiver reads them                         *)
  refused   (* send_msg has refused an encrypted message since then            *)

vars == <<encrypt, decrypt, wire, sent, received, refused>>

Bytes == 0..(Size - 1)
Off   == [s |-> <<>>, x |-> 0, y |-> 0]

Swap(s, i, j) == [s EXCEPT ![i] = s[j], ![j] = s[i]]

-----------------------------------------------------------------------------
(* The permutation that a key makes of the bytes in their order. *)
KeySchedule(key) ==
  LET f[i \in 0..Size] ==
        IF i = 0 THEN [s |-> [b \in Bytes |-> b], j |-> 0]
        ELSE LET s == f[i - 1].s
                 j == (f[i - 1].j + s[i - 1] + key[((i - 1) % Len(key)) + 1]) % Size
             IN  [s |-> Swap(s, i - 1, j), j |-> j]
  IN  f[Size].s

(* wRC4::set_key. *)
SetKey(key) == [s |-> KeySchedule(key), x |-> 0, y |-> 0]

(* The state after r bytes, and the byte of the key stream at that place. *)
Step(rc) ==
  LET x == (rc.x + 1) % Size
      y == (rc.y + rc.s[x]) % Size
  IN  [s |-> Swap(rc.s, x, y), x |-> x, y |-> y]

StreamByte(rc) == rc.s[(rc.s[rc.x] + rc.s[rc.y]) % Size]

(* The exclusive or of two bytes, bit by bit. *)
Xor(a, b) ==
  LET Bit(w) == w * ((a \div w + b \div w) % 2)
  IN  Bit(1) + Bit(2) + Bit(4) + Bit(8) + Bit(16) + Bit(32) + Bit(64) + Bit(128)

(* wRC4::process: what is written out, and the state it leaves. *)
Process(rc, text) ==
  LET after[r \in 0..Len(text)] == IF r = 0 THEN rc ELSE Step(after[r - 1])
  IN  [out |-> [r \in 1..Len(text) |-> Xor(text[r], StreamByte(after[r]))],
       rc  |-> after[Len(text)]]

(* encrypt and decrypt of a session: without a key, or of nothing, they do  *)
(* nothing, and the data are used as they are.                              *)
Through(rc, text) ==
  IF rc = Off \/ text = <<>> THEN [out |-> text, rc |-> rc] ELSE Process(rc, text)

-----------------------------------------------------------------------------
Init ==
  /\ encrypt = Off /\ decrypt = Off
  /\ wire = <<>> /\ sent = <<>> /\ received = <<>>
  /\ refused = FALSE

(* set_encrypt_key of both ends. *)
SetKeys(key) ==
  /\ wire = <<>>
  /\ encrypt' = SetKey(key) /\ decrypt' = SetKey(key)
  /\ sent' = <<>> /\ received' = <<>> /\ refused' = FALSE
  /\ UNCHANGED wire

(* Mutant: a message is encrypted with a copy of the state, which does not move on. *)
EncryptWithCopy(text, taken) ==
  LET t == Through(encrypt, text) IN
    /\ encrypt' = encrypt
    /\ IF taken /\ text # <<>> THEN wire' = Append(wire, t.out) /\ sent' = Append(sent, text)
                               ELSE UNCHANGED <<wire, sent>>
    /\ refused' = refused

(* encrypt_send_msg; an empty message is always refused, without a change. *)
EncryptSend(text, taken) ==
  LET t == Through(encrypt, text) IN
    /\ encrypt' = t.rc
    /\ IF taken /\ text # <<>>
       THEN wire' = Append(wire, t.out) /\ sent' = Append(sent, text) /\ refused' = refused
       ELSE /\ UNCHANGED <<wire, sent>>
            /\ refused' = (refused \/ t.rc # encrypt)

(* Bound: one refused message. *)
EncryptSendMsg(text, taken) ==
  /\ Len(sent) < MaxSent /\ Len(wire) < MaxWire
  /\ taken \/ ~refused
  /\ EncryptSend(text, taken)
  /\ UNCHANGED <<decrypt, received>>

(* A handler of the receiver decrypts its message. *)
Receive ==
  /\ wire # <<>>
  /\ LET t == Through(decrypt, Head(wire)) IN
       decrypt' = t.rc /\ received' = Append(received, t.out)
  /\ wire' = Tail(wire)
  /\ UNCHANGED <<encrypt, sent, refused>>

(* on_disconnected of both ends. *)
Disconnect ==
  /\ encrypt' = Off /\ decrypt' = Off
  /\ wire' = <<>> /\ sent' = <<>> /\ received' = <<>>
  /\ refused' = FALSE

Next ==
  \/ \E key \in Keys : SetKeys(key)
  \/ \E text \in Texts, taken \in BOOLEAN : EncryptSendMsg(text, taken)
  \/ Receive
  \/ Disconnect

Spec == Init /\ [][Next]_vars

-----------------------------------------------------------------------------
Rc4 == [s : [Bytes -> Bytes], x : Bytes, y : Bytes]

Permutes(rc) == Cardinality({rc.s[b] : b \in Bytes}) = Size

(* The type of every variable; m_data is a permutation of the bytes. *)
TypeOK ==
  /\ \A rc \in {encrypt, decrypt} \ {Off} : rc \in Rc4 /\ Permutes(rc)
  /\ wire \in Seq(Texts \cup Seq(Bytes)) /\ Len(wire) <= MaxWire
  /\ sent \in Seq(Texts) /\ Len(sent) <= MaxSent
  /\ received \in Seq(Seq(Bytes))
  /\ refused \in BOOLEAN

(* What the receiver reads is what was sent, in order, with and without a   *)
(* key and over reconnections, as long as send_msg has taken every message  *)
(* it was given: a refused one has moved the sender's key stream on.        *)
ReadAsSent ==
  ~refused => received = SubSeq(sent, 1, Len(received))
=============================================================================
