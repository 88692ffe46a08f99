----------------------------- MODULE SessionTable -----------------------------
(***************************************************************************)
(* What the net layer promises the application about the slots of its      *)
(* session table (wwan_server.h: m_session_ptr): connects and disconnects  *)
(* of a slot alternate, each under the next serial, and a disconnect names *)
(* the connection that was announced.                                      *)
(***************************************************************************)
EXTENDS Naturals

CONSTANTS Sessions, MaxGuid, Nil

VARIABLES
  table,   (* the serial the application knows for each slot, or Nil *)
  serial   (* the serial of the slot's current or next connection    *)

Init ==
  /\ table  = [s \in Sessions |-> Nil]
  /\ serial = [s \in Sessions |-> 1]

Connect(s) ==
  /\ table[s] = Nil
  /\ table' = [table EXCEPT ![s] = serial[s]]
  /\ UNCHANGED serial

Disconnect(s) ==
  /\ table[s] = serial[s]
  /\ table'  = [table EXCEPT ![s] = Nil]
  /\ serial' = [serial EXCEPT ![s] = (@ % MaxGuid) + 1]

Next == \E s \in Sessions : Connect(s) \/ Disconnect(s)

Spec == Init /\ [][Next]_<<table, serial>>
=============================================================================
