------------------------------ MODULE MsgHandler ------------------------------
(***************************************************************************)
(* The table of message handlers and the dispatch of a message over it     *)
(* (src/wlib/wmsg_handler.h; _process_msg of src/wserver/wwan_server.cpp   *)
(* and src/wclient/wwan_client.cpp; wmsg_dispatch.cpp of both).            *)
(*                                                                         *)
(* A status is a mask: the set of its bits.                                *)
(***************************************************************************)
EXTENDS Naturals

CONSTANTS
  Ids,      (* message ids: an interval             *)
  Handlers, (* member functions of the session      *)
  Bits      (* bits of a status                     *)

MsgHandlerAssumption ==
  /\ Ids \subseteq Nat
  /\ Handlers \cap {"none", "unknown", "invalid status", "nothing"} = {}

VARIABLES
  table,      (* m_handlers, over the ids from m_min_msg_id to m_max_msg_id *)
  registered, (* what register_msg has returned true for, since init        *)
  last        (* the dispatch before this state: message, status, result    *)

vars == <<table, registered, last>>

Entry  == [status : SUBSET Bits, handler : Handlers \cup {"none"}]
NoLast == [id |-> 0, status |-> {}, result |-> "nothing"]

Init ==
  /\ table = [i \in {} |-> {}]
  /\ registered = {}
  /\ last = NoLast

(* init: the ids from min up to max, which is not one of them. *)
InitTable(min, max) ==
  /\ min < max
  /\ table' = [i \in {j \in Ids : min <= j /\ j < max} |-> [status |-> {}, handler |-> "none"]]
  /\ registered' = {}
  /\ last' = NoLast

Destroy ==
  /\ table' = [i \in {} |-> {}]
  /\ registered' = {}
  /\ last' = NoLast

FreeEntry(id) == id \in DOMAIN table /\ table[id].handler = "none"

(* register_msg; where it returns false nothing changes. *)
RegisterMsg(id, h, status) ==
  /\ FreeEntry(id)
  /\ table' = [table EXCEPT ![id] = [status |-> status, handler |-> h]]
  /\ registered' = registered \cup {<<id, h, status>>}
  /\ last' = NoLast

(* Mutant: the mask must have every bit of the status, and 0 is no exception. *)
AllowedInAll(e, status) == status \subseteq e.status

Allowed(e, status) == e.status = {} \/ e.status \cap status # {}

(* get_handler and the call of _process_msg. *)
Result(id, status) ==
  IF id \notin DOMAIN table THEN "unknown"
  ELSE IF Allowed(table[id], status) THEN table[id].handler ELSE "invalid status"

Dispatch(id, status) ==
  /\ last' = [id |-> id, status |-> status, result |-> Result(id, status)]
  /\ UNCHANGED <<table, registered>>

Next ==
  \/ \E min, max \in Ids : InitTable(min, max)
  \/ Destroy
  \/ \E id \in Ids, status \in SUBSET Bits :
       Dispatch(id, status) \/ \E h \in Handlers : RegisterMsg(id, h, status)

Spec == Init /\ [][Next]_vars

-----------------------------------------------------------------------------
(* The type of every variable; an id is registered once. *)
TypeOK ==
  /\ DOMAIN table \subseteq Ids /\ \A i \in DOMAIN table : table[i] \in Entry
  /\ \A r, q \in registered : r[1] = q[1] => r = q
  /\ last.result \in Handlers \cup {"none", "unknown", "invalid status", "nothing"}

(* A message runs the handler it was registered with, in a status its       *)
(* registration admits; and one that is refused for its status was          *)
(* registered for another.                                                  *)
RanAsRegistered ==
  LET Admits(r) == r[1] = last.id /\ (r[3] = {} \/ r[3] \cap last.status # {}) IN
    /\ last.result \in Handlers => \E r \in registered : Admits(r) /\ r[2] = last.result
    /\ last.result = "invalid status" =>
         \E r \in registered : r[1] = last.id /\ ~Admits(r)

(* "unknown msg_id": a message nobody has registered is logged, and no      *)
(* handler is called for it.                                                *)
UnknownIsLogged ==
  last # NoLast /\ (\A r \in registered : r[1] # last.id) => last.result = "unknown"
=============================================================================
