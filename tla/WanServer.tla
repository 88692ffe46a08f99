------------------------------- MODULE WanServer -------------------------------
(***************************************************************************)
(* The server application: a table of wwan_session, written by the         *)
(* callbacks of the io thread and by the main loop, which counts and       *)
(* handles messages and closes connections without a heartbeat             *)
(* (src/wserver/wwan_server.cpp, wwan_session.cpp, wmain_thread.cpp).      *)
(*                                                                         *)
(* Nothing protects the table: each read or write of a member is a step.   *)
(* The network library is what SessionLifecycle shows it to be with one    *)
(* worker (SessionTable): connections of a slot come one after another,    *)
(* each under a new serial, and each is reported once up and once down.    *)
(* Time is counted in rounds of UPDATE_TIMER (15 s). MsgQueue has the      *)
(* queue in detail.                                                        *)
(***************************************************************************)
EXTENDS Naturals, Sequences, FiniteSets

CONSTANTS
  NumSlots,  (* m_max_session_num                                     *)
  HeartBeat, (* ECI_HeartBeat, in rounds                              *)
  MaxSerial, (* bound: connections of a slot                          *)
  MaxQueue   (* bound: messages in the queue                          *)

WanServerAssumption ==
  /\ NumSlots \in Nat \ {0} /\ HeartBeat \in Nat \ {0}
  /\ MaxSerial \in Nat /\ MaxQueue \in Nat

VARIABLES
  id,       (* m_session_id of each slot: its serial, 0 when not used *)
  timeOut,  (* m_time_out                                             *)
  counted,  (* m_msg_count # 0                                        *)
  active,   (* m_active_session_num                                   *)
  up,       (* the connection the library has in the slot, 0 if none  *)
  serial,   (* serial of the last one                                 *)
  queue,    (* messages of m_msg_queue_ptr: slot and serial of each   *)
  io,       (* the io thread: at, slot, serial                        *)
  main,     (* the main thread: at, slot, serial read, m_time_out read *)
  spoken,   (* connections of which a message was counted             *)
  heard     (* slots of which one was counted since their last check  *)

netVars   == <<up, serial>>
ghostVars == <<spoken, heard>>
vars == <<id, timeOut, counted, active, netVars, queue, io, main, ghostVars>>

Slots  == 0..(NumSlots - 1)
IoIdle == [at |-> "idle", s |-> 0, g |-> 0]
Resting == [at |-> "idle", s |-> 0, g |-> 0, t |-> 0]

Init ==
  /\ id = [s \in Slots |-> 0] /\ timeOut = [s \in Slots |-> 0]
  /\ counted = [s \in Slots |-> FALSE]
  /\ active = 0
  /\ up = [s \in Slots |-> 0] /\ serial = [s \in Slots |-> 0]
  /\ queue = <<>>
  /\ io = IoIdle /\ main = Resting
  /\ spoken = {} /\ heard = {}

-----------------------------------------------------------------------------
(* The io thread. *)

(* on_connect: a slot that is not free refuses. *)
OnConnect(s) ==
  /\ io = IoIdle
  /\ up[s] = 0 /\ serial[s] < MaxSerial
  /\ serial' = [serial EXCEPT ![s] = @ + 1]
  /\ up'     = [up EXCEPT ![s] = serial[s] + 1]
  /\ io' = IF id[s] = 0 THEN [at |-> "set_id", s |-> s, g |-> serial[s] + 1] ELSE IoIdle
  /\ UNCHANGED <<id, timeOut, counted, active, queue, main, ghostVars>>

(* on_connected, member by member. *)
SetId ==
  /\ io.at = "set_id"
  /\ id' = [id EXCEPT ![io.s] = io.g]
  /\ io' = [io EXCEPT !.at = "set_time"]
  /\ UNCHANGED <<timeOut, counted, active, netVars, queue, main, ghostVars>>

SetTime ==
  /\ io.at = "set_time"
  /\ timeOut' = [timeOut EXCEPT ![io.s] = 0]
  /\ active'  = active + 1
  /\ io' = IoIdle
  /\ UNCHANGED <<id, counted, netVars, queue, main, ghostVars>>

(* on_msg_receive. *)
OnMsgReceive(s) ==
  /\ io = IoIdle
  /\ up[s] # 0
  /\ Len(queue) < MaxQueue
  /\ queue' = Append(queue, [s |-> s, g |-> up[s]])
  /\ UNCHANGED <<id, timeOut, counted, active, netVars, io, main, ghostVars>>

(* Mutant: the last active session is not counted down. *)
OneFewerAboveOne == IF active > 1 THEN active - 1 ELSE active

OneFewer == IF active > 0 THEN active - 1 ELSE 0

(* on_disconnect: a connection that is not in the table is only logged. *)
OnDisconnect(s) ==
  /\ io = IoIdle
  /\ up[s] # 0
  /\ up' = [up EXCEPT ![s] = 0]
  /\ IF id[s] = up[s]
     THEN active' = OneFewer /\ io' = [at |-> "clear_id", s |-> s, g |-> up[s]]
     ELSE UNCHANGED <<active, io>>
  /\ UNCHANGED <<id, timeOut, counted, serial, queue, main, ghostVars>>

(* on_disconnected, member by member. *)
ClearId ==
  /\ io.at = "clear_id"
  /\ id' = [id EXCEPT ![io.s] = 0]
  /\ io' = [io EXCEPT !.at = "clear_count"]
  /\ UNCHANGED <<timeOut, counted, active, netVars, queue, main, ghostVars>>

ClearCount ==
  /\ io.at = "clear_count"
  /\ counted' = [counted EXCEPT ![io.s] = FALSE]
  /\ io' = [io EXCEPT !.at = "clear_time"]
  /\ UNCHANGED <<id, timeOut, active, netVars, queue, main, ghostVars>>

ClearTime ==
  /\ io.at = "clear_time"
  /\ timeOut' = [timeOut EXCEPT ![io.s] = 0]
  /\ io' = IoIdle
  /\ UNCHANGED <<id, counted, active, netVars, queue, main, ghostVars>>

-----------------------------------------------------------------------------
(* The main thread: update(). *)

(* _process_msg: a message whose connection is not in the table is dropped. *)
TakeMsg ==
  /\ main = Resting
  /\ queue # <<>>
  /\ queue' = Tail(queue)
  /\ LET m == Head(queue) IN
       main' = IF id[m.s] = m.g
               THEN [at |-> "found", s |-> m.s, g |-> m.g, t |-> 0] ELSE Resting
  /\ UNCHANGED <<id, timeOut, counted, active, netVars, io, ghostVars>>

(* inc_msg and the handler. *)
CountMsg ==
  /\ main.at = "found"
  /\ counted' = [counted EXCEPT ![main.s] = TRUE]
  /\ spoken'  = spoken \cup {[s |-> main.s, g |-> main.g]}
  /\ heard'   = heard \cup {main.s}
  /\ main' = Resting
  /\ UNCHANGED <<id, timeOut, active, netVars, queue, io>>

(* m_update_timer has come to UPDATE_TIMER: go through the slots. *)
StartRound ==
  /\ main = Resting
  /\ main' = [Resting EXCEPT !.at = "is_used"]
  /\ UNCHANGED <<id, timeOut, counted, active, netVars, queue, io, ghostVars>>

NextSlot ==
  main' = IF main.s + 1 \in Slots
          THEN [Resting EXCEPT !.at = "is_used", !.s = main.s + 1] ELSE Resting

IsUsed ==
  /\ main.at = "is_used"
  /\ IF id[main.s] = 0 THEN NextSlot ELSE main' = [main EXCEPT !.at = "load", !.g = id[main.s]]
  /\ UNCHANGED <<id, timeOut, counted, active, netVars, queue, io, ghostVars>>

(* wwan_session::update: m_time_out += delta is a read and a write. *)
LoadTime ==
  /\ main.at = "load"
  /\ main' = [main EXCEPT !.at = "store", !.t = timeOut[main.s]]
  /\ UNCHANGED <<id, timeOut, counted, active, netVars, queue, io, ghostVars>>

StoreTime ==
  /\ main.at = "store"
  /\ timeOut' = [timeOut EXCEPT ![main.s] = main.t + 1]
  /\ main' = [main EXCEPT !.at = "compare", !.t = @ + 1]
  /\ UNCHANGED <<id, counted, active, netVars, queue, io, ghostVars>>

(* The value compared may be the one just computed or one read again. *)
CompareTime ==
  /\ main.at = "compare"
  /\ \E t \in {main.t, timeOut[main.s]} :
       IF t < HeartBeat THEN NextSlot ELSE main' = [main EXCEPT !.at = "zero"]
  /\ UNCHANGED <<id, timeOut, counted, active, netVars, queue, io, ghostVars>>

(* Mutant: the message count is reset before it is looked at. *)
ZeroTimeAndCount ==
  /\ main.at = "zero"
  /\ timeOut' = [timeOut EXCEPT ![main.s] = 0]
  /\ counted' = [counted EXCEPT ![main.s] = FALSE]
  /\ main' = [main EXCEPT !.at = "decide"]
  /\ UNCHANGED <<id, active, netVars, queue, io, ghostVars>>

ZeroTime ==
  /\ main.at = "zero"
  /\ timeOut' = [timeOut EXCEPT ![main.s] = 0]
  /\ main' = [main EXCEPT !.at = "decide"]
  /\ UNCHANGED <<id, counted, active, netVars, queue, io, ghostVars>>

(* A message has been counted, or the connection is to be closed. *)
Decide ==
  /\ main.at = "decide"
  /\ IF counted[main.s] THEN NextSlot ELSE main' = [main EXCEPT !.at = "close"]
  /\ heard' = heard \ {main.s}
  /\ UNCHANGED <<id, timeOut, counted, active, netVars, queue, io, spoken>>

(* close(m_session_id): the library brings the connection down, and says so *)
(* with OnDisconnect, which the peer may cause at any time as well.         *)
Close ==
  /\ main.at = "close"
  /\ NextSlot
  /\ UNCHANGED <<id, timeOut, counted, active, netVars, queue, io, ghostVars>>

-----------------------------------------------------------------------------
IoThread ==
  \/ \E s \in Slots : OnConnect(s) \/ OnMsgReceive(s) \/ OnDisconnect(s)
  \/ SetId \/ SetTime \/ ClearId \/ ClearCount \/ ClearTime

MainThread ==
  \/ TakeMsg \/ CountMsg
  \/ StartRound \/ IsUsed \/ LoadTime \/ StoreTime \/ CompareTime
  \/ ZeroTime \/ Decide \/ Close

Next == IoThread \/ MainThread

Spec == Init /\ [][Next]_vars

-----------------------------------------------------------------------------
Serials == 0..MaxSerial
Conn == [s : Slots, g : 1..MaxSerial]

(* The type of every variable; m_time_out does not run past the limit. *)
TypeOK ==
  /\ id \in [Slots -> Serials]
  /\ timeOut \in [Slots -> 0..HeartBeat]
  /\ counted \in [Slots -> BOOLEAN]
  /\ active \in 0..NumSlots
  /\ up \in [Slots -> Serials] /\ serial \in [Slots -> Serials]
  /\ queue \in Seq(Conn) /\ Len(queue) <= MaxQueue
  /\ io \in [at : {"idle", "set_id", "set_time", "clear_id", "clear_count", "clear_time"},
             s : Slots, g : Serials]
  /\ main \in [at : {"idle", "found", "is_used", "load", "store", "compare", "zero",
                     "decide", "close"},
               s : Slots, g : Serials, t : 0..HeartBeat]
  /\ spoken \subseteq Conn /\ heard \subseteq Slots

(* Between two callbacks the number of active sessions is that of the slots  *)
(* in use, and these hold the connections the library has.                  *)
ActiveExact ==
  io = IoIdle =>
    /\ active = Cardinality({s \in Slots : id[s] # 0})
    /\ id = up

(* The heartbeat check never closes a connection of which a message has been *)
(* counted, however the callbacks interleave with it.                       *)
SpeakersKept ==
  main.at = "close" => [s |-> main.s, g |-> id[main.s]] \notin spoken

(* "without a heartbeat disconnect": a connection that the check lets pass   *)
(* has sent something since the check before.                               *)
SilentClosed ==
  main.at = "decide" /\ id[main.s] = main.g /\ counted[main.s] => main.s \in heard

(* The same the other way round: the connection that is closed is the one    *)
(* whose time is up.                                                        *)
FreshKept ==
  main.at = "close" => id[main.s] \in {main.g, 0}
=============================================================================
