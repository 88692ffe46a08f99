------------------------------- MODULE MainLoop -------------------------------
(***************************************************************************)
(* The clock of the main loop and the heart beat of a connection that      *)
(* sends nothing (src/wserver/wmain_thread.cpp, wwan_server.cpp,           *)
(* wwan_session.cpp, src/wlib/wtime_elapse.h, wtime_api.cpp).              *)
(*                                                                         *)
(* Real time runs in the unit of the clock that get_time_ms reads, of      *)
(* which a millisecond has PerMs; only the time since the last reading is  *)
(* kept. The loop reads the clock twice a turn, and only what the first    *)
(* reading gives is handed to update(). A sleep takes as long as asked.    *)
(***************************************************************************)
EXTENDS Naturals

CONSTANTS
  PerMs,       (* units of the clock in a millisecond: 1000             *)
  Tick,        (* TICK_TIME                                             *)
  UpdateTimer, (* UPDATE_TIMER                                          *)
  HeartBeat,   (* ECI_HeartBeat                                         *)
  Modulus,     (* 2^32                                                  *)
  Work,        (* bound: what one update() may take, in clock units     *)
  MaxAge       (* bound: the age of a connection is not counted further *)

MainLoopAssumption ==
  /\ {PerMs, Tick, UpdateTimer, HeartBeat, Modulus} \subseteq Nat \ {0}
  /\ Work \subseteq Nat /\ MaxAge \in Nat

VARIABLES
  at,      (* where the loop is: read, update, sleep                       *)
  since,   (* time since the clock was read last                           *)
  delta,   (* uDelta                                                       *)
  timer,   (* m_update_timer                                               *)
  timeOut, (* m_time_out of the connection                                 *)
  state,   (* of the connection: none, up, closed                          *)
  age      (* how long it has been up                                      *)

vars == <<at, since, delta, timer, timeOut, state, age>>

Init ==
  /\ at = "read" /\ since = 0 /\ delta = 0 /\ timer = 0
  /\ timeOut = 0 /\ state = "none" /\ age = 0

Lesser(a, b) == IF a < b THEN a ELSE b

Pass(time) ==
  /\ since' = since + time
  /\ age' = IF state = "up" THEN Lesser(age + time, MaxAge) ELSE age

(* wwan_server::on_connect, from the io thread. *)
Connect ==
  /\ state = "none"
  /\ state' = "up" /\ timeOut' = 0 /\ age' = 0
  /\ UNCHANGED <<at, since, delta, timer>>

(* The first get_elapse of a turn. *)
ReadClock ==
  /\ at = "read"
  /\ delta' = since /\ since' = 0
  /\ at' = "update"
  /\ UNCHANGED <<timer, timeOut, state, age>>

(* Mutant: the limit itself is not yet over it. *)
LimitNotOver ==
  IF timeOut + UpdateTimer <= HeartBeat + UpdateTimer
  THEN timeOut' = timeOut + UpdateTimer /\ state' = state
  ELSE timeOut' = 0 /\ state' = "closed"

(* Mutant: m_time_out is set to the time of this round. *)
OnlyThisRound ==
  IF UpdateTimer < HeartBeat
  THEN timeOut' = UpdateTimer /\ state' = state
  ELSE timeOut' = 0 /\ state' = "closed"

(* wwan_session::update of the connection, of which no message was counted. *)
UpdateSession ==
  IF timeOut + UpdateTimer < HeartBeat
  THEN timeOut' = timeOut + UpdateTimer /\ state' = state
  ELSE timeOut' = 0 /\ state' = "closed"

(* wwan_server::update: one round at the most. *)
Update ==
  /\ at = "update"
  /\ LET t == (timer + delta) % Modulus IN
       IF t < UpdateTimer THEN timer' = t /\ UNCHANGED <<timeOut, state>>
       ELSE /\ timer' = t - UpdateTimer
            /\ IF state = "up" THEN UpdateSession ELSE UNCHANGED <<timeOut, state>>
  /\ \E time \in Work : Pass(time)
  /\ at' = "sleep"
  /\ UNCHANGED delta

(* The second get_elapse, and the rest of the tick in milliseconds. *)
Sleep ==
  /\ at = "sleep"
  /\ delta' = since
  /\ LET rest == IF since < Tick THEN (Tick - since) * PerMs ELSE 0 IN
       /\ since' = rest
       /\ age' = IF state = "up" THEN Lesser(age + rest, MaxAge) ELSE age
  /\ at' = "read"
  /\ UNCHANGED <<timer, timeOut, state>>

Loop == ReadClock \/ Update \/ Sleep

Next == Connect \/ Loop

(* The main thread is scheduled. *)
Spec == Init /\ [][Next]_vars /\ WF_vars(Loop)

-----------------------------------------------------------------------------
(* The type of every variable: m_time_out stays below the limit. *)
TypeOK ==
  /\ at \in {"read", "update", "sleep"}
  /\ since \in Nat /\ delta \in Nat
  /\ timer \in 0..(Modulus - 1)
  /\ timeOut \in 0..(HeartBeat - 1)
  /\ state \in {"none", "up", "closed"}
  /\ age \in 0..MaxAge

(* A connection that sends nothing is closed at last, although what the     *)
(* clock gives overruns m_update_timer, which wraps. It takes updates short *)
(* enough for the loop to sleep: the time of a longer one is lost.          *)
SilentIsClosed == state = "up" ~> state = "closed"

(* "in seconds": heart_beat is what a silent connection has, less the one   *)
(* round that may have been under way when it came.                         *)
HasItsHeartBeat == state = "closed" => age >= (HeartBeat - UpdateTimer) * PerMs
=============================================================================
