------------------------------ MODULE ClientLife ------------------------------
(***************************************************************************)
(* The life of the client process (src/wclient/main.cpp, wmain_thread.cpp, *)
(* wwan_client.cpp, src/wlib/wnet_client.cpp). The main thread reads lines *)
(* and sends them on session 0, a thread of its own calls update(), and    *)
(* both are gone before the client is taken apart.                         *)
(***************************************************************************)
EXTENDS ProcessLife

VARIABLES
  updateStop, (* m_update_thread_stop                                  *)
  updater     (* the update thread: none, loop, update, leave, ended   *)

vars == <<main, built, stop, ioVars, place, missed, updateStop, updater>>

Init == Beginning /\ updateStop = FALSE /\ updater = "none"

-----------------------------------------------------------------------------
(* wmain_thread::init. *)

InitLog == Builds("init_log", {"log"}, "init_cfg")

InitCfg ==
  \/ Builds("init_cfg", {"cfg"}, "init_net")
  \/ "init_cfg" \in MayFail /\ Builds("init_cfg", {}, "shutdown")

InitClient ==
  \/ Builds("init_net", {"net", "pool", "sessions", "table", "queue"}, "init_handlers")
  \/ "init_net" \in MayFail /\ Builds("init_net", {"net"}, "shutdown")

InitHandlers == Builds("init_handlers", {"handlers"}, "start")

(* wwan_client::start: the io threads run when connect_to is called, which   *)
(* throws on an address that cannot be parsed.                               *)
Start ==
  /\ main = "start"
  /\ worker' = [w \in Workers |-> "run"]
  /\ \/ listening' = TRUE /\ main' = "spawn"
     \/ "start" \in MayFail /\ main' = "shutdown" /\ UNCHANGED listening
  /\ UNCHANGED <<built, stop, ioStopped, place, missed>>

Spawn ==
  /\ Builds("spawn", {}, "prompt")
  /\ updater' = "loop" /\ UNCHANGED updateStop

-----------------------------------------------------------------------------
(* work(): _process_input looks at m_stop between two lines. *)

Prompt == ~stop /\ Builds("prompt", {}, "getline")

(* A line, or the end of the input; nobody has to type one. *)
Line ==
  /\ main = "getline"
  /\ main' \in {"send", "prompt"}
  /\ UNCHANGED <<built, stop, ioVars, place, missed>>

(* The line goes out on session 0, or waits for room in its send buffer. *)
Send ==
  /\ main = "send" /\ main' = "prompt"
  /\ Use("main", {"table", "net", "sessions", "pool"})
  /\ \E wait \in {{}} \cup {{b} : b \in In("free")} : Move(wait, "wait")
  /\ UNCHANGED <<built, stop, ioVars>>

LeaveInput ==
  /\ stop /\ Builds("prompt", {}, "join_update")
  /\ updateStop' = TRUE /\ UNCHANGED updater

JoinUpdate == updater = "ended" /\ Builds("join_update", {}, "shutdown")

-----------------------------------------------------------------------------
(* _update_thread. *)

Update ==
  /\ updater = "loop" /\ ~updateStop
  /\ updater' = "update"
  /\ main' = main /\ TakeQueue

(* handle_test does not answer. *)
HandleNext == updater = "update" /\ (\E b \in Blocks : HandleMsg(b, FALSE)) /\ UNCHANGED updater

UpdateEnds ==
  /\ \/ updater = "update" /\ In("main") = {} /\ updater' = "loop"
     \/ updater = "loop" /\ updateStop /\ updater' = "leave"
  /\ UNCHANGED <<main, built, stop, ioVars, place, missed>>

UpdaterLeaves ==
  /\ updater = "leave"
  /\ Use("update", {"log"})
  /\ updater' = "ended"
  /\ UNCHANGED <<main, built, stop, ioVars, place>>

-----------------------------------------------------------------------------
(* wmain_thread::destroy. *)

(* wwan_client::shutdown goes through m_client_ptr without a look at it. *)
Shutdown ==
  /\ main = "shutdown"
  /\ Use("main", {"net"})
  /\ main' = IF "net" \in built THEN "stop_io" ELSE "crashed"
  /\ UNCHANGED <<built, stop, ioVars, place>>

DestroyTable == TakesApart("destroy_table", {"table"}, "clear_queue")

DestroyRest == "log" \in built /\ TakesApart("destroy_rest", Things, "ended")

-----------------------------------------------------------------------------
MainThread ==
  \/ Spawn \/ LeaveInput
  \/ /\ \/ InitLog \/ InitCfg \/ InitClient \/ InitHandlers \/ Start
        \/ Prompt \/ Send \/ JoinUpdate
        \/ Shutdown \/ ManagerEnds \/ DestroyTable \/ DestroyRest
     /\ UNCHANGED <<updateStop, updater>>

UpdateThread ==
  (Update \/ HandleNext \/ UpdateEnds \/ UpdaterLeaves) /\ main # "crashed" /\ UNCHANGED updateStop

Next ==
  \/ MainThread \/ UpdateThread
  \/ (StopMain \/ Line \/ \E w \in Workers : IoThread(w)) /\ UNCHANGED <<updateStop, updater>>

(* Every thread is scheduled; nobody has to send a signal or type a line. *)
Fairness ==
  /\ WF_vars(MainThread) /\ WF_vars(UpdateThread)
  /\ \A w \in Workers : WF_vars(IoThread(w) /\ UNCHANGED <<updateStop, updater>>)

Spec == Init /\ [][Next]_vars /\ Fairness

-----------------------------------------------------------------------------
Stages ==
  EndStages \cup {"init_log", "init_cfg", "init_net", "init_handlers", "start", "spawn",
                  "prompt", "getline", "send", "join_update"}

(* The type of every variable; the chain that _process_msg took is that of   *)
(* the update thread, which is gone when the client is taken apart.          *)
TypeOK ==
  /\ CommonTypeOK
  /\ main \in Stages
  /\ updateStop \in BOOLEAN
  /\ updater \in {"none", "loop", "update", "leave", "ended"}
  /\ In("main") # {} => updater = "update"
  /\ main \in EndStages => updater \in {"none", "ended"}

(* A client that is told to stop comes to its end, unless it waits for a     *)
(* line: whoever reads is not woken by the signal.                           *)
StopEnds == stop /\ main # "getline" ~> main \in {"getline", "ended", "crashed"}

(* The same without the line. *)
StopSeen == stop ~> main \in {"ended", "crashed"}
=============================================================================
