------------------------------ MODULE ServerLife ------------------------------
(***************************************************************************)
(* The life of the server process: what is built, started, stopped and     *)
(* destroyed, in which order, while the io threads run                     *)
(* (src/wserver/main.cpp, wmain_thread.cpp, wwan_server.cpp,               *)
(* src/wlib/wnet_server.cpp). main.cpp calls destroy() after a failed      *)
(* init() as well.                                                         *)
(***************************************************************************)
EXTENDS ProcessLife

vars == <<main, built, stop, ioVars, place, missed>>

Init == Beginning

-----------------------------------------------------------------------------
(* wmain_thread::init. *)

InitLog == Builds("init_log", {"log"}, "init_cfg")

InitCfg ==
  \/ Builds("init_cfg", {"cfg"}, "init_net")
  \/ "init_cfg" \in MayFail /\ Builds("init_cfg", {}, "shutdown")

(* The checks of wnet_session_mgr::init fail before the pool is made. *)
InitServer ==
  \/ Builds("init_net", {"net", "pool", "sessions", "table", "queue"}, "init_handlers")
  \/ "init_net" \in MayFail /\ Builds("init_net", {"net"}, "shutdown")

InitHandlers == Builds("init_handlers", {"handlers"}, "start")

(* wwan_server::start takes no notice of what startup() returns; an address  *)
(* that cannot be parsed throws.                                             *)
Start ==
  /\ main = "start"
  /\ \/ /\ listening' = TRUE
        /\ worker' = [w \in Workers |-> "run"]
        /\ main' = "work"
     \/ /\ "start" \in MayFail
        /\ main' \in {"work", "shutdown"}
        /\ UNCHANGED <<listening, worker>>
  /\ UNCHANGED <<built, stop, ioStopped, place, missed>>

-----------------------------------------------------------------------------
(* The main loop. *)

Update == main = "work" /\ ~stop /\ main' = "update" /\ TakeQueue

HandleNext == main = "update" /\ \E b \in Blocks : HandleMsg(b, TRUE)

UpdateEnds == In("main") = {} /\ Builds("update", {}, "work")

LeaveLoop == stop /\ Builds("work", {}, "shutdown")

-----------------------------------------------------------------------------
(* wmain_thread::destroy. *)

(* wwan_server::shutdown goes through m_server_ptr without a look at it. *)
Shutdown ==
  /\ main = "shutdown"
  /\ Use("main", {"net"})
  /\ main' = IF "net" \in built THEN "stop_io" ELSE "crashed"
  /\ listening' = FALSE
  /\ UNCHANGED <<built, stop, ioStopped, worker, place>>

DestroyTable == TakesApart("destroy_table", {"table"}, "clear_queue")

(* The dispatcher, the configuration and, the last, the log. *)
DestroyRest == "log" \in built /\ TakesApart("destroy_rest", Things, "ended")

-----------------------------------------------------------------------------
MainThread ==
  \/ InitLog \/ InitCfg \/ InitServer \/ InitHandlers \/ Start
  \/ Update \/ HandleNext \/ UpdateEnds \/ LeaveLoop
  \/ Shutdown \/ ManagerEnds \/ DestroyTable \/ DestroyRest

Next == StopMain \/ MainThread \/ \E w \in Workers : IoThread(w)

(* Every thread is scheduled; nobody has to send a signal. *)
Fairness == WF_vars(MainThread) /\ \A w \in Workers : WF_vars(IoThread(w))

Spec == Init /\ [][Next]_vars /\ Fairness

-----------------------------------------------------------------------------
Stages ==
  EndStages \cup {"init_log", "init_cfg", "init_net", "init_handlers", "start", "work", "update"}

(* The type of every variable; the chain that _process_msg took is its own. *)
TypeOK ==
  /\ CommonTypeOK
  /\ main \in Stages
  /\ In("main") # {} => main = "update"

(* After the signal the main thread comes to its end and does not hang in a *)
(* join: io_service::stop ends every run().                                 *)
StopEnds == stop ~> main \in {"ended", "crashed"}

(* "init ok": the server works with its port open. *)
WorkIsListening == main \in {"work", "update"} => listening
=============================================================================
