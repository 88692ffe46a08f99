------------------------------ MODULE ProcessLife ------------------------------
(***************************************************************************)
(* What the life of the server process and that of the client have in      *)
(* common: a session manager with its io threads, and message blocks that  *)
(* are somewhere between a session, the queue and update()                 *)
(* (src/wlib/wnet_session_mgr.cpp, wnet_session.cpp, wnet_msg_queue.cpp).  *)
(*                                                                         *)
(* One session stands for all of them. A use of a thing that is not there  *)
(* is recorded in missed: through a null pointer it ends the process,      *)
(* through a dangling one it may.                                          *)
(***************************************************************************)
EXTENDS Naturals, FiniteSets

CONSTANTS
  Workers, (* io threads                                *)
  Blocks,  (* blocks of the memory pool                 *)
  MayFail  (* steps of the initialisation that may fail *)

InitSteps == {"init_cfg", "init_net", "start"}

ProcessLifeAssumption ==
  Workers # {} /\ IsFiniteSet(Workers) /\ IsFiniteSet(Blocks) /\ MayFail \subseteq InitSteps

VARIABLES
  main,      (* where the main thread is                                *)
  built,     (* the things that exist                                   *)
  stop,      (* wmain_thread::m_stop                                    *)
  listening, (* connections can come: the acceptor is open; of a client,
                connect_to has been called                              *)
  ioStopped, (* io_service::stopped                                     *)
  worker,    (* what each io thread does: none, run, a handler, ended   *)
  place,     (* where each block is                                     *)
  missed     (* <<user, thing>>: uses of things that were not there     *)

ioVars == <<listening, ioStopped, worker>>

(* "net" is the wnet_server or wnet_client, "table" the application's array. *)
Things   == {"log", "cfg", "net", "pool", "sessions", "table", "queue", "handlers"}
Handlers == {"connect", "read", "disconnect"}

In(p) == {b \in Blocks : place[b] = p}

Beginning ==
  /\ main = "init_log"
  /\ built = {}
  /\ stop = FALSE
  /\ listening = FALSE /\ ioStopped = FALSE
  /\ worker = [w \in Workers |-> "none"]
  /\ place = [b \in Blocks |-> "free"]
  /\ missed = {}

Use(user, things) == missed' = missed \cup {<<user, t>> : t \in things \ built}

Move(blocks, p) == place' = [b \in Blocks |-> IF b \in blocks THEN p ELSE place[b]]

(* A step of the main thread that builds something, or takes it apart. *)
Builds(from, things, to) ==
  /\ main = from /\ main' = to
  /\ built' = built \cup things
  /\ UNCHANGED <<stop, ioVars, place, missed>>

TakesApart(from, things, to) ==
  /\ main = from /\ main' = to
  /\ built' = built \ things
  /\ UNCHANGED <<stop, ioVars, place, missed>>

(* SIGINT or SIGTERM. *)
StopMain ==
  /\ ~stop
  /\ main \notin {"ended", "crashed"}
  /\ stop' = TRUE
  /\ UNCHANGED <<main, built, ioVars, place, missed>>

-----------------------------------------------------------------------------
(* An io thread: run() hands it handlers until the service is stopped. *)

BeginHandler(w, h) ==
  /\ worker[w] = "run" /\ ~ioStopped
  /\ h = "connect" => listening
  /\ worker' = [worker EXCEPT ![w] = h]
  /\ UNCHANGED <<main, built, stop, listening, ioStopped, place, missed>>

HandlerUses ==
  [connect |-> {"sessions", "table", "log"}, read |-> {"sessions", "pool", "queue"},
   disconnect |-> {"sessions", "pool", "table", "log"}]

(* A read fills m_msg_ptr with a block from the pool, or hands it over; a   *)
(* closed session gives back what waits to be sent, and keeps m_msg_ptr.    *)
Effect(h) ==
  CASE h = "connect"    -> UNCHANGED place
    [] h = "read"       -> IF In("msg") = {} THEN \E b \in In("free") : Move({b}, "msg")
                                             ELSE Move(In("msg"), "queue")
    [] h = "disconnect" -> Move(In("wait"), "free")

EndHandler(w) ==
  /\ worker[w] \in Handlers
  /\ Use("worker", HandlerUses[worker[w]])
  /\ \/ Effect(worker[w])
     \/ worker[w] = "read" /\ In("free") \cup In("msg") = {} /\ UNCHANGED place
  /\ worker' = [worker EXCEPT ![w] = "run"]
  /\ UNCHANGED <<main, built, stop, listening, ioStopped>>

WorkerEnds(w) ==
  /\ worker[w] = "run" /\ ioStopped
  /\ Use("worker", {"log"})
  /\ worker' = [worker EXCEPT ![w] = "ended"]
  /\ UNCHANGED <<main, built, stop, listening, ioStopped, place>>

IoThread(w) ==
  /\ main # "crashed"
  /\ (\E h \in Handlers : BeginHandler(w, h)) \/ EndHandler(w) \/ WorkerEnds(w)

-----------------------------------------------------------------------------
(* update(): _process_msg takes the whole queue, ... *)
TakeQueue ==
  /\ Use("update", {"queue"})
  /\ Move(In("queue"), "main")
  /\ UNCHANGED <<built, stop, ioVars>>

(* ... and each message is handled and freed. A handler may answer: the rest *)
(* of an answer that finds the send buffer full waits in the session.       *)
HandleMsg(b, mayAnswer) ==
  /\ place[b] = "main"
  /\ Use("update", {"table", "handlers", "sessions", "pool"})
  /\ \E answer \in {{}} \cup {{c} : c \in {f \in In("free") : mayAnswer}} :
       place' = [c \in Blocks |-> IF c = b THEN "free"
                                 ELSE IF c \in answer THEN "wait" ELSE place[c]]
  /\ UNCHANGED <<main, built, stop, ioVars>>

-----------------------------------------------------------------------------
(* wnet_session_mgr: shutdown() stops the service and joins the threads, and *)
(* destroy() deletes the pool and then the sessions.                        *)

(* Mutant: only the acceptor is closed. *)
StopAcceptorOnly ==
  /\ main = "stop_io"
  /\ main' = "join"
  /\ UNCHANGED <<built, stop, ioVars, place, missed>>

StopIo ==
  /\ main = "stop_io"
  /\ ioStopped' = TRUE
  /\ main' = "join"
  /\ UNCHANGED <<built, stop, listening, worker, place, missed>>

(* Mutant: the threads are not joined. *)
JoinNobody ==
  /\ main = "join"
  /\ main' = "destroy_pool"
  /\ UNCHANGED <<built, stop, ioVars, place, missed>>

Join ==
  /\ main = "join"
  /\ \A w \in Workers : worker[w] \in {"none", "ended"}
  /\ main' = "destroy_pool"
  /\ UNCHANGED <<built, stop, ioVars, place, missed>>

(* The blocks outside the pool stay where they are. *)
DestroyPool == TakesApart("destroy_pool", {"pool"}, "destroy_sessions")

(* Giving back blocks to the pool: not to one that is gone. *)
GivesBack(from, blocks, things, to) ==
  /\ main = from
  /\ Move(blocks, "free")
  /\ IF blocks = {} THEN main' = to /\ missed' = missed
     ELSE Use("main", {"pool"}) /\ main' \in {to, "crashed"}
  /\ built' = built \ things
  /\ UNCHANGED <<stop, ioVars>>

(* m_sessions.clear(): each session frees its buffers and m_msg_ptr. *)
DestroySessions ==
  GivesBack("destroy_sessions", In("msg"), {"sessions", "net"}, "destroy_table")

(* wnet_msg_queue::clear. *)
ClearQueue == GivesBack("clear_queue", In("queue"), {"queue"}, "destroy_rest")

ManagerEnds == StopIo \/ Join \/ DestroyPool \/ DestroySessions \/ ClearQueue

-----------------------------------------------------------------------------
(* The types of the common variables; main has the stages of the process. *)
CommonTypeOK ==
  /\ built \subseteq Things
  /\ stop \in BOOLEAN /\ listening \in BOOLEAN /\ ioStopped \in BOOLEAN
  /\ worker \in [Workers -> Handlers \cup {"none", "run", "ended"}]
  /\ place \in [Blocks -> {"free", "msg", "wait", "queue", "main"}]
  /\ missed \subseteq {"main", "update", "worker"} \X Things

EndStages ==
  {"shutdown", "stop_io", "join", "destroy_pool", "destroy_sessions", "destroy_table",
   "clear_queue", "destroy_rest", "ended", "crashed"}

(* Handlers on the io threads and update() only run while the things they   *)
(* use are there: all of them are built before the first thread starts, and *)
(* the last thread is joined before one of them goes.                       *)
HandlersFindAll == \A m \in missed : m[1] = "main"

(* shutdown of the application uses the server or client it made. *)
ShutdownFindsNet == <<"main", "net">> \notin missed

(* "destroys what Init has constructed": what the sessions and the queue    *)
(* still hold goes back to the pool, which has to be there.                 *)
DestroyFindsPool == <<"main", "pool">> \notin missed

(* "frees the memory the session has asked for". *)
WaitFreed == main = "ended" => In("wait") = {}
=============================================================================
