------------------------------ MODULE MCProcesses ------------------------------
(***************************************************************************)
(* Small instances for TLC of what has to come about in the end: the       *)
(* queues between threads (ThreadPool, AsyncLog, MsgQueue), the receive    *)
(* side of a session with the buffer of linux/cfg.txt, which is one header *)
(* (RecvPath), the clock of the main loop (MainLoop), the life of the two  *)
(* processes (ServerLife, ClientLife) and a client that tries its connect  *)
(* requests again (NetClient).                                             *)
(*                                                                         *)
(* A behaviour is one of the part it starts with; the variables of the     *)
(* others keep their initial values. Where a module has its theorems in a  *)
(* module of their own, that one is instantiated, for MCProcesses_proofs.  *)
(***************************************************************************)
EXTENDS Naturals

CONSTANTS
  Workers,                   (* io threads                              *)
  Blocks, LifeBlocks,        (* of the memory pool: for the queue, for a
                                process                                 *)
  Threads, Posters, Closers, (* of the thread pool                      *)
  PoolTasks,                 (* tasks it accepts                        *)
  Appenders,                 (* threads that log                        *)
  Producers,                 (* io threads that queue messages          *)
  Null

VARIABLES
  part,
  conn, sent, stream, buf, parse, expect, msg, delivered, reader,
  tasks, poolStop, poolPc, job, posted, done,
  cur, full, avail, held, logStop, logPc, app, closer, lines, file, disk,
  next, text, free, head, tail, mine, cursor, spent, received, enqueued, handled,
  loopAt, since, delta, timer, timeOut, state, age,
  main, built, stop, listening, ioStopped, ioThread, place, missed, updateStop, updater,
  availParas, at, req, availSessions, live, worker, id, active, requests, answered

recvVars  == <<conn, sent, stream, buf, parse, expect, msg, delivered, reader>>
poolVars  == <<tasks, poolStop, poolPc, job, posted, done>>
logVars   == <<cur, full, avail, held, logStop, logPc, app, closer, lines, file, disk>>
queueVars ==
  <<next, text, free, head, tail, mine, cursor, spent, received, enqueued, handled>>
clockVars == <<loopAt, since, delta, timer, timeOut, state, age>>
lifeVars  ==
  <<main, built, stop, listening, ioStopped, ioThread, place, missed, updateStop, updater>>
clientVars ==
  <<availParas, at, req, availSessions, live, worker, id, active, requests, answered>>
vars ==
  <<part, recvVars, poolVars, logVars, queueVars, clockVars, lifeVars, clientVars>>

-----------------------------------------------------------------------------
Recv == INSTANCE RecvPath
          WITH RecvBuf <- 6, MaxSize <- 8, Sizes <- {0, 1, 8, 9}, MaxMsgs <- 3, MaxConns <- 2,
               CutMidway <- FALSE, AllocFails <- TRUE, Nil <- Null, pc <- reader

Pool == INSTANCE ThreadPool WITH stop <- poolStop, pc <- poolPc, MaxTasks <- PoolTasks

Log == INSTANCE AsyncLog
         WITH data <- full, stop <- logStop, pc <- logPc,
              Cap <- 4, Lens <- {1, 2, 4}, MaxBufs <- 1, MaxLines <- 4

Queue == INSTANCE MsgQueue_proofs WITH MaxMsgs <- 5

(* Ten units of the clock for a millisecond, and updates of one at most. *)
Clock == INSTANCE MainLoop
           WITH at <- loopAt, PerMs <- 10, Tick <- 2, UpdateTimer <- 5, HeartBeat <- 12,
                Modulus <- 64, Work <- {0, 1}, MaxAge <- 120

Steps == {"init_cfg", "init_net", "start"}

Server == INSTANCE ServerLife WITH worker <- ioThread, MayFail <- Steps, Blocks <- LifeBlocks

Client == INSTANCE ClientLife WITH worker <- ioThread, MayFail <- Steps, Blocks <- LifeBlocks

Retry == INSTANCE NetClient
           WITH NumSessions <- 2, Reconnect <- TRUE, BadAddress <- FALSE, MaxRequests <- 2

ASSUME ProcessesAssumption ==
  /\ Recv!RecvPathAssumption
  /\ Pool!ThreadPoolAssumption /\ Log!AsyncLogAssumption /\ Queue!MsgQueueAssumption
  /\ Clock!MainLoopAssumption
  /\ Server!ProcessLifeAssumption /\ Client!ProcessLifeAssumption
  /\ Retry!NetClientAssumption

-----------------------------------------------------------------------------
Parts == {"recv", "pool", "log", "queue", "clock", "server", "client", "retry"}

(* A part that does not run starts with one of its initial states. *)
Init ==
  /\ part \in Parts
  /\ Recv!Init
  /\ Pool!Init /\ Log!Init /\ Queue!Init
  /\ part = "log" \/ logPc = "ready"
  /\ Clock!Init
  /\ Client!Init
  /\ Retry!Init

QueuesNext ==
  /\ \/ part = "pool"  /\ Pool!Next  /\ UNCHANGED <<logVars, queueVars>>
     \/ part = "log"   /\ Log!Next   /\ UNCHANGED <<poolVars, queueVars>>
     \/ part = "queue" /\ Queue!Next /\ UNCHANGED <<poolVars, logVars>>
  /\ UNCHANGED <<recvVars, clockVars, lifeVars, clientVars>>

LifeNext ==
  /\ \/ part = "clock"  /\ Clock!Next  /\ UNCHANGED lifeVars
     \/ part = "server" /\ Server!Next /\ UNCHANGED <<clockVars, updateStop, updater>>
     \/ part = "client" /\ Client!Next /\ UNCHANGED clockVars
  /\ UNCHANGED <<recvVars, poolVars, logVars, queueVars, clientVars>>

NetNext ==
  /\ \/ part = "recv"  /\ Recv!Next  /\ UNCHANGED clientVars
     \/ part = "retry" /\ Retry!Next /\ UNCHANGED recvVars
  /\ UNCHANGED <<poolVars, logVars, queueVars, clockVars, lifeVars>>

Next == UNCHANGED part /\ (QueuesNext \/ LifeNext \/ NetNext)

(* The fairness of each module, for the part that runs; of the receive path: *)
(* the network delivers, the worker handles what arrives.                   *)
QueuesFairness ==
  /\ \A t \in Threads :
       WF_poolVars(part = "pool" /\ (Pool!Take(t) \/ Pool!End(t) \/ Pool!Run(t)))
  /\ \A p \in Posters : WF_poolVars(part = "pool" /\ Pool!NotifyOne(p))
  /\ \A c \in Closers : WF_poolVars(part = "pool" /\ (Pool!NotifyAll(c) \/ Pool!Join(c)))
  /\ WF_logVars(part = "log" /\ Log!Worker)
  /\ WF_logVars(part = "log" /\ Log!NotifyStop) /\ WF_logVars(part = "log" /\ Log!Join)
  /\ \A a \in Appenders : WF_logVars(part = "log" /\ Log!Notify(a))
  /\ WF_queueVars(part = "queue" /\ Queue!Main)
  /\ \A p \in Producers : WF_queueVars(part = "queue" /\ Queue!Enqueue(p))

LifeFairness ==
  /\ WF_clockVars(part = "clock" /\ Clock!Loop)
  /\ WF_lifeVars(part = "server" /\ Server!MainThread /\ UNCHANGED <<updateStop, updater>>)
  /\ WF_lifeVars(part = "client" /\ Client!MainThread)
  /\ WF_lifeVars(part = "client" /\ Client!UpdateThread)
  /\ \A w \in Workers :
       WF_lifeVars(part \in {"server", "client"} /\ Server!IoThread(w)
                     /\ UNCHANGED <<updateStop, updater>>)

NetFairness ==
  /\ WF_recvVars(part = "recv" /\ Recv!Read)
  /\ WF_recvVars(part = "recv" /\ Recv!Parse)
  /\ \A w \in Workers : WF_clientVars(part = "retry" /\ Retry!Continue(w))
  /\ \A p \in Retry!Paras :
       /\ WF_clientVars(part = "retry" /\ \E w \in Workers : Retry!HandleReconnect(w, p))
       /\ SF_clientVars(part = "retry" /\ Retry!Complete(p))

Spec == Init /\ [][Next]_vars /\ QueuesFairness /\ LifeFairness /\ NetFairness

-----------------------------------------------------------------------------
(* The type of every variable; a thread of the pool has a task exactly while *)
(* it runs; the chain of _process_msg belongs to one thread, which is gone   *)
(* when the process is taken apart.                                          *)
TypeOK ==
  /\ part \in Parts
  /\ Recv!TypeOK
  /\ Pool!TypeOK /\ Log!TypeOK /\ Queue!TypeOK
  /\ Clock!TypeOK
  /\ IF part = "server" THEN Server!TypeOK ELSE Client!TypeOK
  /\ Retry!TypeOK

(* A message that is sent is delivered in the end, unless its connection is *)
(* closed.                                                                  *)
EveryMessageArrives == part = "recv" => Recv!EveryMessageArrives

(* An accepted task is queued, run by one thread or done, and the queue     *)
(* holds the youngest in order.                                             *)
EachTaskOnce == Pool!EachTaskOnce

(* A task posted to a started pool runs: no notification is lost.           *)
EveryTaskRuns == Pool!EveryTaskRuns

(* The first shutdown returns, and then no accepted task is left.           *)
ShutdownReturns == Pool!ShutdownReturns

(* An accepted line is flushed to disk, stop or no stop, and destroy returns *)
(* with nothing left, also when the file could not be opened.               *)
LinesReachDisk == Log!LinesReachDisk

(* Messages are handled once, in the order they were queued, all of them.   *)
HandledInOrder == Queue!HandledInOrder

(* Every message that was received is handled.                              *)
EveryMessageHandled == Queue!EveryMessageHandled

(* While updates are short a connection that sends nothing is closed.       *)
SilentIsClosed == Clock!SilentIsClosed

(* No handler of an io thread and no update() meets a thing that is not     *)
(* there, in the server or the client, whichever step of init has failed.   *)
HandlersFindAll == Server!HandlersFindAll

(* A server that is told to stop comes to its end; a client does when it    *)
(* does not wait for a line.                                                *)
StopEnds == (part = "server" => Server!StopEnds) /\ (part = "client" => Client!StopEnds)

(* With as many sessions as requests each of them is answered, and none     *)
(* keeps its parameter for ever.                                            *)
RequestsEnd == part = "retry" => Retry!EveryRequestAnswered /\ Retry!ParasComeBack
=============================================================================
