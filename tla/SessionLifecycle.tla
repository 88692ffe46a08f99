--------------------------- MODULE SessionLifecycle ---------------------------
(***************************************************************************)
(* The life of the wnet_session objects of one wnet_session_mgr: accepted, *)
(* opened, read, written, closed from any thread, released when no async   *)
(* operation is outstanding, reset, and returned to the pool of available  *)
(* sessions (src/wlib/wnet_session.cpp, wnet_session_mgr.cpp,              *)
(* wnet_server.cpp, and the session table of src/wserver/wwan_server.cpp). *)
(*                                                                         *)
(* Interleaving: every critical section of m_mutex is one step, and so is  *)
(* every stretch of unlocked code up to the next shared write; the atomics *)
(* m_is_reading and m_is_writing are written in steps of their own.        *)
(* Bytes are abstracted: a buffer is empty or not (SendPath and RecvPath   *)
(* have them).                                                             *)
(***************************************************************************)
EXTENDS Naturals, Sequences, FiniteSets

CONSTANTS
  Sessions,  (* indexes of the wnet_session objects (m_max_session of them) *)
  Workers,   (* threads that run io_service::run (m_thread_num of them)     *)
  Users,     (* application threads that call send_msg and close            *)
  Nil,       (* wwan_session.m_session_id = 0: slot of the table not used   *)
  MaxGuid,   (* 0xFFFF, the largest serial in the high half of a session id *)
  AllocFails (* whether wnet_mem_pool ever refuses a buffer                *)

ASSUME LifecycleAssumption ==
  /\ IsFiniteSet(Sessions)
  /\ Workers \cap Users = {}
  /\ MaxGuid \in Nat \ {0}
  /\ AllocFails \in BOOLEAN
  /\ Nil \notin Nat

VARIABLES
  guid,      (* high half of m_session_id                                   *)
  status,    (* m_status                                                    *)
  reading,   (* m_is_reading                                                *)
  writing,   (* m_is_writing                                                *)
  sock,      (* m_socket: "closed", "open", "shut"                          *)
  data,      (* m_data_buf_ptr is not empty                                 *)
  wait,      (* m_wait_head_ptr is not null                                 *)
  sending,   (* unsent part of m_sending_buf_ptr; a full buffer is 2 units  *)
  readOps,   (* outstanding async_read_some of the session                  *)
  writeOps,  (* outstanding async_write_some of the session                 *)
  closeOps,  (* handle_close posted to the io_service                       *)
  avail,     (* m_available_sessions, oldest first                          *)
  app,       (* wwan_session.m_session_id of each slot: a serial, or Nil    *)
  known,     (* session ids handed to the application by the callback       *)
  used,      (* ids of the connections made so far                          *)
  pc,        (* where each thread is                                        *)
  on         (* the session a thread works on, and its serial at that time  *)

sessionVars == <<guid, status, reading, writing, sock>>
bufVars     == <<data, wait, sending>>
opVars      == <<readOps, writeOps, closeOps>>
poolVars    == <<avail, app, known, used>>
vars == <<sessionVars, bufVars, opVars, poolVars, pc, on>>

Threads == Workers \cup Users
Ids     == [s : Sessions, g : 1..MaxGuid]
NoConn  == [s |-> Nil, g |-> Nil]

IdOf(s) == [s |-> s, g |-> guid[s]]

(* Mutant: the serial wraps to 0. *)
NextGuidThroughZero(g) == (g + 1) % (MaxGuid + 1)

(* reset(): the serial after g; 0 is skipped when the 16 bits wrap. *)
NextGuid(g) == IF g = MaxGuid THEN 1 ELSE g + 1

Go(t, where, id) == pc' = [pc EXCEPT ![t] = where] /\ on' = [on EXCEPT ![t] = id]
Done(t)          == Go(t, "idle", NoConn)

-----------------------------------------------------------------------------
(* Constructor and wnet_session_mgr::init. *)
Init ==
  /\ guid     = [s \in Sessions |-> 1]
  /\ status   = [s \in Sessions |-> "INIT"]
  /\ reading  = [s \in Sessions |-> FALSE]
  /\ writing  = [s \in Sessions |-> FALSE]
  /\ sock     = [s \in Sessions |-> "closed"]
  /\ data     = [s \in Sessions |-> FALSE]
  /\ wait     = [s \in Sessions |-> FALSE]
  /\ sending  = [s \in Sessions |-> 0]
  /\ readOps  = [s \in Sessions |-> 0]
  /\ writeOps = [s \in Sessions |-> 0]
  /\ closeOps = [s \in Sessions |-> 0]
  /\ avail \in {q \in [1..Cardinality(Sessions) -> Sessions] :
                  \A i, j \in DOMAIN q : i # j => q[i] # q[j]}
  /\ app   = [s \in Sessions |-> Nil]
  /\ known = {}
  /\ used  = {}
  /\ pc = [t \in Threads |-> "idle"]
  /\ on = [t \in Threads |-> NoConn]

-----------------------------------------------------------------------------
(* wnet_server::handle_accept. The next accept is posted first, so another  *)
(* worker may take another connection meanwhile.                            *)

(* No available session: the local socket is destroyed, the peer dropped. *)
AcceptDropped(w) ==
  /\ pc[w] = "idle"
  /\ avail = <<>>
  /\ UNCHANGED vars

(* get_available_session, then open() up to m_status = ENSS_OPEN. Bound: an *)
(* id is not used again (in the code it is, after MaxGuid connections of    *)
(* the slot).                                                               *)
Accept(w) ==
  /\ pc[w] = "idle"
  /\ avail # <<>>
  /\ LET s == Head(avail) IN
       /\ IdOf(s) \notin used
       /\ used'   = used \cup {IdOf(s)}
       /\ avail'  = Tail(avail)
       /\ sock'   = [sock EXCEPT ![s] = "open"]
       /\ status' = [status EXCEPT ![s] = "OPEN"]
       /\ Go(w, "opened", IdOf(s))
  /\ UNCHANGED <<guid, reading, writing, bufVars, opVars, app, known>>

(* open(): m_is_reading.store(true). *)
OpenReading(w) ==
  /\ pc[w] = "opened"
  /\ reading' = [reading EXCEPT ![on[w].s] = TRUE]
  /\ Go(w, "listen_callback", on[w])
  /\ UNCHANGED <<guid, status, writing, sock, bufVars, opVars, poolVars>>

(* m_listen_callback(p->get_id(), ...), that is wwan_server::on_connect: a   *)
(* slot still in use refuses the connection and keeps its old id.           *)
ListenCallback(w) ==
  LET s == on[w].s IN
  /\ pc[w] = "listen_callback"
  /\ app'   = [app EXCEPT ![s] = IF @ = Nil THEN guid[s] ELSE @]
  /\ known' = IF app[s] = Nil THEN known \cup {IdOf(s)} ELSE known
  /\ Go(w, "begin_read", on[w])
  /\ UNCHANGED <<sessionVars, bufVars, opVars, avail, used>>

BeginRead(w) ==
  LET s == on[w].s IN
  /\ pc[w] = "begin_read"
  /\ \/ /\ status[s] = "OPEN"
        /\ readOps' = [readOps EXCEPT ![s] = @ + 1]
        /\ Done(w)
        /\ UNCHANGED reading
     \/ /\ status[s] # "OPEN"
        /\ reading' = [reading EXCEPT ![s] = FALSE]
        /\ Go(w, "close", on[w])
        /\ UNCHANGED readOps
  /\ UNCHANGED <<guid, status, writing, sock, bufVars, writeOps, closeOps, poolVars>>

-----------------------------------------------------------------------------
(* handle_read. *)

(* Mutant: m_is_reading stays true. *)
ReadFailedStillReading(w, s) ==
  /\ pc[w] = "idle"
  /\ readOps[s] > 0
  /\ readOps' = [readOps EXCEPT ![s] = @ - 1]
  /\ Go(w, "close", IdOf(s))
  /\ UNCHANGED <<sessionVars, bufVars, writeOps, closeOps, poolVars>>

(* An error, no bytes, or a session that is not open any more. *)
ReadFailed(w, s) ==
  /\ pc[w] = "idle"
  /\ readOps[s] > 0
  /\ readOps' = [readOps EXCEPT ![s] = @ - 1]
  /\ reading' = [reading EXCEPT ![s] = FALSE]
  /\ Go(w, "close", IdOf(s))
  /\ UNCHANGED <<guid, status, writing, sock, bufVars, writeOps, closeOps, poolVars>>

(* Bytes arrived and the unlocked check of m_status found the session open. *)
ReadData(w, s) ==
  /\ pc[w] = "idle"
  /\ readOps[s] > 0
  /\ status[s] = "OPEN"
  /\ readOps' = [readOps EXCEPT ![s] = @ - 1]
  /\ Go(w, "parse", IdOf(s))
  /\ UNCHANGED <<sessionVars, bufVars, writeOps, closeOps, poolVars>>

(* parse_msg hands the messages to the callback; then the next read is      *)
(* posted, or the connection is given up because a message was refused.     *)
ParseMsg(w) ==
  LET s == on[w].s IN
  /\ pc[w] = "parse"
  /\ \/ /\ readOps' = [readOps EXCEPT ![s] = @ + 1]
        /\ Done(w)
        /\ UNCHANGED reading
     \/ /\ reading' = [reading EXCEPT ![s] = FALSE]
        /\ Go(w, "close", on[w])
        /\ UNCHANGED readOps
  /\ UNCHANGED <<guid, status, writing, sock, bufVars, writeOps, closeOps, poolVars>>

-----------------------------------------------------------------------------
(* handle_write. *)

WriteFailed(w, s) ==
  /\ pc[w] = "idle"
  /\ writeOps[s] > 0
  /\ writeOps' = [writeOps EXCEPT ![s] = @ - 1]
  /\ writing'  = [writing EXCEPT ![s] = FALSE]
  /\ Go(w, "close", IdOf(s))
  /\ UNCHANGED <<guid, status, reading, sock, bufVars, readOps, closeOps, poolVars>>

(* n units of the sending buffer went out. *)
WriteDone(w, s) ==
  /\ pc[w] = "idle"
  /\ writeOps[s] > 0
  /\ status[s] = "OPEN"
  /\ writeOps' = [writeOps EXCEPT ![s] = @ - 1]
  /\ \E n \in 1..sending[s] : sending' = [sending EXCEPT ![s] = @ - n]
  /\ Go(w, "written", IdOf(s))
  /\ UNCHANGED <<sessionVars, data, wait, readOps, closeOps, poolVars>>

(* All of it is out: under m_mutex take the data buffer, else the queue. *)
Refill(w) ==
  LET s == on[w].s IN
  /\ pc[w] = "written"
  /\ sending[s] = 0
  /\ \/ /\ data[s]
        /\ data'    = [data EXCEPT ![s] = FALSE]
        /\ sending' = [sending EXCEPT ![s] = 2]
        /\ UNCHANGED wait
     \/ /\ ~data[s] /\ wait[s]
        /\ sending' = [sending EXCEPT ![s] = 2]
        /\ \E left \in BOOLEAN : wait' = [wait EXCEPT ![s] = left]
        /\ UNCHANGED data
     \/ /\ ~data[s] /\ ~wait[s]
        /\ UNCHANGED bufVars
  /\ Go(w, "refilled", on[w])
  /\ UNCHANGED <<sessionVars, opVars, poolVars>>

(* Something is left to send: post the next write. *)
WriteMore(w) ==
  LET s == on[w].s IN
  /\ pc[w] \in {"written", "refilled"}
  /\ sending[s] > 0
  /\ writeOps' = [writeOps EXCEPT ![s] = @ + 1]
  /\ Done(w)
  /\ UNCHANGED <<sessionVars, bufVars, readOps, closeOps, poolVars>>

(* Nothing is left: m_is_writing.store(false), outside the mutex. *)
WriteIdle(w) ==
  LET s == on[w].s IN
  /\ pc[w] = "refilled"
  /\ sending[s] = 0
  /\ writing' = [writing EXCEPT ![s] = FALSE]
  /\ Done(w)
  /\ UNCHANGED <<guid, status, reading, sock, bufVars, opVars, poolVars>>

-----------------------------------------------------------------------------
(* _close and _release: two critical sections. *)

CloseOwn(t) ==
  LET s == on[t].s IN
  /\ pc[t] = "close"
  /\ \/ /\ status[s] = "OPEN"
        /\ status' = [status EXCEPT ![s] = "SHUT"]
        /\ sock'   = [sock EXCEPT ![s] = "shut"]
     \/ /\ status[s] # "OPEN"
        /\ UNCHANGED <<status, sock>>
  /\ Go(t, "release", on[t])
  /\ UNCHANGED <<guid, reading, writing, bufVars, opVars, poolVars>>

(* Mutants: _release does not look at m_is_writing, or takes a session that *)
(* another thread has released already.                                     *)
ReleasableWhileWriting(s) == status[s] = "SHUT" /\ ~reading[s]
ReleasableAgain(s) == status[s] \in {"SHUT", "CLOSE"} /\ ~writing[s] /\ ~reading[s]

Releasable(s) == status[s] = "SHUT" /\ ~writing[s] /\ ~reading[s]

Release(t) ==
  LET s == on[t].s IN
  /\ pc[t] = "release"
  /\ \/ /\ Releasable(s)
        /\ status'   = [status EXCEPT ![s] = "CLOSE"]
        /\ sock'     = [sock EXCEPT ![s] = "closed"]
        /\ closeOps' = [closeOps EXCEPT ![s] = @ + 1]
     \/ /\ ~Releasable(s)
        /\ UNCHANGED <<status, sock, closeOps>>
  /\ Done(t)
  /\ UNCHANGED <<guid, reading, writing, bufVars, readOps, writeOps, poolVars>>

-----------------------------------------------------------------------------
(* wnet_session_mgr::handle_close. *)

(* Mutant: the id is read after reset(). *)
IdAfterReset(s) == [s |-> s, g |-> NextGuid(guid[s])]

ClosedId(s) == IdOf(s)

(* The old id is kept, then reset(): m_status stays ENSS_CLOSE. *)
HandleClose(w, s) ==
  /\ pc[w] = "idle"
  /\ closeOps[s] > 0
  /\ closeOps' = [closeOps EXCEPT ![s] = @ - 1]
  /\ guid'     = [guid EXCEPT ![s] = NextGuid(@)]
  /\ writing'  = [writing EXCEPT ![s] = FALSE]
  /\ reading'  = [reading EXCEPT ![s] = FALSE]
  /\ data'     = [data EXCEPT ![s] = FALSE]
  /\ sending'  = [sending EXCEPT ![s] = 0]
  /\ wait'     = [wait EXCEPT ![s] = FALSE]
  /\ Go(w, "disconnect_callback", ClosedId(s))
  /\ UNCHANGED <<status, sock, readOps, writeOps, poolVars>>

(* m_disconnect_callback(old id), that is wwan_server::on_disconnect: a     *)
(* slot that holds another id is left alone.                                *)
DisconnectCallback(w) ==
  LET s == on[w].s IN
  /\ pc[w] = "disconnect_callback"
  /\ app' = [app EXCEPT ![s] = IF @ = on[w].g THEN Nil ELSE @]
  /\ Go(w, "return_session", on[w])
  /\ UNCHANGED <<sessionVars, bufVars, opVars, avail, known, used>>

(* safe_push refuses a full queue, silently. *)
ReturnSession(w) ==
  /\ pc[w] = "return_session"
  /\ avail' = IF Len(avail) = Cardinality(Sessions) THEN avail
              ELSE Append(avail, on[w].s)
  /\ Done(w)
  /\ UNCHANGED <<sessionVars, bufVars, opVars, app, known, used>>

-----------------------------------------------------------------------------
(* The application. The unlocked checks at the head of send_msg and close   *)
(* only return early; the checks repeated under m_mutex decide.             *)

Current(id) == guid[id.s] = id.g /\ status[id.s] = "OPEN"

(* Mutant: a write is started whether one is under way or not. *)
AlwaysWins(s) == TRUE

(* m_is_writing.compare_exchange_strong(false, true) *)
ExchangeWins(s) == ~writing[s]

(* close(session_id). *)
UserClose(u, id) ==
  /\ pc[u] = "idle"
  /\ id \in known
  /\ Current(id)
  /\ status' = [status EXCEPT ![id.s] = "SHUT"]
  /\ sock'   = [sock EXCEPT ![id.s] = "shut"]
  /\ Go(u, "release", id)
  /\ UNCHANGED <<guid, reading, writing, bufVars, opVars, poolVars>>

(* send_msg while messages wait in the queue: the message joins them. *)
UserSendQueued(u, id) ==
  /\ pc[u] = "idle"
  /\ id \in known
  /\ Current(id)
  /\ wait[id.s]
  /\ UNCHANGED vars

(* send_msg into the data buffer, the rest into the queue; the compare and  *)
(* exchange of m_is_writing fails: a write is under way and will take it.   *)
UserSend(u, id) ==
  /\ pc[u] = "idle"
  /\ id \in known
  /\ Current(id)
  /\ ~wait[id.s]
  /\ ~ExchangeWins(id.s)
  /\ data' = [data EXCEPT ![id.s] = TRUE]
  /\ \E rest \in BOOLEAN : wait' = [wait EXCEPT ![id.s] = rest]
  /\ UNCHANGED <<sessionVars, sending, opVars, poolVars, pc, on>>

(* The exchange succeeds: swap the buffers, leave the mutex, then write. *)
UserSendStart(u, id) ==
  LET s == id.s IN
  /\ pc[u] = "idle"
  /\ id \in known
  /\ Current(id)
  /\ ~wait[s]
  /\ ExchangeWins(s)
  /\ writing' = [writing EXCEPT ![s] = TRUE]
  /\ data'    = [data EXCEPT ![s] = sending[s] > 0]
  /\ sending' = [sending EXCEPT ![s] = 2]
  /\ \E rest \in BOOLEAN : wait' = [wait EXCEPT ![s] = rest]
  /\ Go(u, "post_write", id)
  /\ UNCHANGED <<guid, status, reading, sock, opVars, poolVars>>

(* No buffer for the rest of the message: send_msg returns false, without    *)
(* the exchange, and 2 bytes of the header stay in the data buffer.         *)
UserSendFailed(u, id) ==
  /\ AllocFails
  /\ pc[u] = "idle"
  /\ id \in known
  /\ Current(id)
  /\ ~wait[id.s]
  /\ data' = [data EXCEPT ![id.s] = TRUE]
  /\ UNCHANGED <<sessionVars, wait, sending, opVars, poolVars, pc, on>>

(* async_write_some, after the mutex is released. *)
PostWrite(u) ==
  LET s == on[u].s IN
  /\ pc[u] = "post_write"
  /\ writeOps' = [writeOps EXCEPT ![s] = @ + 1]
  /\ Done(u)
  /\ UNCHANGED <<sessionVars, bufVars, readOps, closeOps, poolVars>>

-----------------------------------------------------------------------------
WorkerStep(w) ==
  \/ OpenReading(w) \/ ListenCallback(w) \/ BeginRead(w)
  \/ ParseMsg(w)
  \/ Refill(w) \/ WriteMore(w) \/ WriteIdle(w)
  \/ DisconnectCallback(w) \/ ReturnSession(w)

Next ==
  \/ \E w \in Workers : Accept(w) \/ AcceptDropped(w) \/ WorkerStep(w)
  \/ \E w \in Workers, s \in Sessions :
       \/ ReadFailed(w, s) \/ ReadData(w, s)
       \/ WriteFailed(w, s) \/ WriteDone(w, s)
       \/ HandleClose(w, s)
  \/ \E t \in Threads : CloseOwn(t) \/ Release(t)
  \/ \E u \in Users : PostWrite(u)
  \/ \E u \in Users, id \in known :
       \/ UserClose(u, id)
       \/ UserSendQueued(u, id) \/ UserSendFailed(u, id)
       \/ UserSend(u, id) \/ UserSendStart(u, id)

Spec == Init /\ [][Next]_vars

-----------------------------------------------------------------------------
(* Fairness. A thread that runs goes on. The io_service runs handlers in    *)
(* order of completion, so one that stays ready is not passed over for ever *)
(* by a worker that comes back to idle again and again: strong fairness.    *)
(* Shutting a socket down completes its read and its write.                 *)

ThreadStep(t) ==
  \/ t \in Workers /\ WorkerStep(t)
  \/ t \in Users /\ PostWrite(t)
  \/ CloseOwn(t) \/ Release(t)

Fairness ==
  /\ \A t \in Threads : WF_vars(ThreadStep(t))
  /\ \A s \in Sessions :
       /\ SF_vars(\E w \in Workers : status[s] = "SHUT" /\ ReadFailed(w, s))
       /\ SF_vars(\E w \in Workers : status[s] = "SHUT" /\ WriteFailed(w, s))
       /\ SF_vars(\E w \in Workers : HandleClose(w, s))

FairSpec == Spec /\ Fairness

(* The peers also read what they are sent, or break the connection. *)
ReadingPeers ==
  \A s \in Sessions : SF_vars(\E w \in Workers : WriteFailed(w, s) \/ WriteDone(w, s))

FairPeersSpec == FairSpec /\ ReadingPeers

-----------------------------------------------------------------------------
Statuses == {"INIT", "OPEN", "SHUT", "CLOSE"}
WorkerPcs == {"opened", "listen_callback", "begin_read", "parse", "written",
              "refilled", "disconnect_callback", "return_session"}
Pcs == WorkerPcs \cup {"idle", "close", "release", "post_write"}

StateTypes ==
  /\ guid    \in [Sessions -> 1..MaxGuid]
  /\ status  \in [Sessions -> Statuses]
  /\ reading \in [Sessions -> BOOLEAN]
  /\ writing \in [Sessions -> BOOLEAN]
  /\ sock    \in [Sessions -> {"closed", "open", "shut"}]
  /\ data    \in [Sessions -> BOOLEAN]
  /\ wait    \in [Sessions -> BOOLEAN]
  /\ sending \in [Sessions -> 0..2]
  /\ readOps  \in [Sessions -> Nat]
  /\ writeOps \in [Sessions -> Nat]
  /\ closeOps \in [Sessions -> Nat]
  /\ avail \in Seq(Sessions)
  /\ app \in [Sessions -> 1..MaxGuid \cup {Nil}]
  /\ known \subseteq Ids
  /\ used  \subseteq Ids

ThreadTypes ==
  /\ pc \in [Threads -> Pcs]
  /\ on \in [Threads -> Ids \cup {NoConn}]
  /\ \A t \in Threads : on[t] = NoConn <=> pc[t] = "idle"
  /\ \A t \in Threads : pc[t] \in WorkerPcs => t \in Workers
  /\ \A t \in Threads : pc[t] = "post_write" => t \in Users

(* The type of every variable; a thread is at a place its role can reach,   *)
(* and works on a session exactly while it is not idle.                     *)
TypeOK == StateTypes /\ ThreadTypes

At(t, s, where) == pc[t] \in where /\ on[t].s = s

WriterPcs    == {"post_write", "written", "refilled"}
ReaderPcs    == {"listen_callback", "begin_read", "parse"}
ReturningPcs == {"disconnect_callback", "return_session"}

(* m_sending_buf_ptr, which handle_write uses without the mutex, has one    *)
(* owner: of the outstanding write and the threads on their way to post one *)
(* or just back from one there is never more than one per session, and      *)
(* m_is_writing is true as long as it lives.                                *)
OneWriter ==
  \A s \in Sessions :
    /\ writeOps[s] <= 1
    /\ writeOps[s] = 1 => writing[s] /\ \A t \in Threads : ~At(t, s, WriterPcs)
    /\ \A t, u \in Threads :
         At(t, s, WriterPcs) => writing[s] /\ (At(u, s, WriterPcs) => t = u)

(* The same of the reads, of m_recv_buf_ptr and of m_is_reading. *)
OneReader ==
  \A s \in Sessions :
    /\ readOps[s] <= 1
    /\ readOps[s] = 1 => reading[s] /\ \A t \in Threads : ~At(t, s, ReaderPcs)
    /\ \A t, u \in Threads :
         At(t, s, ReaderPcs) => reading[s] /\ (At(u, s, ReaderPcs) => t = u)

InPool(s)   == \E i \in DOMAIN avail : avail[i] = s
Live(s)     == status[s] \in {"OPEN", "SHUT"}
Retiring(s) == closeOps[s] > 0 \/ \E t \in Threads : At(t, s, ReturningPcs)

(* Every session is in one place: in the pool once, in use, or on its way   *)
(* back, by one handle_close and one worker. None is lost, none is handed   *)
(* out twice, and return_session never meets a full queue.                  *)
PoolExact ==
  /\ \A i, j \in DOMAIN avail : avail[i] = avail[j] => i = j
  /\ \A s \in Sessions :
       /\ closeOps[s] <= 1
       /\ InPool(s)   => ~Live(s) /\ ~Retiring(s)
       /\ Retiring(s) => status[s] = "CLOSE"
       /\ ~Live(s) /\ ~Retiring(s) => InPool(s)
       /\ \A t, u \in Threads :
            At(t, s, ReturningPcs) => closeOps[s] = 0 /\ (At(u, s, ReturningPcs) => t = u)

(* A session has one reader while it is open, and it is released, reset and *)
(* reopened only when nothing of its old connection is left: no operation,  *)
(* no thread in one of its handlers.                                        *)
ReleaseQuiescent ==
  /\ OneReader
  /\ \A s \in Sessions :
       ~Live(s) =>
         /\ readOps[s] = 0 /\ writeOps[s] = 0
         /\ ~reading[s] /\ ~writing[s]
         /\ \A t \in Threads : ~At(t, s, WriterPcs \cup ReaderPcs \cup {"opened"})

(* "close the specified connection": _close is called on behalf of one      *)
(* connection, and when it shuts a connection down, it is that one.         *)
ClosesOwn ==
  \A t \in Threads :
    pc[t] = "close" /\ status[on[t].s] = "OPEN" => on[t].g = guid[on[t].s]

(* The serial the application has to expect: that of the connection whose   *)
(* end is being reported, else that of the session.                         *)
ExpectedSerial(s) ==
  IF \E w \in Workers : At(w, s, {"disconnect_callback"})
  THEN on[CHOOSE w \in Workers : At(w, s, {"disconnect_callback"})].g
  ELSE guid[s]

Table == INSTANCE SessionTable
           WITH table <- app, serial <- [s \in Sessions |-> ExpectedSerial(s)]

(* on_connect and on_disconnect of a slot alternate, with consecutive       *)
(* serials: no connection is refused by on_connect, ends unreported or is   *)
(* reported under another connection's id.                                  *)
TableSpec == Table!Spec

(* A session that was shut down comes back to the pool. *)
ShutReturned == \A s \in Sessions : status[s] = "SHUT" ~> InPool(s)

(* The application is told the end of every connection that was shut down.  *)
ShutReported ==
  \A s \in Sessions, g \in 1..MaxGuid :
    status[s] = "SHUT" /\ app[s] = g /\ guid[s] = g ~> app[s] # g

(* What send_msg has accepted on an open connection does not lie in the     *)
(* buffers with nobody to write it.                                         *)
SendProgress ==
  \A s \in Sessions :
    status[s] = "OPEN" /\ (data[s] \/ wait[s]) ~> status[s] # "OPEN" \/ writing[s]
=============================================================================
