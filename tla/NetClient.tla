------------------------------- MODULE NetClient -------------------------------
(***************************************************************************)
(* The client: connect requests with their wconnect_para, the retries of   *)
(* failed ones, and the table of wclient_session the callbacks keep        *)
(* (src/wlib/wnet_client.cpp, src/wclient/wwan_client.cpp).                *)
(*                                                                         *)
(* The paras and the sessions wait in two queues of the same length, from  *)
(* which any thread takes them. A handler runs on an io thread, and        *)
(* between its calls the other threads go on. The closing of a session is  *)
(* cut down to what the client sees: SessionLifecycle has it in detail.    *)
(* m_reconnect_second is configured before init(). A callback of the       *)
(* application is one step, as it is with its single io thread: of several *)
(* threads only the library's own state is meant.                          *)
(***************************************************************************)
EXTENDS Naturals, Sequences, FiniteSets

CONSTANTS
  Workers,     (* io threads; wwan_client has the one of the default      *)
  NumSessions, (* max_session: as many sessions as paras                  *)
  Reconnect,   (* m_reconnect_second is not 0                             *)
  BadAddress,  (* connect_to may be given an address that does not parse  *)
  MaxRequests  (* bound: calls of connect_to                              *)

NetClientAssumption ==
  /\ NumSessions \in Nat \ {0} /\ MaxRequests \in Nat
  /\ Reconnect \in BOOLEAN /\ BadAddress \in BOOLEAN

VARIABLES
  availParas,    (* m_available_paras                                      *)
  at,            (* of each para: free, connecting, waiting (for its timer),
                    handler, lost                                          *)
  req,           (* of each para: the request it is for                    *)
  availSessions, (* m_available_sessions, of the session manager           *)
  live,          (* the request whose connection reads in each session     *)
  worker,        (* what each io thread does: at, with a para or a session *)
  id,            (* wclient_session::m_session_id: its request, 0 if none  *)
  active,        (* m_active_session_num                                   *)
  requests,      (* requests accepted                                      *)
  answered       (* callbacks made for each request                        *)

paraVars    == <<availParas, at, req>>
sessionVars == <<availSessions, live>>
appVars     == <<id, active, answered>>
vars == <<paraVars, sessionVars, worker, appVars, requests>>

Slots    == 1..NumSessions
Requests == 1..MaxRequests
Paras    == 1..NumSessions
Idle     == [at |-> "idle", p |-> 0, s |-> 0, r |-> 0]

Init ==
  /\ availParas = [i \in Paras |-> i]
  /\ at = [p \in Paras |-> "free"] /\ req = [p \in Paras |-> 0]
  /\ availSessions = [i \in Slots |-> i]
  /\ live = [s \in Slots |-> 0]
  /\ worker = [w \in Workers |-> Idle]
  /\ id = [s \in Slots |-> 0] /\ active = 0
  /\ requests = 0
  /\ answered = [r \in Requests |-> 0]

(* connect_to: the para is taken before the address is parsed, and parsing  *)
(* may throw. Without a free para it returns false.                         *)
ConnectTo ==
  /\ requests < MaxRequests
  /\ availParas # <<>>
  /\ LET p == Head(availParas) IN
       \E fate \in {"connecting"} \cup (IF BadAddress THEN {"lost"} ELSE {}) :
         /\ at' = [at EXCEPT ![p] = fate]
         /\ req' = [req EXCEPT ![p] = requests + 1]
  /\ availParas' = Tail(availParas)
  /\ requests' = requests + 1
  /\ UNCHANGED <<sessionVars, worker, appVars>>

Push(p) ==
  /\ availParas' = IF Len(availParas) < NumSessions THEN Append(availParas, p) ELSE availParas
  /\ at' = [at EXCEPT ![p] = "free"]

-----------------------------------------------------------------------------
(* handle_connect with an error. *)

ConnectFails(w, p) ==
  /\ worker[w] = Idle /\ at[p] = "connecting"
  /\ IF Reconnect
     THEN /\ at' = [at EXCEPT ![p] = "waiting"]
          /\ worker' = worker
     ELSE /\ at' = [at EXCEPT ![p] = "handler"]
          /\ worker' = [worker EXCEPT ![w] = [Idle EXCEPT !.at = "failed", !.p = p]]
  /\ UNCHANGED <<availParas, req, sessionVars, appVars, requests>>

(* Mutant: after the timer the para is only given back. *)
GiveUp(w, p) ==
  /\ worker[w] = Idle /\ at[p] = "waiting"
  /\ Push(p)
  /\ UNCHANGED <<req, sessionVars, worker, appVars, requests>>

(* handle_reconnect, when the timer has expired. *)
HandleReconnect(w, p) ==
  /\ worker[w] = Idle /\ at[p] = "waiting"
  /\ IF Reconnect THEN at' = [at EXCEPT ![p] = "connecting"] /\ availParas' = availParas
                  ELSE Push(p)
  /\ UNCHANGED <<req, sessionVars, worker, appVars, requests>>

Answer(p) == answered' = [answered EXCEPT ![req[p]] = @ + 1]

(* on_connect with an error code only logs. *)
FailedCallback(w) ==
  /\ worker[w].at = "failed"
  /\ Answer(worker[w].p)
  /\ worker' = [worker EXCEPT ![w].at = "push"]
  /\ UNCHANGED <<paraVars, sessionVars, id, active, requests>>

-----------------------------------------------------------------------------
(* handle_connect without an error. *)

(* The connection is closed again when there is no session for it. *)
NoSession(w, p) ==
  /\ worker[w] = Idle /\ at[p] = "connecting"
  /\ availSessions = <<>>
  /\ Push(p)
  /\ UNCHANGED <<req, sessionVars, worker, appVars, requests>>

Connected(w, p) ==
  /\ worker[w] = Idle /\ at[p] = "connecting"
  /\ availSessions # <<>>
  /\ at' = [at EXCEPT ![p] = "handler"]
  /\ worker' = [worker EXCEPT ![w] =
                  [at |-> "opened", p |-> p, s |-> Head(availSessions), r |-> req[p]]]
  /\ availSessions' = Tail(availSessions)
  /\ UNCHANGED <<availParas, req, live, appVars, requests>>

(* wwan_client::on_connect: a slot that is not free refuses. *)
ConnectCallback(w) ==
  /\ worker[w].at = "opened"
  /\ Answer(worker[w].p)
  /\ LET s == worker[w].s IN
       IF id[s] # 0 THEN UNCHANGED <<id, active>>
       ELSE id' = [id EXCEPT ![s] = worker[w].r] /\ active' = active + 1
  /\ worker' = [worker EXCEPT ![w].at = "begin_read"]
  /\ UNCHANGED <<paraVars, sessionVars, requests>>

BeginRead(w) ==
  /\ worker[w].at = "begin_read"
  /\ live' = [live EXCEPT ![worker[w].s] = worker[w].r]
  /\ worker' = [worker EXCEPT ![w] = [Idle EXCEPT !.at = "push", !.p = worker[w].p]]
  /\ UNCHANGED <<paraVars, availSessions, appVars, requests>>

(* Mutant: the para is given back, and once more when it fails again. *)
PushKeepingConnect(w) ==
  /\ worker[w].at = "push"
  /\ availParas' = Append(availParas, worker[w].p)
  /\ at' = [at EXCEPT ![worker[w].p] = "connecting"]
  /\ worker' = [worker EXCEPT ![w] = Idle]
  /\ UNCHANGED <<req, sessionVars, appVars, requests>>

PushPara(w) ==
  /\ worker[w].at = "push"
  /\ Push(worker[w].p)
  /\ worker' = [worker EXCEPT ![w] = Idle]
  /\ UNCHANGED <<req, sessionVars, appVars, requests>>

-----------------------------------------------------------------------------
(* A connection ends: wnet_session_mgr::handle_close. *)
HandleClose(w, s) ==
  /\ worker[w] = Idle
  /\ live[s] # 0
  /\ live' = [live EXCEPT ![s] = 0]
  /\ worker' = [worker EXCEPT ![w] = [Idle EXCEPT !.at = "closing", !.s = s, !.r = live[s]]]
  /\ UNCHANGED <<paraVars, availSessions, appVars, requests>>

OneFewer == IF active > 0 THEN active - 1 ELSE 0

(* Mutant: the session is returned before the callback has been made. *)
ReturnFirst(w) ==
  /\ worker[w].at = "closing"
  /\ availSessions' = Append(availSessions, worker[w].s)
  /\ worker' = [worker EXCEPT ![w].at = "return"]
  /\ UNCHANGED <<paraVars, live, appVars, requests>>

(* wwan_client::on_disconnect. *)
DisconnectCallback(w) ==
  /\ worker[w].at = "closing"
  /\ LET s == worker[w].s IN
       IF id[s] # worker[w].r THEN UNCHANGED <<id, active>>
       ELSE id' = [id EXCEPT ![s] = 0] /\ active' = OneFewer
  /\ worker' = [worker EXCEPT ![w].at = "return"]
  /\ UNCHANGED <<paraVars, sessionVars, answered, requests>>

ReturnSession(w) ==
  /\ worker[w].at = "return"
  /\ availSessions' = Append(availSessions, worker[w].s)
  /\ worker' = [worker EXCEPT ![w] = Idle]
  /\ UNCHANGED <<paraVars, live, appVars, requests>>

-----------------------------------------------------------------------------
Continue(w) ==
  \/ FailedCallback(w) \/ ConnectCallback(w) \/ BeginRead(w) \/ PushPara(w)
  \/ DisconnectCallback(w) \/ ReturnSession(w)

Complete(p) ==
  \E w \in Workers : Connected(w, p) \/ NoSession(w, p)

Next ==
  \/ ConnectTo
  \/ \E w \in Workers :
       \/ Continue(w)
       \/ \E p \in Paras : ConnectFails(w, p) \/ HandleReconnect(w, p) \/ Connected(w, p)
                           \/ NoSession(w, p)
       \/ \E s \in Slots : HandleClose(w, s)

(* The io threads are scheduled and take what is due, timers expire, every  *)
(* attempt has a result, and a server that is tried again and again answers *)
(* some time.                                                               *)
Fairness ==
  /\ \A w \in Workers : WF_vars(Continue(w))
  /\ \A p \in Paras :
       /\ WF_vars(\E w \in Workers : HandleReconnect(w, p))
       /\ SF_vars(Complete(p))

Spec == Init /\ [][Next]_vars /\ Fairness

-----------------------------------------------------------------------------
Places == {"free", "connecting", "waiting", "handler", "lost"}

(* The type of every variable. A request is answered once at the most, and  *)
(* not while its para is still at it.                                       *)
TypeOK ==
  /\ availParas \in Seq(Paras) /\ at \in [Paras -> Places] /\ req \in [Paras -> 0..MaxRequests]
  /\ availSessions \in Seq(Slots) /\ live \in [Slots -> 0..MaxRequests]
  /\ worker \in [Workers -> [at : {"idle", "failed", "opened", "begin_read", "push",
                                   "closing", "return"},
                             p : 0..NumSessions, s : 0..NumSessions, r : 0..MaxRequests]]
  /\ id \in [Slots -> 0..MaxRequests] /\ active \in 0..NumSessions
  /\ requests \in 0..MaxRequests
  /\ answered \in [Requests -> {0, 1}]
  /\ \A p \in Paras : at[p] \in {"connecting", "waiting"} => answered[req[p]] = 0

RangeOf(q) == {q[i] : i \in 1..Len(q)}
Unique(q)  == Cardinality(RangeOf(q)) = Len(q)

(* However the threads interleave, a para is in the queue exactly when no   *)
(* request has it, so that safe_push never meets a full queue.              *)
ParasExact == Unique(availParas) /\ RangeOf(availParas) = {p \in Paras : at[p] = "free"}

(* A session that waits in the manager's queue is in nobody's hands: it     *)
(* does not read, and its slot in the client's table is free. Between two   *)
(* handlers the table holds the live connections, and as many as it counts. *)
SessionsExact ==
  /\ Unique(availSessions)
  /\ \A s \in RangeOf(availSessions) : live[s] = 0 /\ id[s] = 0
  /\ (\A w \in Workers : worker[w] = Idle) =>
       live = id /\ active = Cardinality({s \in Slots : id[s] # 0})

(* A request that connect_to has accepted is answered: by a connection, by   *)
(* a failure, or after as many retries as it takes.                          *)
EveryRequestAnswered == \A r \in Requests : requests >= r ~> answered[r] > 0

(* No request keeps its para for ever. *)
ParasComeBack == \A p \in Paras : at[p] = "connecting" ~> at[p] = "free"

(* "false means that the request could not be posted": then connect_to has  *)
(* not taken a para.                                                        *)
ParaKept == \A p \in Paras : at[p] # "lost"
=============================================================================
