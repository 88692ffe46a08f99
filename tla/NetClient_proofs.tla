--------------------------- MODULE NetClient_proofs ---------------------------
(***************************************************************************)
(* Theorems about NetClient, for any number of io threads, sessions and    *)
(* requests, with and without retries, and with addresses that do not      *)
(* parse.                                                                  *)
(***************************************************************************)
EXTENDS NetClient, FiniteSetTheorems, TLAPS

-----------------------------------------------------------------------------
(* The two queues. *)

(* No element is in a queue twice.                                            *)
Distinct(q) == \A i, j \in 1..Len(q) : q[i] = q[j] => i = j

(* Adding an element that a queue does not have. *)
LEMMA AppendFacts ==
  ASSUME NEW S, NEW q \in Seq(S), NEW e \in S, Distinct(q), e \notin RangeOf(q)
  PROVE  /\ Append(q, e) \in Seq(S) /\ Distinct(Append(q, e))
         /\ RangeOf(Append(q, e)) = RangeOf(q) \cup {e}
<1>1. /\ Append(q, e) \in Seq(S) /\ Len(Append(q, e)) = Len(q) + 1 /\ Len(q) \in Nat
      /\ \A i \in 1..Len(q) : Append(q, e)[i] = q[i]
      /\ Append(q, e)[Len(q) + 1] = e
  OBVIOUS
<1>2. Distinct(Append(q, e))
  BY <1>1 DEF Distinct, RangeOf
<1>3. RangeOf(Append(q, e)) = RangeOf(q) \cup {e}
  <2>1. ASSUME NEW x \in RangeOf(Append(q, e)) PROVE x \in RangeOf(q) \cup {e}
    <3>1. PICK i \in 1..Len(q) + 1 : x = Append(q, e)[i]
      BY <1>1, <2>1 DEF RangeOf
    <3> QED
      BY <1>1, <3>1 DEF RangeOf
  <2>2. ASSUME NEW x \in RangeOf(q) PROVE x \in RangeOf(Append(q, e))
    <3>1. PICK i \in 1..Len(q) : x = q[i]
      BY <2>2 DEF RangeOf
    <3>2. i \in 1..Len(Append(q, e)) /\ x = Append(q, e)[i]
      BY <1>1, <3>1
    <3> QED
      BY <3>2 DEF RangeOf
  <2>3. e \in RangeOf(Append(q, e))
    BY <1>1 DEF RangeOf
  <2> QED
    BY <2>1, <2>2, <2>3
<1> QED
  BY <1>1, <1>2, <1>3

(* Taking the first element off. *)
LEMMA TailFacts ==
  ASSUME NEW S, NEW q \in Seq(S), q # << >>, Distinct(q)
  PROVE  /\ Head(q) \in S /\ Head(q) \in RangeOf(q)
         /\ Tail(q) \in Seq(S) /\ Distinct(Tail(q))
         /\ RangeOf(Tail(q)) = RangeOf(q) \ {Head(q)}
<1>1. /\ Tail(q) \in Seq(S) /\ Len(Tail(q)) = Len(q) - 1 /\ Len(q) \in Nat /\ Len(q) > 0
      /\ Head(q) = q[1] /\ Head(q) \in S
  OBVIOUS
<1>2. \A i \in 1..Len(q) - 1 : Tail(q)[i] = q[i + 1] /\ i + 1 \in 1..Len(q)
  BY <1>1
<1>3. Distinct(Tail(q))
  <2> SUFFICES ASSUME NEW i \in 1..Len(q) - 1, NEW j \in 1..Len(q) - 1, Tail(q)[i] = Tail(q)[j]
               PROVE  i = j
    BY <1>1 DEF Distinct
  <2>1. i + 1 = j + 1
    BY <1>2 DEF Distinct
  <2> QED
    BY <1>1, <2>1
<1>4. Head(q) \in RangeOf(q)
  BY <1>1 DEF RangeOf
<1>5. ASSUME NEW x \in RangeOf(Tail(q)) PROVE x \in RangeOf(q) /\ x # Head(q)
  <2>1. PICK i \in 1..Len(q) - 1 : x = Tail(q)[i]
    BY <1>1, <1>5 DEF RangeOf
  <2>2. x = q[i + 1] /\ i + 1 \in 1..Len(q) /\ 1 \in 1..Len(q) /\ i + 1 # 1
    BY <1>1, <1>2, <2>1
  <2> QED
    BY <1>1, <2>2 DEF RangeOf, Distinct
<1>6. ASSUME NEW x \in RangeOf(q), x # Head(q) PROVE x \in RangeOf(Tail(q))
  <2>1. PICK i \in 1..Len(q) : x = q[i]
    BY <1>6 DEF RangeOf
  <2>2. i - 1 \in 1..Len(Tail(q))
    BY <1>1, <1>6, <2>1
  <2>3. Tail(q)[i - 1] = q[i]
    BY <1>1, <1>2, <2>2
  <2> QED
    BY <2>1, <2>2, <2>3 DEF RangeOf
<1> QED
  BY <1>1, <1>3, <1>4, <1>5, <1>6

(* A queue without repetitions has as many elements as are in it, and does   *)
(* not hold all of a set when one of them is somewhere else.                 *)
LEMMA CountFacts ==
  ASSUME NEW n \in Nat, NEW q \in Seq(1..n), Distinct(q)
  PROVE  /\ Unique(q)
         /\ \A e \in 1..n : e \notin RangeOf(q) => Len(q) < n
<1>1. Len(q) \in Nat /\ q \in [1..Len(q) -> RangeOf(q)] /\ RangeOf(q) \subseteq 1..n
  BY DEF RangeOf
<1>2. q \in Bijection(1..Len(q), RangeOf(q))
  <2>1. q \in Injection(1..Len(q), RangeOf(q))
    BY <1>1 DEF Injection, IsInjective, Distinct
  <2>2. q \in Surjection(1..Len(q), RangeOf(q))
    BY <1>1 DEF Surjection, RangeOf
  <2> QED
    BY <2>1, <2>2 DEF Bijection
<1>3. Cardinality(RangeOf(q)) = Len(q)
  BY <1>1, <1>2, FS_CountingElements DEF ExistsBijection
<1>4. ASSUME NEW e \in 1..n, e \notin RangeOf(q) PROVE Len(q) < n
  <2>1. IsFiniteSet(1..n) /\ Cardinality(1..n) = n
    BY FS_Interval
  <2>2. IsFiniteSet((1..n) \ {e}) /\ Cardinality((1..n) \ {e}) = n - 1
    BY <2>1, FS_RemoveElement
  <2>3. RangeOf(q) \in SUBSET ((1..n) \ {e})
    BY <1>1, <1>4
  <2>4. Cardinality(RangeOf(q)) <= n - 1
    BY <2>2, <2>3, FS_Subset
  <2> QED
    BY <1>1, <1>3, <2>4
<1> QED
  BY <1>3, <1>4 DEF Unique

-----------------------------------------------------------------------------
(* The records of the io threads.                                             *)
WorkerType ==
  [at : {"idle", "failed", "opened", "begin_read", "push", "closing", "return"},
   p : 0..NumSessions, s : 0..NumSessions, r : 0..MaxRequests]

(* The types without what needs an argument: one answer for each request, no *)
(* more active sessions than slots.                                         *)
Types ==
  /\ availParas \in Seq(Paras)
  /\ at \in [Paras -> Places] /\ req \in [Paras -> 0..MaxRequests]
  /\ availSessions \in Seq(Slots) /\ live \in [Slots -> 0..MaxRequests]
  /\ worker \in [Workers -> WorkerType]
  /\ id \in [Slots -> 0..MaxRequests] /\ active \in Nat
  /\ requests \in 0..MaxRequests
  /\ answered \in [Requests -> Nat]

HasPara    == {"failed", "opened", "begin_read", "push"}

(* The places at which a worker has a session in hand.                        *)
HasSession == {"opened", "begin_read", "closing", "return"}

(* A para is in the queue when it is free, and in the hands of one worker at *)
(* the most.                                                                *)
ParaInv ==
  /\ Distinct(availParas)
  /\ RangeOf(availParas) = {p \in Paras : at[p] = "free"}
  /\ \A w \in Workers : worker[w].at \in HasPara =>
       worker[w].p \in Paras /\ at[worker[w].p] = "handler"
  /\ \A v, w \in Workers :
       worker[v].at \in HasPara /\ worker[w].at \in HasPara /\ worker[v].p = worker[w].p => v = w

(* A session waits in the queue, is in the hands of one worker, or reads. *)
SessionInv ==
  /\ Distinct(availSessions)
  /\ \A s \in RangeOf(availSessions) : live[s] = 0
  /\ \A w \in Workers : worker[w].at \in HasSession =>
       /\ worker[w].s \in Slots
       /\ live[worker[w].s] = 0
       /\ worker[w].s \notin RangeOf(availSessions)
  /\ \A v, w \in Workers :
       worker[v].at \in HasSession /\ worker[w].at \in HasSession /\ worker[v].s = worker[w].s
         => v = w

(* Paras that are not free are for different requests, which are not answered *)
(* before the callback.                                                     *)
RequestInv ==
  /\ \A p \in Paras : at[p] # "free" => req[p] \in 1..requests
  /\ \A p, q \in Paras : at[p] # "free" /\ at[q] # "free" /\ req[p] = req[q] => p = q
  /\ \A r \in Requests : answered[r] <= 1 /\ (r > requests => answered[r] = 0)
  /\ \A p \in Paras : at[p] \in {"connecting", "waiting"} => answered[req[p]] = 0
  /\ \A w \in Workers : worker[w].at \in {"failed", "opened"} => answered[req[worker[w].p]] = 0
  /\ \A w \in Workers : worker[w].at \in HasSession => worker[w].r # 0

(* What the client's table has for a session follows from who has it. *)
TableInv ==
  /\ \A s \in RangeOf(availSessions) : id[s] = 0
  /\ \A s \in Slots : live[s] # 0 => id[s] = live[s]
  /\ \A w \in Workers :
       /\ worker[w].at \in {"opened", "return"} => id[worker[w].s] = 0
       /\ worker[w].at \in {"begin_read", "closing"} => id[worker[w].s] = worker[w].r
  /\ \A s \in Slots : id[s] # 0 /\ live[s] = 0 =>
       \E w \in Workers : worker[w].at \in {"begin_read", "closing"} /\ worker[w].s = s

(* The slots in use. *)
Used(f) == {s \in Slots : f[s] # 0}

(* m_active_session_num is the number of slots in use.                        *)
CountInv == active = Cardinality(Used(id))

(* The sets of the module as intervals.                                       *)
LEMMA Numbers ==
  ASSUME NetClientAssumption
  PROVE  /\ NumSessions \in Nat \ {0} /\ MaxRequests \in Nat
         /\ Slots = 1..NumSessions /\ Paras = 1..NumSessions /\ Requests = 1..MaxRequests
BY DEF NetClientAssumption, Slots, Paras, Requests

(* Types, one variable at a time.                                             *)
LEMMA TypeParts ==
  ASSUME Types
  PROVE  /\ availParas \in Seq(Paras)
         /\ at \in [Paras -> Places] /\ req \in [Paras -> 0..MaxRequests]
         /\ availSessions \in Seq(Slots) /\ live \in [Slots -> 0..MaxRequests]
         /\ worker \in [Workers -> WorkerType]
         /\ id \in [Slots -> 0..MaxRequests] /\ active \in Nat
         /\ requests \in 0..MaxRequests
         /\ answered \in [Requests -> Nat]
BY DEF Types

(* The fields of a worker.                                                    *)
LEMMA WorkerFacts ==
  ASSUME Types, NEW w \in Workers
  PROVE  /\ worker[w].at \in {"idle", "failed", "opened", "begin_read", "push", "closing",
                              "return"}
         /\ worker[w].p \in 0..NumSessions /\ worker[w].s \in 0..NumSessions
         /\ worker[w].r \in 0..MaxRequests
         /\ worker[w] = Idle => worker[w].at = "idle"
BY TypeParts DEF WorkerType, Idle

(* A handler goes on: the worker keeps its para and its session. *)
LEMMA GoesOn ==
  ASSUME NetClientAssumption, Types, NEW w \in Workers,
         NEW pc \in {"idle", "failed", "opened", "begin_read", "push", "closing", "return"},
         worker' = [worker EXCEPT ![w].at = pc]
  PROVE  /\ worker'[w].at = pc
         /\ worker'[w].p = worker[w].p /\ worker'[w].s = worker[w].s /\ worker'[w].r = worker[w].r
         /\ \A v \in Workers : v # w => worker'[v] = worker[v]
         /\ worker' \in [Workers -> WorkerType]
BY TypeParts DEF WorkerType

(* Pointwise what an assignment to a member does. *)
LEMMA AtMoves ==
  ASSUME Types, NEW p \in Paras, NEW x \in Places, at' = [at EXCEPT ![p] = x]
  PROVE  /\ at' \in [Paras -> Places] /\ at'[p] = x
         /\ \A q \in Paras : q # p => at'[q] = at[q]
BY TypeParts

(* A slot gets or loses its connection.                                       *)
LEMMA LiveMoves ==
  ASSUME Types, NEW s \in Slots, NEW r \in 0..MaxRequests, live' = [live EXCEPT ![s] = r]
  PROVE  /\ live' \in [Slots -> 0..MaxRequests] /\ live'[s] = r
         /\ \A t \in Slots : t # s => live'[t] = live[t]
BY TypeParts

(* The application enters or removes a session.                               *)
LEMMA IdMoves ==
  ASSUME Types, NEW s \in Slots, NEW r \in 0..MaxRequests, id' = [id EXCEPT ![s] = r]
  PROVE  /\ id' \in [Slots -> 0..MaxRequests] /\ id'[s] = r
         /\ \A t \in Slots : t # s => id'[t] = id[t]
BY TypeParts

(* A request is answered.                                                     *)
LEMMA AnswerMoves ==
  ASSUME Types, NEW p \in Paras, Answer(p)
  PROVE  /\ answered' \in [Requests -> Nat]
         /\ \A r \in Requests :
              answered'[r] = IF r = req[p] THEN answered[r] + 1 ELSE answered[r]
<1>1. PICK n : n = req[p]
  OBVIOUS
<1>2. answered' = [answered EXCEPT ![n] = answered[n] + 1] /\ answered \in [Requests -> Nat]
  BY <1>1, TypeParts DEF Answer
<1>3. \A r \in Requests : answered'[r] = IF r = n THEN answered[r] + 1 ELSE answered[r]
  BY <1>2
<1>4. answered' \in [Requests -> Nat]
  <2>1. CASE n \in Requests
    <3>1. answered[n] + 1 \in Nat
      BY <1>2, <2>1
    <3> QED
      BY <1>2, <3>1
  <2>2. CASE n \notin Requests
    <3>1. answered' = answered
      BY <1>2, <2>2
    <3> QED
      BY <1>2, <3>1
  <2> QED
    BY <2>1, <2>2
<1> QED
  BY <1>1, <1>3, <1>4

(* What the two queues hold.                                                  *)
LEMMA RangeFacts ==
  ASSUME Types
  PROVE  RangeOf(availParas) \subseteq Paras /\ RangeOf(availSessions) \subseteq Slots
BY TypeParts, SMTT(30) DEF RangeOf

(* A worker starts on something else. *)
LEMMA StartsOn ==
  ASSUME NetClientAssumption, Types, NEW w \in Workers, NEW x \in WorkerType,
         worker' = [worker EXCEPT ![w] = x]
  PROVE  /\ worker'[w] = x
         /\ \A v \in Workers : v # w => worker'[v] = worker[v]
         /\ worker' \in [Workers -> WorkerType]
BY TypeParts

(* The values a worker starts with. *)
LEMMA StartFailed ==
  ASSUME NEW x \in WorkerType, NEW p \in 0..NumSessions
  PROVE  /\ [x EXCEPT !.at = "failed", !.p = p] \in WorkerType
         /\ [x EXCEPT !.at = "failed", !.p = p].at = "failed"
         /\ [x EXCEPT !.at = "failed", !.p = p].p = p
BY DEF WorkerType

(* A worker that has to give back a parameter.                                *)
LEMMA StartPush ==
  ASSUME NEW x \in WorkerType, NEW p \in 0..NumSessions
  PROVE  /\ [x EXCEPT !.at = "push", !.p = p] \in WorkerType
         /\ [x EXCEPT !.at = "push", !.p = p].at = "push"
         /\ [x EXCEPT !.at = "push", !.p = p].p = p
BY DEF WorkerType

(* A worker at rest, and one that opens a session.                            *)
LEMMA Starts ==
  ASSUME NetClientAssumption
  PROVE  /\ Idle \in WorkerType /\ Idle.at = "idle"
         /\ \A p \in Paras, s \in Slots, r \in 0..MaxRequests :
              [at |-> "opened", p |-> p, s |-> s, r |-> r] \in WorkerType
BY Numbers DEF WorkerType, Idle

(* safe_push never meets a full queue. *)
LEMMA PushMoves ==
  ASSUME NetClientAssumption, Types, ParaInv, NEW p \in Paras, at[p] # "free", Push(p)
  PROVE  /\ availParas' \in Seq(Paras) /\ Distinct(availParas')
         /\ RangeOf(availParas') = RangeOf(availParas) \cup {p}
         /\ at' = [at EXCEPT ![p] = "free"]
<1>1. Distinct(availParas) /\ p \notin RangeOf(availParas)
  BY DEF ParaInv
<1>2. availParas \in Seq(1..NumSessions) /\ NumSessions \in Nat /\ p \in 1..NumSessions
  BY Numbers, TypeParts
<1>3. Len(availParas) < NumSessions
  BY <1>1, <1>2, CountFacts
<1>4. availParas' = Append(availParas, p)
  BY <1>3 DEF Push
<1> QED
  BY <1>1, <1>4, TypeParts, AppendFacts DEF Push

-----------------------------------------------------------------------------
(* What each action does. *)

(* connect_to takes a parameter from the queue.                               *)
LEMMA ConnectToMoves ==
  ASSUME NetClientAssumption, Types, ParaInv, ConnectTo
  PROVE  \E p \in Paras :
           /\ at[p] = "free" /\ p \in RangeOf(availParas)
           /\ availParas' \in Seq(Paras) /\ Distinct(availParas')
           /\ RangeOf(availParas') = RangeOf(availParas) \ {p}
           /\ \E fate \in {"connecting", "lost"} : at' = [at EXCEPT ![p] = fate]
           /\ req' = [req EXCEPT ![p] = requests + 1]
           /\ requests' = requests + 1 /\ requests < MaxRequests
           /\ UNCHANGED <<availSessions, live, worker, id, active, answered>>
<1>1. availParas # << >> /\ Distinct(availParas) /\ availParas \in Seq(Paras)
  BY TypeParts DEF ConnectTo, ParaInv
<1>2. /\ Head(availParas) \in Paras /\ Head(availParas) \in RangeOf(availParas)
      /\ Tail(availParas) \in Seq(Paras) /\ Distinct(Tail(availParas))
      /\ RangeOf(Tail(availParas)) = RangeOf(availParas) \ {Head(availParas)}
  BY <1>1, TailFacts
<1>3. at[Head(availParas)] = "free"
  BY <1>2 DEF ParaInv
<1> QED
  BY <1>2, <1>3 DEF ConnectTo, sessionVars, appVars

(* A connect fails: it waits to be tried again, or a worker reports it.       *)
LEMMA ConnectFailsMoves ==
  ASSUME NetClientAssumption, Types, NEW w \in Workers, NEW p \in Paras, ConnectFails(w, p)
  PROVE  /\ worker[w].at = "idle" /\ at[p] = "connecting"
         /\ \/ at' = [at EXCEPT ![p] = "waiting"] /\ worker' = worker
            \/ /\ at' = [at EXCEPT ![p] = "handler"]
               /\ worker'[w].at = "failed" /\ worker'[w].p = p
               /\ \A v \in Workers : v # w => worker'[v] = worker[v]
         /\ worker' \in [Workers -> WorkerType]
         /\ UNCHANGED <<availParas, req, availSessions, live, id, active, requests, answered>>
<1>1. worker[w].at = "idle" /\ at[p] = "connecting"
  BY WorkerFacts DEF ConnectFails
<1>2. CASE worker' = worker
  BY <1>1, <1>2, TypeParts DEF ConnectFails, sessionVars, appVars, Idle
<1>3. CASE worker' = [worker EXCEPT ![w] = [Idle EXCEPT !.at = "failed", !.p = p]]
  <2>1. /\ [Idle EXCEPT !.at = "failed", !.p = p] \in WorkerType
        /\ [Idle EXCEPT !.at = "failed", !.p = p].at = "failed"
        /\ [Idle EXCEPT !.at = "failed", !.p = p].p = p
    <3>1. p \in 0..NumSessions /\ Idle \in WorkerType
      BY Numbers, Starts
    <3> QED
      BY <3>1, StartFailed
  <2>2. /\ worker'[w].at = "failed" /\ worker'[w].p = p
        /\ \A v \in Workers : v # w => worker'[v] = worker[v]
        /\ worker' \in [Workers -> WorkerType]
    BY <1>3, <2>1, StartsOn
  <2>3. at' = [at EXCEPT ![p] = "waiting"] \/ at' = [at EXCEPT ![p] = "handler"]
    BY DEF ConnectFails
  <2>4. CASE worker' = worker
    BY <1>2, <2>4
  <2>5. CASE worker' # worker
    BY <1>1, <2>2, <2>5 DEF ConnectFails, sessionVars, appVars
  <2> QED
    BY <2>4, <2>5
<1> QED
  BY <1>2, <1>3 DEF ConnectFails

(* The timer of a request runs out: it is tried again, or given up.           *)
LEMMA HandleReconnectMoves ==
  ASSUME NetClientAssumption, Types, ParaInv, NEW w \in Workers, NEW p \in Paras, HandleReconnect(w, p)
  PROVE  /\ worker[w].at = "idle" /\ at[p] = "waiting"
         /\ \/ at' = [at EXCEPT ![p] = "connecting"] /\ availParas' = availParas
            \/ Push(p)
         /\ UNCHANGED <<req, availSessions, live, worker, id, active, requests, answered>>
BY WorkerFacts DEF HandleReconnect, sessionVars, appVars

(* A connection for which there is no session.                                *)
LEMMA NoSessionMoves ==
  ASSUME NetClientAssumption, Types, ParaInv, NEW w \in Workers, NEW p \in Paras, NoSession(w, p)
  PROVE  /\ at[p] = "connecting" /\ Push(p)
         /\ UNCHANGED <<req, availSessions, live, worker, id, active, requests, answered>>
BY DEF NoSession, sessionVars, appVars

(* The callback of a failed request.                                          *)
LEMMA FailedCallbackMoves ==
  ASSUME NetClientAssumption, Types, NEW w \in Workers, FailedCallback(w)
  PROVE  /\ worker[w].at = "failed" /\ worker'[w].at = "push"
         /\ worker'[w].p = worker[w].p /\ worker'[w].s = worker[w].s /\ worker'[w].r = worker[w].r
         /\ \A v \in Workers : v # w => worker'[v] = worker[v]
         /\ worker' \in [Workers -> WorkerType]
         /\ Answer(worker[w].p)
         /\ UNCHANGED <<availParas, at, req, availSessions, live, id, active, requests>>
BY GoesOn DEF FailedCallback, paraVars, sessionVars

(* A connection gets a session.                                               *)
LEMMA ConnectedMoves ==
  ASSUME NetClientAssumption, Types, SessionInv, NEW w \in Workers, NEW p \in Paras, Connected(w, p)
  PROVE  /\ worker[w].at = "idle" /\ at[p] = "connecting"
         /\ at' = [at EXCEPT ![p] = "handler"]
         /\ worker'[w].at = "opened" /\ worker'[w].p = p /\ worker'[w].r = req[p]
         /\ worker'[w].s \in Slots /\ worker'[w].s \in RangeOf(availSessions)
         /\ \A v \in Workers : v # w => worker'[v] = worker[v]
         /\ worker' \in [Workers -> WorkerType]
         /\ availSessions' \in Seq(Slots) /\ Distinct(availSessions')
         /\ RangeOf(availSessions') = RangeOf(availSessions) \ {worker'[w].s}
         /\ UNCHANGED <<availParas, req, live, id, active, requests, answered>>
<1>1. availSessions # << >> /\ Distinct(availSessions) /\ availSessions \in Seq(Slots)
  BY TypeParts DEF Connected, SessionInv
<1>2. /\ Head(availSessions) \in Slots /\ Head(availSessions) \in RangeOf(availSessions)
      /\ Tail(availSessions) \in Seq(Slots) /\ Distinct(Tail(availSessions))
      /\ RangeOf(Tail(availSessions)) = RangeOf(availSessions) \ {Head(availSessions)}
  BY <1>1, TailFacts
<1>3. req[p] \in 0..MaxRequests
  BY TypeParts
<1>4. [at |-> "opened", p |-> p, s |-> Head(availSessions), r |-> req[p]] \in WorkerType
  BY <1>2, <1>3, Starts
<1>5. /\ worker'[w] = [at |-> "opened", p |-> p, s |-> Head(availSessions), r |-> req[p]]
      /\ \A v \in Workers : v # w => worker'[v] = worker[v]
      /\ worker' \in [Workers -> WorkerType]
  BY <1>4, StartsOn DEF Connected
<1>6. worker[w].at = "idle"
  BY WorkerFacts DEF Connected
<1> QED
  BY <1>2, <1>5, <1>6 DEF Connected, appVars

(* The callback of a connection that was made.                                *)
LEMMA ConnectCallbackMoves ==
  ASSUME NetClientAssumption, Types, NEW w \in Workers, ConnectCallback(w)
  PROVE  /\ worker[w].at = "opened" /\ worker'[w].at = "begin_read"
         /\ worker'[w].p = worker[w].p /\ worker'[w].s = worker[w].s /\ worker'[w].r = worker[w].r
         /\ \A v \in Workers : v # w => worker'[v] = worker[v]
         /\ worker' \in [Workers -> WorkerType]
         /\ Answer(worker[w].p)
         /\ IF id[worker[w].s] # 0 THEN id' = id /\ active' = active
            ELSE id' = [id EXCEPT ![worker[w].s] = worker[w].r] /\ active' = active + 1
         /\ UNCHANGED <<availParas, at, req, availSessions, live, requests>>
BY GoesOn DEF ConnectCallback, paraVars, sessionVars

(* The session becomes live.                                                  *)
LEMMA BeginReadMoves ==
  ASSUME NetClientAssumption, Types, ParaInv, NEW w \in Workers, BeginRead(w)
  PROVE  /\ worker[w].at = "begin_read" /\ worker'[w].at = "push" /\ worker'[w].p = worker[w].p
         /\ \A v \in Workers : v # w => worker'[v] = worker[v]
         /\ worker' \in [Workers -> WorkerType]
         /\ live' = [live EXCEPT ![worker[w].s] = worker[w].r]
         /\ UNCHANGED <<availParas, at, req, availSessions, id, active, requests, answered>>
<1>1. worker[w].at = "begin_read" /\ worker[w].p \in Paras
  BY DEF BeginRead, ParaInv, HasPara
<1>2. worker[w].p \in 0..NumSessions /\ Idle \in WorkerType
  BY Numbers, Starts, WorkerFacts
<1>3. /\ [Idle EXCEPT !.at = "push", !.p = worker[w].p] \in WorkerType
      /\ [Idle EXCEPT !.at = "push", !.p = worker[w].p].at = "push"
      /\ [Idle EXCEPT !.at = "push", !.p = worker[w].p].p = worker[w].p
  BY <1>1, <1>2, StartPush
<1>4. /\ worker'[w].at = "push" /\ worker'[w].p = worker[w].p
      /\ \A v \in Workers : v # w => worker'[v] = worker[v]
      /\ worker' \in [Workers -> WorkerType]
  BY <1>1, <1>3, StartsOn DEF BeginRead
<1> QED
  BY <1>1, <1>4 DEF BeginRead, paraVars, appVars

(* The parameter goes back into the queue.                                    *)
LEMMA PushParaMoves ==
  ASSUME NetClientAssumption, Types, ParaInv, NEW w \in Workers, PushPara(w)
  PROVE  /\ worker[w].at = "push" /\ worker'[w].at = "idle"
         /\ worker[w].p \in Paras /\ at[worker[w].p] = "handler" /\ Push(worker[w].p)
         /\ \A v \in Workers : v # w => worker'[v] = worker[v]
         /\ worker' \in [Workers -> WorkerType]
         /\ UNCHANGED <<req, availSessions, live, id, active, requests, answered>>
<1>1. worker[w].at = "push" /\ worker[w].p \in Paras /\ at[worker[w].p] = "handler"
  BY DEF PushPara, ParaInv, HasPara
<1>3. worker' = [worker EXCEPT ![w] = Idle]
  BY DEF PushPara
<1>4. /\ worker'[w] = Idle
      /\ \A v \in Workers : v # w => worker'[v] = worker[v]
      /\ worker' \in [Workers -> WorkerType]
  BY <1>1, <1>3, Starts, StartsOn
<1> QED
  BY <1>1, <1>4, Starts DEF PushPara, sessionVars, appVars

(* A worker closes a live session.                                            *)
LEMMA HandleCloseMoves ==
  ASSUME NetClientAssumption, Types, NEW w \in Workers, NEW s \in Slots, HandleClose(w, s)
  PROVE  /\ worker[w].at = "idle" /\ worker'[w].at = "closing"
         /\ live[s] # 0 /\ worker'[w].s = s /\ worker'[w].r = live[s]
         /\ \A v \in Workers : v # w => worker'[v] = worker[v]
         /\ worker' \in [Workers -> WorkerType]
         /\ live' = [live EXCEPT ![s] = 0]
         /\ UNCHANGED <<availParas, at, req, availSessions, id, active, requests, answered>>
<1>1. worker[w].at = "idle" /\ live[s] \in 0..MaxRequests
  BY WorkerFacts, TypeParts DEF HandleClose
<1>2. s \in 0..NumSessions /\ Idle \in WorkerType
  BY Numbers, Starts
<1>3. PICK r \in 0..MaxRequests : r = live[s]
  BY <1>1
<1>4. PICK x \in WorkerType : x = Idle
  BY <1>2
<1>5. /\ [x EXCEPT !.at = "closing", !.s = s, !.r = r] \in WorkerType
      /\ [x EXCEPT !.at = "closing", !.s = s, !.r = r].at = "closing"
      /\ [x EXCEPT !.at = "closing", !.s = s, !.r = r].s = s
      /\ [x EXCEPT !.at = "closing", !.s = s, !.r = r].r = r
  BY <1>2 DEF WorkerType
<1>6. worker' = [worker EXCEPT ![w] = [x EXCEPT !.at = "closing", !.s = s, !.r = r]]
  BY <1>3, <1>4 DEF HandleClose
<1>7. /\ worker'[w].at = "closing" /\ worker'[w].s = s /\ worker'[w].r = r
      /\ \A v \in Workers : v # w => worker'[v] = worker[v]
      /\ worker' \in [Workers -> WorkerType]
  BY <1>5, <1>6, StartsOn
<1> QED
  BY <1>1, <1>3, <1>7 DEF HandleClose, paraVars, appVars

(* The callback of a closed session.                                          *)
LEMMA DisconnectCallbackMoves ==
  ASSUME NetClientAssumption, Types, NEW w \in Workers, DisconnectCallback(w)
  PROVE  /\ worker[w].at = "closing" /\ worker'[w].at = "return"
         /\ worker'[w].p = worker[w].p /\ worker'[w].s = worker[w].s /\ worker'[w].r = worker[w].r
         /\ \A v \in Workers : v # w => worker'[v] = worker[v]
         /\ worker' \in [Workers -> WorkerType]
         /\ IF id[worker[w].s] # worker[w].r THEN id' = id /\ active' = active
            ELSE id' = [id EXCEPT ![worker[w].s] = 0] /\ active' = OneFewer
         /\ UNCHANGED <<availParas, at, req, availSessions, live, requests, answered>>
BY GoesOn DEF DisconnectCallback, paraVars, sessionVars

(* The session goes back into the queue.                                      *)
LEMMA ReturnSessionMoves ==
  ASSUME NetClientAssumption, Types, SessionInv, NEW w \in Workers, ReturnSession(w)
  PROVE  /\ worker[w].at = "return" /\ worker'[w].at = "idle"
         /\ worker[w].s \in Slots
         /\ \A v \in Workers : v # w => worker'[v] = worker[v]
         /\ worker' \in [Workers -> WorkerType]
         /\ availSessions' \in Seq(Slots) /\ Distinct(availSessions')
         /\ RangeOf(availSessions') = RangeOf(availSessions) \cup {worker[w].s}
         /\ UNCHANGED <<availParas, at, req, live, id, active, requests, answered>>
<1>1. /\ worker[w].at = "return" /\ worker[w].s \in Slots
      /\ worker[w].s \notin RangeOf(availSessions) /\ Distinct(availSessions)
  BY DEF ReturnSession, SessionInv, HasSession
<1>2. /\ availSessions' \in Seq(Slots) /\ Distinct(availSessions')
      /\ RangeOf(availSessions') = RangeOf(availSessions) \cup {worker[w].s}
  BY <1>1, TypeParts, AppendFacts DEF ReturnSession
<1>3. worker' = [worker EXCEPT ![w] = Idle]
  BY DEF ReturnSession
<1>4. /\ worker'[w] = Idle
      /\ \A v \in Workers : v # w => worker'[v] = worker[v]
      /\ worker' \in [Workers -> WorkerType]
  BY <1>1, <1>3, Starts, StartsOn
<1> QED
  BY <1>1, <1>2, <1>4, Starts DEF ReturnSession, paraVars, appVars


-----------------------------------------------------------------------------
(* The inductive invariant. *)

(* The inductive invariant holds at the start.                                *)
LEMMA InitAll ==
  ASSUME NetClientAssumption, Init
  PROVE  Types /\ ParaInv /\ SessionInv /\ RequestInv /\ TableInv /\ CountInv
<1> USE Numbers
<1>1. /\ [i \in Paras |-> i] \in Seq(Paras) /\ [i \in Slots |-> i] \in Seq(Slots)
      /\ Len([i \in Paras |-> i]) = NumSessions /\ Len([i \in Slots |-> i]) = NumSessions
  OBVIOUS
<1>2. Types
  BY <1>1 DEF Init, Types, Places, WorkerType, Idle
<1>3. ParaInv
  BY <1>1 DEF Init, ParaInv, Distinct, RangeOf, HasPara, Idle
<1>4. SessionInv
  BY <1>1 DEF Init, SessionInv, Distinct, RangeOf, HasSession, Idle
<1>5. RequestInv
  BY DEF Init, RequestInv, HasSession, Idle
<1>6. TableInv
  BY <1>1 DEF Init, TableInv, RangeOf, Idle
<1>7. CountInv
  <2>1. Used(id) = {}
    BY DEF Init, Used
  <2> QED
    BY <2>1, FS_EmptySet DEF Init, CountInv
<1> QED
  BY <1>2, <1>3, <1>4, <1>5, <1>6, <1>7

(* Every step keeps the types.                                                *)
LEMMA NextTypes ==
  ASSUME NetClientAssumption, Types, ParaInv, SessionInv, [Next]_vars
  PROVE  Types'
<1>1. CASE UNCHANGED vars
  BY <1>1 DEF Types, vars, paraVars, sessionVars, appVars
<1>2. CASE ConnectTo
  <2>1. PICK p \in Paras, fate \in {"connecting", "lost"} :
          /\ availParas' \in Seq(Paras) /\ at' = [at EXCEPT ![p] = fate]
          /\ req' = [req EXCEPT ![p] = requests + 1]
          /\ requests' = requests + 1 /\ requests < MaxRequests
          /\ UNCHANGED <<availSessions, live, worker, id, active, answered>>
    BY <1>2, ConnectToMoves
  <2>2. requests' \in 0..MaxRequests
    BY <2>1, Numbers, TypeParts
  <2>3. at' \in [Paras -> Places] /\ req' \in [Paras -> 0..MaxRequests]
    BY <2>1, <2>2, TypeParts DEF Places
  <2> QED
    BY <2>1, <2>2, <2>3, TypeParts DEF Types
<1>3. ASSUME NEW w \in Workers, FailedCallback(w) PROVE Types'
  <2>1. worker[w].p \in Paras
    BY <1>3, FailedCallbackMoves DEF ParaInv, HasPara
  <2>2. answered' \in [Requests -> Nat]
    BY <1>3, <2>1, FailedCallbackMoves, TypeParts DEF Answer
  <2> QED
    BY <1>3, <2>2, FailedCallbackMoves, TypeParts DEF Types
<1>4. ASSUME NEW w \in Workers, ConnectCallback(w) PROVE Types'
  <2>1. worker[w].s \in Slots /\ worker[w].r \in 0..MaxRequests
    BY <1>4, ConnectCallbackMoves, WorkerFacts DEF SessionInv, HasSession
  <2>2. answered' \in [Requests -> Nat]
    <3>1. worker[w].p \in Paras
      BY <1>4, ConnectCallbackMoves DEF ParaInv, HasPara
    <3> QED
      BY <1>4, <3>1, ConnectCallbackMoves, AnswerMoves
  <2>3. id' \in [Slots -> 0..MaxRequests]
    BY <1>4, <2>1, ConnectCallbackMoves, TypeParts
  <2>4. active' \in Nat
    BY <1>4, ConnectCallbackMoves, TypeParts
  <2> QED
    BY <1>4, <2>2, <2>3, <2>4, ConnectCallbackMoves, TypeParts DEF Types
<1>5. ASSUME NEW w \in Workers, BeginRead(w) PROVE Types'
  <2>1. live' \in [Slots -> 0..MaxRequests]
    BY <1>5, BeginReadMoves, TypeParts, WorkerFacts
  <2> QED
    BY <1>5, <2>1, BeginReadMoves, TypeParts DEF Types
<1>6. ASSUME NEW w \in Workers, PushPara(w) PROVE Types'
  <2>1. availParas' \in Seq(Paras) /\ at' = [at EXCEPT ![worker[w].p] = "free"]
    BY <1>6, PushParaMoves, PushMoves
  <2>2. at' \in [Paras -> Places]
    BY <2>1, TypeParts DEF Places
  <2> QED
    BY <1>6, <2>1, <2>2, PushParaMoves, TypeParts DEF Types
<1>7. ASSUME NEW w \in Workers, DisconnectCallback(w) PROVE Types'
  <2>1. worker[w].s \in Slots
    BY <1>7, DisconnectCallbackMoves DEF SessionInv, HasSession
  <2>2. id' \in [Slots -> 0..MaxRequests]
    BY <1>7, <2>1, DisconnectCallbackMoves, TypeParts, Numbers
  <2>3. active' \in Nat
    BY <1>7, DisconnectCallbackMoves, TypeParts DEF OneFewer
  <2> QED
    BY <1>7, <2>2, <2>3, DisconnectCallbackMoves, TypeParts DEF Types
<1>8. ASSUME NEW w \in Workers, ReturnSession(w) PROVE Types'
  BY <1>8, ReturnSessionMoves, TypeParts DEF Types
<1>9. ASSUME NEW w \in Workers, NEW p \in Paras, ConnectFails(w, p) PROVE Types'
  <2>1. at' \in [Paras -> Places]
    BY <1>9, ConnectFailsMoves, TypeParts DEF Places
  <2> QED
    BY <1>9, <2>1, ConnectFailsMoves, TypeParts DEF Types
<1>10. ASSUME NEW w \in Workers, NEW p \in Paras, HandleReconnect(w, p) PROVE Types'
  <2>1. at[p] # "free"
    BY <1>10, HandleReconnectMoves
  <2>2. at' \in [Paras -> Places] /\ availParas' \in Seq(Paras)
    BY <1>10, <2>1, HandleReconnectMoves, PushMoves, TypeParts DEF Places
  <2> QED
    BY <1>10, <2>2, HandleReconnectMoves, TypeParts DEF Types
<1>11. ASSUME NEW w \in Workers, NEW p \in Paras, Connected(w, p) PROVE Types'
  <2>1. at' \in [Paras -> Places]
    BY <1>11, ConnectedMoves, TypeParts, ZenonT(30) DEF Places
  <2> QED
    BY <1>11, <2>1, ConnectedMoves, TypeParts DEF Types
<1>12. ASSUME NEW w \in Workers, NEW p \in Paras, NoSession(w, p) PROVE Types'
  <2>1. at[p] # "free"
    BY <1>12, NoSessionMoves
  <2>2. at' \in [Paras -> Places] /\ availParas' \in Seq(Paras)
    BY <1>12, <2>1, NoSessionMoves, PushMoves, TypeParts DEF Places
  <2> QED
    BY <1>12, <2>2, NoSessionMoves, TypeParts DEF Types
<1>13. ASSUME NEW w \in Workers, NEW s \in Slots, HandleClose(w, s) PROVE Types'
  <2>1. live' \in [Slots -> 0..MaxRequests]
    <3>1. live' = [live EXCEPT ![s] = 0] /\ 0 \in 0..MaxRequests
      BY <1>13, HandleCloseMoves, Numbers
    <3> QED
      BY <3>1, TypeParts
  <2> QED
    BY <1>13, <2>1, HandleCloseMoves, TypeParts DEF Types
<1> QED
  BY <1>1, <1>2, <1>3, <1>4, <1>5, <1>6, <1>7, <1>8, <1>9, <1>10, <1>11, <1>12, <1>13
     DEF Next, Continue

(* A step that leaves the parameters and the workers alone keeps ParaInv.     *)
LEMMA ParaQuiet ==
  ASSUME ParaInv, UNCHANGED <<availParas, at, worker>>
  PROVE  ParaInv'
BY DEF ParaInv

(* Every step keeps ParaInv.                                                  *)
LEMMA NextParaInv ==
  ASSUME NetClientAssumption, Types, ParaInv, SessionInv, [Next]_vars
  PROVE  ParaInv'
<1>1. CASE UNCHANGED vars
  BY <1>1, ParaQuiet DEF vars, paraVars
<1>2. CASE ConnectTo
  <2>1. PICK p \in Paras, fate \in {"connecting", "lost"} :
          /\ at[p] = "free" /\ Distinct(availParas')
          /\ RangeOf(availParas') = RangeOf(availParas) \ {p}
          /\ at' = [at EXCEPT ![p] = fate] /\ worker' = worker
    BY <1>2, ConnectToMoves
  <2> QED
    BY <2>1, TypeParts DEF ParaInv
<1>3. ASSUME NEW w \in Workers, FailedCallback(w) PROVE ParaInv'
  BY <1>3, FailedCallbackMoves DEF ParaInv, HasPara
<1>4. ASSUME NEW w \in Workers, ConnectCallback(w) PROVE ParaInv'
  BY <1>4, ConnectCallbackMoves DEF ParaInv, HasPara
<1>5. ASSUME NEW w \in Workers, BeginRead(w) PROVE ParaInv'
  BY <1>5, BeginReadMoves DEF ParaInv, HasPara
<1>6. ASSUME NEW w \in Workers, PushPara(w) PROVE ParaInv'
  <2>1. /\ Distinct(availParas') /\ RangeOf(availParas') = RangeOf(availParas) \cup {worker[w].p}
        /\ at'[worker[w].p] = "free"
        /\ \A q \in Paras : q # worker[w].p => at'[q] = at[q]
    BY <1>6, PushParaMoves, PushMoves, AtMoves DEF Places
  <2>2. (Distinct(availParas) /\ RangeOf(availParas) = {p \in Paras : at[p] = "free"})'
    BY <1>6, <2>1, PushParaMoves DEF ParaInv, HasPara
  <2>3. (\A v \in Workers : worker[v].at \in HasPara => worker[v].p \in Paras /\ at[worker[v].p] = "handler")'
    BY <1>6, <2>1, PushParaMoves DEF ParaInv, HasPara
  <2>4. (\A u, v \in Workers :
           worker[u].at \in HasPara /\ worker[v].at \in HasPara /\ worker[u].p = worker[v].p => u = v)'
    BY <1>6, <2>1, PushParaMoves DEF ParaInv, HasPara
  <2> QED
    BY <2>2, <2>3, <2>4 DEF ParaInv
<1>7. ASSUME NEW w \in Workers, DisconnectCallback(w) PROVE ParaInv'
  BY <1>7, DisconnectCallbackMoves DEF ParaInv, HasPara
<1>8. ASSUME NEW w \in Workers, ReturnSession(w) PROVE ParaInv'
  BY <1>8, ReturnSessionMoves DEF ParaInv, HasPara
<1>9. ASSUME NEW w \in Workers, NEW p \in Paras, ConnectFails(w, p) PROVE ParaInv'
  <2>1. /\ at'[p] \in {"waiting", "handler"} /\ \A q \in Paras : q # p => at'[q] = at[q]
        /\ at'[p] = "handler" \/ worker' = worker
    BY <1>9, ConnectFailsMoves, AtMoves DEF Places
  <2>2. (Distinct(availParas) /\ RangeOf(availParas) = {q \in Paras : at[q] = "free"})'
    BY <1>9, <2>1, ConnectFailsMoves DEF ParaInv, HasPara
  <2>3. (\A v \in Workers : worker[v].at \in HasPara => worker[v].p \in Paras /\ at[worker[v].p] = "handler")'
    BY <1>9, <2>1, ConnectFailsMoves DEF ParaInv, HasPara
  <2>4. (\A u, v \in Workers :
           worker[u].at \in HasPara /\ worker[v].at \in HasPara /\ worker[u].p = worker[v].p => u = v)'
    BY <1>9, <2>1, ConnectFailsMoves DEF ParaInv, HasPara
  <2> QED
    BY <2>2, <2>3, <2>4 DEF ParaInv
<1>10. ASSUME NEW w \in Workers, NEW p \in Paras, HandleReconnect(w, p) PROVE ParaInv'
  <2>1. at[p] \in {"connecting", "waiting"} /\ worker' = worker
    BY <1>10, HandleReconnectMoves
  <2>2. CASE Push(p)
    <3>1. /\ Distinct(availParas') /\ RangeOf(availParas') = RangeOf(availParas) \cup {p}
          /\ at' = [at EXCEPT ![p] = "free"]
      BY <2>1, <2>2, PushMoves
    <3> QED
      BY <2>1, <3>1, TypeParts DEF ParaInv
  <2>3. CASE ~Push(p)
    <3>1. at' = [at EXCEPT ![p] = "connecting"] /\ availParas' = availParas
      BY <1>10, <2>3, HandleReconnectMoves
    <3> QED
      BY <2>1, <3>1, TypeParts DEF ParaInv
  <2> QED
    BY <2>2, <2>3
<1>11. ASSUME NEW w \in Workers, NEW p \in Paras, Connected(w, p) PROVE ParaInv'
  <2>1. at'[p] = "handler" /\ \A q \in Paras : q # p => at'[q] = at[q]
    BY <1>11, ConnectedMoves, AtMoves DEF Places
  <2>2. (Distinct(availParas) /\ RangeOf(availParas) = {q \in Paras : at[q] = "free"})'
    BY <1>11, <2>1, ConnectedMoves DEF ParaInv, HasPara
  <2>3. (\A v \in Workers : worker[v].at \in HasPara => worker[v].p \in Paras /\ at[worker[v].p] = "handler")'
    BY <1>11, <2>1, ConnectedMoves DEF ParaInv, HasPara
  <2>4. (\A u, v \in Workers :
           worker[u].at \in HasPara /\ worker[v].at \in HasPara /\ worker[u].p = worker[v].p => u = v)'
    BY <1>11, <2>1, ConnectedMoves DEF ParaInv, HasPara
  <2> QED
    BY <2>2, <2>3, <2>4 DEF ParaInv
<1>12. ASSUME NEW w \in Workers, NEW p \in Paras, NoSession(w, p) PROVE ParaInv'
  <2>1. at[p] \in {"connecting", "waiting"} /\ worker' = worker
    BY <1>12, NoSessionMoves
  <2>2. CASE Push(p)
    <3>1. /\ Distinct(availParas') /\ RangeOf(availParas') = RangeOf(availParas) \cup {p}
          /\ at' = [at EXCEPT ![p] = "free"]
      BY <2>1, <2>2, PushMoves
    <3> QED
      BY <2>1, <3>1, TypeParts DEF ParaInv
  <2>3. CASE ~Push(p)
    <3>1. at' = [at EXCEPT ![p] = "connecting"] /\ availParas' = availParas
      BY <1>12, <2>3, NoSessionMoves
    <3> QED
      BY <2>1, <3>1, TypeParts DEF ParaInv
  <2> QED
    BY <2>2, <2>3
<1>13. ASSUME NEW w \in Workers, NEW s \in Slots, HandleClose(w, s) PROVE ParaInv'
  BY <1>13, HandleCloseMoves DEF ParaInv, HasPara
<1> QED
  BY <1>1, <1>2, <1>3, <1>4, <1>5, <1>6, <1>7, <1>8, <1>9, <1>10, <1>11, <1>12, <1>13
     DEF Next, Continue

(* A step that leaves the sessions and the workers alone keeps SessionInv.    *)
LEMMA SessionQuiet ==
  ASSUME SessionInv, UNCHANGED <<availSessions, live, worker>>
  PROVE  SessionInv'
BY DEF SessionInv

(* Every step keeps SessionInv.                                               *)
LEMMA NextSessionInv ==
  ASSUME NetClientAssumption, Types, ParaInv, SessionInv, [Next]_vars
  PROVE  SessionInv'
<1>1. CASE UNCHANGED vars
  BY <1>1, SessionQuiet DEF vars, sessionVars
<1>2. CASE ConnectTo
  BY <1>2, ConnectToMoves, SessionQuiet
<1>3. ASSUME NEW w \in Workers, FailedCallback(w) PROVE SessionInv'
  BY <1>3, FailedCallbackMoves DEF SessionInv, HasSession
<1>4. ASSUME NEW w \in Workers, ConnectCallback(w) PROVE SessionInv'
  BY <1>4, ConnectCallbackMoves DEF SessionInv, HasSession
<1>5. ASSUME NEW w \in Workers, BeginRead(w) PROVE SessionInv'
  <2>1. worker[w].s \in Slots
    BY <1>5, BeginReadMoves DEF SessionInv, HasSession
  <2>2. \A t \in Slots : t # worker[w].s => live'[t] = live[t]
    BY <1>5, <2>1, BeginReadMoves, LiveMoves, WorkerFacts
  <2>3. (Distinct(availSessions) /\ \A t \in RangeOf(availSessions) : live[t] = 0)'
    BY <1>5, <2>1, <2>2, BeginReadMoves, RangeFacts DEF SessionInv, HasSession
  <2>4. (\A v \in Workers : worker[v].at \in HasSession =>
           /\ worker[v].s \in Slots /\ live[worker[v].s] = 0
           /\ worker[v].s \notin RangeOf(availSessions))'
    BY <1>5, <2>1, <2>2, BeginReadMoves, RangeFacts DEF SessionInv, HasSession
  <2>5. (\A u, v \in Workers :
           worker[u].at \in HasSession /\ worker[v].at \in HasSession /\ worker[u].s = worker[v].s
             => u = v)'
    BY <1>5, <2>1, <2>2, BeginReadMoves, RangeFacts DEF SessionInv, HasSession
  <2> QED
    BY <2>3, <2>4, <2>5 DEF SessionInv
<1>6. ASSUME NEW w \in Workers, PushPara(w) PROVE SessionInv'
  BY <1>6, PushParaMoves DEF SessionInv, HasSession
<1>7. ASSUME NEW w \in Workers, DisconnectCallback(w) PROVE SessionInv'
  BY <1>7, DisconnectCallbackMoves DEF SessionInv, HasSession
<1>8. ASSUME NEW w \in Workers, ReturnSession(w) PROVE SessionInv'
  <2>1. (Distinct(availSessions) /\ \A t \in RangeOf(availSessions) : live[t] = 0)'
    BY <1>8, ReturnSessionMoves, RangeFacts DEF SessionInv, HasSession
  <2>2. (\A v \in Workers : worker[v].at \in HasSession =>
           /\ worker[v].s \in Slots /\ live[worker[v].s] = 0
           /\ worker[v].s \notin RangeOf(availSessions))'
    BY <1>8, ReturnSessionMoves, RangeFacts DEF SessionInv, HasSession
  <2>3. (\A u, v \in Workers :
           worker[u].at \in HasSession /\ worker[v].at \in HasSession /\ worker[u].s = worker[v].s
             => u = v)'
    BY <1>8, ReturnSessionMoves, RangeFacts DEF SessionInv, HasSession
  <2> QED
    BY <2>1, <2>2, <2>3 DEF SessionInv
<1>9. ASSUME NEW w \in Workers, NEW p \in Paras, ConnectFails(w, p) PROVE SessionInv'
  BY <1>9, ConnectFailsMoves DEF SessionInv, HasSession
<1>10. ASSUME NEW w \in Workers, NEW p \in Paras, HandleReconnect(w, p) PROVE SessionInv'
  BY <1>10, HandleReconnectMoves, SessionQuiet
<1>11. ASSUME NEW w \in Workers, NEW p \in Paras, Connected(w, p) PROVE SessionInv'
  <2>1. (Distinct(availSessions) /\ \A t \in RangeOf(availSessions) : live[t] = 0)'
    BY <1>11, ConnectedMoves, RangeFacts DEF SessionInv, HasSession
  <2>2. (\A v \in Workers : worker[v].at \in HasSession =>
           /\ worker[v].s \in Slots /\ live[worker[v].s] = 0
           /\ worker[v].s \notin RangeOf(availSessions))'
    BY <1>11, ConnectedMoves, RangeFacts DEF SessionInv, HasSession
  <2>3. (\A u, v \in Workers :
           worker[u].at \in HasSession /\ worker[v].at \in HasSession /\ worker[u].s = worker[v].s
             => u = v)'
    BY <1>11, ConnectedMoves, RangeFacts DEF SessionInv, HasSession
  <2> QED
    BY <2>1, <2>2, <2>3 DEF SessionInv
<1>12. ASSUME NEW w \in Workers, NEW p \in Paras, NoSession(w, p) PROVE SessionInv'
  BY <1>12, NoSessionMoves, SessionQuiet
<1>13. ASSUME NEW w \in Workers, NEW s \in Slots, HandleClose(w, s) PROVE SessionInv'
  <2>1. live'[s] = 0 /\ \A t \in Slots : t # s => live'[t] = live[t]
    BY <1>13, HandleCloseMoves, LiveMoves, Numbers
  <2>2. s \notin RangeOf(availSessions)
    BY <1>13, HandleCloseMoves DEF SessionInv
  <2>3. (Distinct(availSessions) /\ \A t \in RangeOf(availSessions) : live[t] = 0)'
    BY <1>13, <2>1, <2>2, HandleCloseMoves, RangeFacts DEF SessionInv, HasSession
  <2>4. (\A v \in Workers : worker[v].at \in HasSession =>
           /\ worker[v].s \in Slots /\ live[worker[v].s] = 0
           /\ worker[v].s \notin RangeOf(availSessions))'
    BY <1>13, <2>1, <2>2, HandleCloseMoves, RangeFacts DEF SessionInv, HasSession
  <2>5. (\A u, v \in Workers :
           worker[u].at \in HasSession /\ worker[v].at \in HasSession /\ worker[u].s = worker[v].s
             => u = v)'
    BY <1>13, <2>1, <2>2, HandleCloseMoves, RangeFacts DEF SessionInv, HasSession
  <2> QED
    BY <2>3, <2>4, <2>5 DEF SessionInv
<1> QED
  BY <1>1, <1>2, <1>3, <1>4, <1>5, <1>6, <1>7, <1>8, <1>9, <1>10, <1>11, <1>12, <1>13
     DEF Next, Continue

(* The request of a para, and its answers, are numbers. *)
LEMMA RequestFacts ==
  ASSUME NetClientAssumption, Types
  PROVE  /\ requests \in Nat /\ requests <= MaxRequests /\ MaxRequests \in Nat
         /\ \A p \in Paras : req[p] \in Nat
         /\ \A r \in Requests : r \in Nat /\ answered[r] \in Nat
         /\ \A r \in 1..requests : r \in Requests
BY TypeParts, Numbers

(* A step that leaves the requests and the workers alone keeps RequestInv.    *)
LEMMA RequestQuiet ==
  ASSUME RequestInv, UNCHANGED <<at, req, requests, answered, worker>>
  PROVE  RequestInv'
BY DEF RequestInv

(* Only what is free may have changed: a para is given back. *)
LEMMA RequestFreed ==
  ASSUME RequestInv, NEW p \in Paras, at'[p] = "free",
         \A q \in Paras : q # p => at'[q] = at[q],
         UNCHANGED <<req, requests, answered>>,
         \A v \in Workers :
           \/ worker'[v] = worker[v]
           \/ worker'[v].at = "idle"
  PROVE  RequestInv'
BY DEF RequestInv, HasSession

(* Every step keeps RequestInv.                                               *)
LEMMA NextRequestInv ==
  ASSUME NetClientAssumption, Types, ParaInv, SessionInv, RequestInv, [Next]_vars
  PROVE  RequestInv'
<1>1. CASE UNCHANGED vars
  BY <1>1, RequestQuiet DEF vars, paraVars, sessionVars, appVars
<1>2. CASE ConnectTo
  <2>1. PICK p \in Paras, fate \in {"connecting", "lost"} :
          /\ at[p] = "free" /\ at' = [at EXCEPT ![p] = fate]
          /\ req' = [req EXCEPT ![p] = requests + 1]
          /\ requests' = requests + 1 /\ requests < MaxRequests
          /\ answered' = answered /\ worker' = worker
    BY <1>2, ConnectToMoves
  <2>2. \A q \in Paras : q # p => at'[q] = at[q] /\ req'[q] = req[q]
    BY <2>1, TypeParts
  <2>3. req'[p] = requests' /\ at'[p] # "free" /\ requests' \in Requests
    BY <2>1, RequestFacts, TypeParts, Numbers
  <2>4. \A q \in Paras : at[q] # "free" => q # p /\ req[q] \in 1..requests
    BY <2>1 DEF RequestInv
  <2>5. \A v \in Workers : worker[v].at \in {"failed", "opened"} =>
          worker[v].p \in Paras /\ worker[v].p # p
    BY <2>1 DEF ParaInv, HasPara
  <2>6. (\A q \in Paras : at[q] # "free" => req[q] \in 1..requests)'
    BY <2>1, <2>2, <2>3, <2>4, RequestFacts DEF RequestInv
  <2>7. (\A q, t \in Paras : at[q] # "free" /\ at[t] # "free" /\ req[q] = req[t] => q = t)'
    BY <2>1, <2>2, <2>3, <2>4, RequestFacts DEF RequestInv
  <2>8. (\A r \in Requests : answered[r] <= 1 /\ (r > requests => answered[r] = 0))'
    BY <2>1, RequestFacts DEF RequestInv
  <2>9. (\A q \in Paras : at[q] \in {"connecting", "waiting"} => answered[req[q]] = 0)'
    BY <2>1, <2>2, <2>3, <2>4, RequestFacts DEF RequestInv
  <2>10. (\A v \in Workers : worker[v].at \in {"failed", "opened"} => answered[req[worker[v].p]] = 0)'
    BY <2>1, <2>2, <2>5 DEF RequestInv
  <2>11. (\A v \in Workers : worker[v].at \in HasSession => worker[v].r # 0)'
    BY <2>1 DEF RequestInv
  <2> QED
    BY <2>6, <2>7, <2>8, <2>9, <2>10, <2>11 DEF RequestInv
<1>3. ASSUME NEW w \in Workers, FailedCallback(w) PROVE RequestInv'
  <2>1. /\ worker[w].p \in Paras /\ at[worker[w].p] = "handler"
        /\ req[worker[w].p] \in 1..requests /\ answered[req[worker[w].p]] = 0
    BY <1>3, FailedCallbackMoves DEF ParaInv, HasPara, RequestInv
  <2>2. \A r \in Requests :
          answered'[r] = IF r = req[worker[w].p] THEN answered[r] + 1 ELSE answered[r]
    BY <1>3, <2>1, FailedCallbackMoves, AnswerMoves
  <2>3. \A q \in Paras : at[q] # "free" /\ q # worker[w].p =>
          req[q] \in Requests /\ req[q] # req[worker[w].p]
    BY <2>1, RequestFacts DEF RequestInv
  <2>4. \A v \in Workers : v # w /\ worker[v].at \in {"failed", "opened"} =>
          /\ worker[v].p \in Paras /\ at[worker[v].p] = "handler"
          /\ worker[v].p # worker[w].p
    BY <1>3, FailedCallbackMoves DEF ParaInv, HasPara
  <2>5. (\A q \in Paras : at[q] # "free" => req[q] \in 1..requests)'
    BY <1>3, FailedCallbackMoves DEF RequestInv, HasSession
  <2>6. (\A q, t \in Paras : at[q] # "free" /\ at[t] # "free" /\ req[q] = req[t] => q = t)'
    BY <1>3, FailedCallbackMoves DEF RequestInv, HasSession
  <2>7. (\A r \in Requests : answered[r] <= 1 /\ (r > requests => answered[r] = 0))'
    BY <1>3, <2>1, <2>2, FailedCallbackMoves, RequestFacts DEF RequestInv, HasSession
  <2>8. (\A q \in Paras : at[q] \in {"connecting", "waiting"} => answered[req[q]] = 0)'
    BY <1>3, <2>1, <2>2, <2>3, FailedCallbackMoves DEF RequestInv, HasSession
  <2>9. (\A v \in Workers : worker[v].at \in {"failed", "opened"} => answered[req[worker[v].p]] = 0)'
    BY <1>3, <2>2, <2>3, <2>4, FailedCallbackMoves DEF RequestInv, HasSession
  <2>10. (\A v \in Workers : worker[v].at \in HasSession => worker[v].r # 0)'
    BY <1>3, FailedCallbackMoves DEF RequestInv, HasSession
  <2> QED
    BY <2>5, <2>6, <2>7, <2>8, <2>9, <2>10 DEF RequestInv
<1>4. ASSUME NEW w \in Workers, ConnectCallback(w) PROVE RequestInv'
  <2>1. /\ worker[w].p \in Paras /\ at[worker[w].p] = "handler"
        /\ req[worker[w].p] \in 1..requests /\ answered[req[worker[w].p]] = 0
    BY <1>4, ConnectCallbackMoves DEF ParaInv, HasPara, RequestInv
  <2>2. \A r \in Requests :
          answered'[r] = IF r = req[worker[w].p] THEN answered[r] + 1 ELSE answered[r]
    BY <1>4, <2>1, ConnectCallbackMoves, AnswerMoves
  <2>3. \A q \in Paras : at[q] # "free" /\ q # worker[w].p =>
          req[q] \in Requests /\ req[q] # req[worker[w].p]
    BY <2>1, RequestFacts DEF RequestInv
  <2>4. \A v \in Workers : v # w /\ worker[v].at \in {"failed", "opened"} =>
          /\ worker[v].p \in Paras /\ at[worker[v].p] = "handler"
          /\ worker[v].p # worker[w].p
    BY <1>4, ConnectCallbackMoves DEF ParaInv, HasPara
  <2>5. (\A q \in Paras : at[q] # "free" => req[q] \in 1..requests)'
    BY <1>4, ConnectCallbackMoves DEF RequestInv, HasSession
  <2>6. (\A q, t \in Paras : at[q] # "free" /\ at[t] # "free" /\ req[q] = req[t] => q = t)'
    BY <1>4, ConnectCallbackMoves DEF RequestInv, HasSession
  <2>7. (\A r \in Requests : answered[r] <= 1 /\ (r > requests => answered[r] = 0))'
    BY <1>4, <2>1, <2>2, ConnectCallbackMoves, RequestFacts DEF RequestInv, HasSession
  <2>8. (\A q \in Paras : at[q] \in {"connecting", "waiting"} => answered[req[q]] = 0)'
    BY <1>4, <2>1, <2>2, <2>3, ConnectCallbackMoves DEF RequestInv, HasSession
  <2>9. (\A v \in Workers : worker[v].at \in {"failed", "opened"} => answered[req[worker[v].p]] = 0)'
    BY <1>4, <2>2, <2>3, <2>4, ConnectCallbackMoves DEF RequestInv, HasSession
  <2>10. (\A v \in Workers : worker[v].at \in HasSession => worker[v].r # 0)'
    BY <1>4, ConnectCallbackMoves DEF RequestInv, HasSession
  <2> QED
    BY <2>5, <2>6, <2>7, <2>8, <2>9, <2>10 DEF RequestInv
<1>5. ASSUME NEW w \in Workers, BeginRead(w) PROVE RequestInv'
  BY <1>5, BeginReadMoves DEF RequestInv, HasSession
<1>6. ASSUME NEW w \in Workers, PushPara(w) PROVE RequestInv'
  <2>1. at'[worker[w].p] = "free" /\ \A q \in Paras : q # worker[w].p => at'[q] = at[q]
    BY <1>6, PushParaMoves, PushMoves, AtMoves DEF Places
  <2> QED
    BY <1>6, <2>1, PushParaMoves, RequestFreed
<1>7. ASSUME NEW w \in Workers, DisconnectCallback(w) PROVE RequestInv'
  BY <1>7, DisconnectCallbackMoves DEF RequestInv, HasSession
<1>8. ASSUME NEW w \in Workers, ReturnSession(w) PROVE RequestInv'
  BY <1>8, ReturnSessionMoves DEF RequestInv, HasSession
<1>9. ASSUME NEW w \in Workers, NEW p \in Paras, ConnectFails(w, p) PROVE RequestInv'
  <2>1. /\ at'[p] \in {"waiting", "handler"} /\ \A q \in Paras : q # p => at'[q] = at[q]
        /\ at[p] = "connecting"
    BY <1>9, ConnectFailsMoves, AtMoves DEF Places
  <2>2. (\A q \in Paras : at[q] # "free" => req[q] \in 1..requests)'
    BY <1>9, <2>1, ConnectFailsMoves DEF RequestInv, HasSession
  <2>3. (\A q, t \in Paras : at[q] # "free" /\ at[t] # "free" /\ req[q] = req[t] => q = t)'
    BY <1>9, <2>1, ConnectFailsMoves DEF RequestInv, HasSession
  <2>4. (\A r \in Requests : answered[r] <= 1 /\ (r > requests => answered[r] = 0))'
    BY <1>9, <2>1, ConnectFailsMoves DEF RequestInv, HasSession
  <2>5. (\A q \in Paras : at[q] \in {"connecting", "waiting"} => answered[req[q]] = 0)'
    BY <1>9, <2>1, ConnectFailsMoves DEF RequestInv, HasSession
  <2>6. (\A v \in Workers : worker[v].at \in {"failed", "opened"} => answered[req[worker[v].p]] = 0)'
    BY <1>9, <2>1, ConnectFailsMoves DEF RequestInv, HasSession
  <2>7. (\A v \in Workers : worker[v].at \in HasSession => worker[v].r # 0)'
    BY <1>9, <2>1, ConnectFailsMoves DEF RequestInv, HasSession
  <2> QED
    BY <2>2, <2>3, <2>4, <2>5, <2>6, <2>7 DEF RequestInv
<1>10. ASSUME NEW w \in Workers, NEW p \in Paras, HandleReconnect(w, p) PROVE RequestInv'
  <2>1. /\ at[p] \in {"connecting", "waiting"}
        /\ UNCHANGED <<worker, req, requests, answered>>
    BY <1>10, HandleReconnectMoves
  <2>2. CASE Push(p)
    <3>1. at'[p] = "free" /\ \A q \in Paras : q # p => at'[q] = at[q]
      BY <2>1, <2>2, PushMoves, AtMoves DEF Places
    <3> QED
      BY <2>1, <3>1, RequestFreed
  <2>3. CASE ~Push(p)
    <3>1. at'[p] = "connecting" /\ \A q \in Paras : q # p => at'[q] = at[q]
      BY <1>10, <2>3, HandleReconnectMoves, AtMoves DEF Places
    <3> QED
      BY <2>1, <3>1 DEF RequestInv
  <2> QED
    BY <2>2, <2>3
<1>11. ASSUME NEW w \in Workers, NEW p \in Paras, Connected(w, p) PROVE RequestInv'
  <2>1. /\ at'[p] = "handler" /\ \A q \in Paras : q # p => at'[q] = at[q]
        /\ at[p] = "connecting"
    BY <1>11, ConnectedMoves, AtMoves DEF Places
  <2>2. req[p] # 0
    BY <2>1, RequestFacts DEF RequestInv
  <2>3. (\A q \in Paras : at[q] # "free" => req[q] \in 1..requests)'
    BY <1>11, <2>1, <2>2, ConnectedMoves DEF RequestInv, HasSession
  <2>4. (\A q, t \in Paras : at[q] # "free" /\ at[t] # "free" /\ req[q] = req[t] => q = t)'
    BY <1>11, <2>1, <2>2, ConnectedMoves DEF RequestInv, HasSession
  <2>5. (\A r \in Requests : answered[r] <= 1 /\ (r > requests => answered[r] = 0))'
    BY <1>11, <2>1, <2>2, ConnectedMoves DEF RequestInv, HasSession
  <2>6. (\A q \in Paras : at[q] \in {"connecting", "waiting"} => answered[req[q]] = 0)'
    BY <1>11, <2>1, <2>2, ConnectedMoves DEF RequestInv, HasSession
  <2>7. (\A v \in Workers : worker[v].at \in {"failed", "opened"} => answered[req[worker[v].p]] = 0)'
    BY <1>11, <2>1, <2>2, ConnectedMoves DEF RequestInv, HasSession
  <2>8. (\A v \in Workers : worker[v].at \in HasSession => worker[v].r # 0)'
    BY <1>11, <2>1, <2>2, ConnectedMoves DEF RequestInv, HasSession
  <2> QED
    BY <2>3, <2>4, <2>5, <2>6, <2>7, <2>8 DEF RequestInv
<1>12. ASSUME NEW w \in Workers, NEW p \in Paras, NoSession(w, p) PROVE RequestInv'
  <2>1. /\ at[p] \in {"connecting", "waiting"}
        /\ UNCHANGED <<worker, req, requests, answered>>
    BY <1>12, NoSessionMoves
  <2>2. CASE Push(p)
    <3>1. at'[p] = "free" /\ \A q \in Paras : q # p => at'[q] = at[q]
      BY <2>1, <2>2, PushMoves, AtMoves DEF Places
    <3> QED
      BY <2>1, <3>1, RequestFreed
  <2>3. CASE ~Push(p)
    <3>1. at'[p] = "connecting" /\ \A q \in Paras : q # p => at'[q] = at[q]
      BY <1>12, <2>3, NoSessionMoves, AtMoves DEF Places
    <3> QED
      BY <2>1, <3>1 DEF RequestInv
  <2> QED
    BY <2>2, <2>3
<1>13. ASSUME NEW w \in Workers, NEW s \in Slots, HandleClose(w, s) PROVE RequestInv'
  BY <1>13, HandleCloseMoves DEF RequestInv, HasSession
<1> QED
  BY <1>1, <1>2, <1>3, <1>4, <1>5, <1>6, <1>7, <1>8, <1>9, <1>10, <1>11, <1>12, <1>13
     DEF Next, Continue

(* A worker that does not have a session moves, and the table stays. *)
LEMMA TableQuiet ==
  ASSUME TableInv, UNCHANGED <<availSessions, live, id>>,
         \A v \in Workers :
           \/ worker'[v] = worker[v]
           \/ worker[v].at \notin HasSession /\ worker'[v].at \notin HasSession
  PROVE  TableInv'
BY DEF TableInv, HasSession

(* Every step keeps TableInv.                                                 *)
LEMMA NextTableInv ==
  ASSUME NetClientAssumption, Types, ParaInv, SessionInv, RequestInv, TableInv, [Next]_vars
  PROVE  TableInv'
<1>1. CASE UNCHANGED vars
  BY <1>1, TableQuiet DEF vars, paraVars, sessionVars, appVars
<1>2. CASE ConnectTo
  BY <1>2, ConnectToMoves, TableQuiet
<1>3. ASSUME NEW w \in Workers, FailedCallback(w) PROVE TableInv'
  BY <1>3, FailedCallbackMoves, TableQuiet DEF HasSession
<1>4. ASSUME NEW w \in Workers, ConnectCallback(w) PROVE TableInv'
  <2>1. /\ worker[w].s \in Slots /\ live[worker[w].s] = 0 /\ worker[w].r # 0
        /\ worker[w].s \notin RangeOf(availSessions)
        /\ \A v \in Workers : v # w /\ worker[v].at \in HasSession => worker[v].s \in Slots /\ worker[v].s # worker[w].s
    BY <1>4, ConnectCallbackMoves DEF SessionInv, RequestInv, HasSession
  <2>2. id'[worker[w].s] = worker[w].r /\ \A t \in Slots : t # worker[w].s => id'[t] = id[t]
    <3>1. id[worker[w].s] = 0
      BY <1>4, ConnectCallbackMoves DEF TableInv
    <3>2. id' = [id EXCEPT ![worker[w].s] = worker[w].r]
      BY <1>4, <3>1, ConnectCallbackMoves
    <3> QED
      BY <2>1, <3>2, IdMoves, WorkerFacts
  <2>3. (\A t \in RangeOf(availSessions) : id[t] = 0)'
    BY <1>4, <2>1, <2>2, ConnectCallbackMoves, RangeFacts DEF TableInv, HasSession
  <2>4. (\A t \in Slots : live[t] # 0 => id[t] = live[t])'
    BY <1>4, <2>1, <2>2, ConnectCallbackMoves, RangeFacts DEF TableInv, HasSession
  <2>5. (\A v \in Workers : worker[v].at \in {"opened", "return"} => id[worker[v].s] = 0)'
    BY <1>4, <2>1, <2>2, ConnectCallbackMoves, RangeFacts DEF TableInv, HasSession
  <2>6. (\A v \in Workers : worker[v].at \in {"begin_read", "closing"} => id[worker[v].s] = worker[v].r)'
    BY <1>4, <2>1, <2>2, ConnectCallbackMoves, RangeFacts DEF TableInv, HasSession
  <2>7. (\A t \in Slots : id[t] # 0 /\ live[t] = 0 =>
           \E v \in Workers : worker[v].at \in {"begin_read", "closing"} /\ worker[v].s = t)'
    <3>1. ASSUME NEW t \in Slots, id'[t] # 0, live'[t] = 0
          PROVE  \E v \in Workers : worker'[v].at \in {"begin_read", "closing"} /\ worker'[v].s = t
      <4>1. CASE t = worker[w].s
        BY <1>4, <4>1, ConnectCallbackMoves
      <4>2. CASE t # worker[w].s
        <5>1. PICK v \in Workers : worker[v].at \in {"begin_read", "closing"} /\ worker[v].s = t
          BY <1>4, <2>2, <3>1, <4>2, ConnectCallbackMoves DEF TableInv
        <5> QED
          BY <1>4, <4>2, <5>1, ConnectCallbackMoves
      <4> QED
        BY <4>1, <4>2
    <3> QED
      BY <3>1
  <2> QED
    BY <2>3, <2>4, <2>5, <2>6, <2>7 DEF TableInv
<1>5. ASSUME NEW w \in Workers, BeginRead(w) PROVE TableInv'
  <2>1. /\ worker[w].s \in Slots /\ live[worker[w].s] = 0 /\ worker[w].r # 0
        /\ worker[w].s \notin RangeOf(availSessions)
        /\ \A v \in Workers : v # w /\ worker[v].at \in HasSession => worker[v].s \in Slots /\ worker[v].s # worker[w].s
    BY <1>5, BeginReadMoves DEF SessionInv, RequestInv, HasSession
  <2>2. /\ live'[worker[w].s] = worker[w].r /\ id[worker[w].s] = worker[w].r
        /\ \A t \in Slots : t # worker[w].s => live'[t] = live[t]
    BY <1>5, <2>1, BeginReadMoves, LiveMoves, WorkerFacts DEF TableInv
  <2>3. (\A t \in RangeOf(availSessions) : id[t] = 0)'
    BY <1>5, <2>1, <2>2, BeginReadMoves, RangeFacts DEF TableInv, HasSession
  <2>4. (\A t \in Slots : live[t] # 0 => id[t] = live[t])'
    BY <1>5, <2>1, <2>2, BeginReadMoves, RangeFacts DEF TableInv, HasSession
  <2>5. (\A v \in Workers : worker[v].at \in {"opened", "return"} => id[worker[v].s] = 0)'
    BY <1>5, <2>1, <2>2, BeginReadMoves, RangeFacts DEF TableInv, HasSession
  <2>6. (\A v \in Workers : worker[v].at \in {"begin_read", "closing"} => id[worker[v].s] = worker[v].r)'
    BY <1>5, <2>1, <2>2, BeginReadMoves, RangeFacts DEF TableInv, HasSession
  <2>7. (\A t \in Slots : id[t] # 0 /\ live[t] = 0 =>
           \E v \in Workers : worker[v].at \in {"begin_read", "closing"} /\ worker[v].s = t)'
    <3>1. ASSUME NEW t \in Slots, id'[t] # 0, live'[t] = 0
          PROVE  \E v \in Workers : worker'[v].at \in {"begin_read", "closing"} /\ worker'[v].s = t
      <4>1. t # worker[w].s
        BY <2>1, <2>2, <3>1
      <4>2. PICK v \in Workers : worker[v].at \in {"begin_read", "closing"} /\ worker[v].s = t
        BY <1>5, <2>2, <3>1, <4>1, BeginReadMoves DEF TableInv
      <4> QED
        BY <1>5, <4>1, <4>2, BeginReadMoves
    <3> QED
      BY <3>1
  <2> QED
    BY <2>3, <2>4, <2>5, <2>6, <2>7 DEF TableInv
<1>6. ASSUME NEW w \in Workers, PushPara(w) PROVE TableInv'
  BY <1>6, PushParaMoves, TableQuiet DEF HasSession
<1>7. ASSUME NEW w \in Workers, DisconnectCallback(w) PROVE TableInv'
  <2>1. /\ worker[w].s \in Slots /\ live[worker[w].s] = 0 /\ worker[w].r # 0
        /\ worker[w].s \notin RangeOf(availSessions)
        /\ \A v \in Workers : v # w /\ worker[v].at \in HasSession => worker[v].s \in Slots /\ worker[v].s # worker[w].s
    BY <1>7, DisconnectCallbackMoves DEF SessionInv, RequestInv, HasSession
  <2>2. id'[worker[w].s] = 0 /\ \A t \in Slots : t # worker[w].s => id'[t] = id[t]
    <3>1. id[worker[w].s] = worker[w].r
      BY <1>7, DisconnectCallbackMoves DEF TableInv
    <3>2. id' = [id EXCEPT ![worker[w].s] = 0]
      BY <1>7, <3>1, DisconnectCallbackMoves
    <3>3. 0 \in 0..MaxRequests
      BY Numbers
    <3> QED
      BY <2>1, <3>2, <3>3, IdMoves
  <2>3. (\A t \in RangeOf(availSessions) : id[t] = 0)'
    BY <1>7, <2>1, <2>2, DisconnectCallbackMoves, RangeFacts DEF TableInv, HasSession
  <2>4. (\A t \in Slots : live[t] # 0 => id[t] = live[t])'
    BY <1>7, <2>1, <2>2, DisconnectCallbackMoves, RangeFacts DEF TableInv, HasSession
  <2>5. (\A v \in Workers : worker[v].at \in {"opened", "return"} => id[worker[v].s] = 0)'
    BY <1>7, <2>1, <2>2, DisconnectCallbackMoves, RangeFacts DEF TableInv, HasSession
  <2>6. (\A v \in Workers : worker[v].at \in {"begin_read", "closing"} => id[worker[v].s] = worker[v].r)'
    BY <1>7, <2>1, <2>2, DisconnectCallbackMoves, RangeFacts DEF TableInv, HasSession
  <2>7. (\A t \in Slots : id[t] # 0 /\ live[t] = 0 =>
           \E v \in Workers : worker[v].at \in {"begin_read", "closing"} /\ worker[v].s = t)'
    <3>1. ASSUME NEW t \in Slots, id'[t] # 0, live'[t] = 0
          PROVE  \E v \in Workers : worker'[v].at \in {"begin_read", "closing"} /\ worker'[v].s = t
      <4>1. t # worker[w].s
        BY <2>2, <3>1
      <4>2. PICK v \in Workers : worker[v].at \in {"begin_read", "closing"} /\ worker[v].s = t
        BY <1>7, <2>2, <3>1, <4>1, DisconnectCallbackMoves DEF TableInv
      <4> QED
        BY <1>7, <4>1, <4>2, DisconnectCallbackMoves
    <3> QED
      BY <3>1
  <2> QED
    BY <2>3, <2>4, <2>5, <2>6, <2>7 DEF TableInv
<1>8. ASSUME NEW w \in Workers, ReturnSession(w) PROVE TableInv'
  <2>1. id[worker[w].s] = 0
    BY <1>8, ReturnSessionMoves DEF TableInv
  <2>2. (\A t \in RangeOf(availSessions) : id[t] = 0)'
    BY <1>8, <2>1, ReturnSessionMoves DEF TableInv, HasSession
  <2>3. (\A t \in Slots : live[t] # 0 => id[t] = live[t])'
    BY <1>8, <2>1, ReturnSessionMoves DEF TableInv, HasSession
  <2>4. (\A v \in Workers : worker[v].at \in {"opened", "return"} => id[worker[v].s] = 0)'
    BY <1>8, <2>1, ReturnSessionMoves DEF TableInv, HasSession
  <2>5. (\A v \in Workers : worker[v].at \in {"begin_read", "closing"} => id[worker[v].s] = worker[v].r)'
    BY <1>8, <2>1, ReturnSessionMoves DEF TableInv, HasSession
  <2>6. (\A t \in Slots : id[t] # 0 /\ live[t] = 0 =>
           \E v \in Workers : worker[v].at \in {"begin_read", "closing"} /\ worker[v].s = t)'
    <3>1. ASSUME NEW t \in Slots, id'[t] # 0, live'[t] = 0
          PROVE  \E v \in Workers : worker'[v].at \in {"begin_read", "closing"} /\ worker'[v].s = t
      <4>1. PICK v \in Workers : worker[v].at \in {"begin_read", "closing"} /\ worker[v].s = t
        BY <1>8, <3>1, ReturnSessionMoves DEF TableInv
      <4> QED
        BY <1>8, <4>1, ReturnSessionMoves
    <3> QED
      BY <3>1
  <2> QED
    BY <2>2, <2>3, <2>4, <2>5, <2>6 DEF TableInv
<1>9. ASSUME NEW w \in Workers, NEW p \in Paras, ConnectFails(w, p) PROVE TableInv'
  <2>1. UNCHANGED <<availSessions, live, id>> /\ worker[w].at = "idle"
    BY <1>9, ConnectFailsMoves
  <2>2. \/ worker' = worker
        \/ worker'[w].at = "failed" /\ \A v \in Workers : v # w => worker'[v] = worker[v]
    BY <1>9, ConnectFailsMoves
  <2> QED
    BY <2>1, <2>2, TableQuiet DEF HasSession
<1>10. ASSUME NEW w \in Workers, NEW p \in Paras, HandleReconnect(w, p) PROVE TableInv'
  BY <1>10, HandleReconnectMoves, TableQuiet
<1>11. ASSUME NEW w \in Workers, NEW p \in Paras, Connected(w, p) PROVE TableInv'
  <2>1. (\A t \in RangeOf(availSessions) : id[t] = 0)'
    BY <1>11, ConnectedMoves DEF TableInv, HasSession
  <2>2. (\A t \in Slots : live[t] # 0 => id[t] = live[t])'
    BY <1>11, ConnectedMoves DEF TableInv, HasSession
  <2>3. (\A v \in Workers : worker[v].at \in {"opened", "return"} => id[worker[v].s] = 0)'
    BY <1>11, ConnectedMoves DEF TableInv, HasSession
  <2>4. (\A v \in Workers : worker[v].at \in {"begin_read", "closing"} => id[worker[v].s] = worker[v].r)'
    BY <1>11, ConnectedMoves DEF TableInv, HasSession
  <2>5. (\A t \in Slots : id[t] # 0 /\ live[t] = 0 =>
           \E v \in Workers : worker[v].at \in {"begin_read", "closing"} /\ worker[v].s = t)'
    <3>1. ASSUME NEW t \in Slots, id'[t] # 0, live'[t] = 0
          PROVE  \E v \in Workers : worker'[v].at \in {"begin_read", "closing"} /\ worker'[v].s = t
      <4>1. PICK v \in Workers : worker[v].at \in {"begin_read", "closing"} /\ worker[v].s = t
        BY <1>11, <3>1, ConnectedMoves DEF TableInv
      <4> QED
        BY <1>11, <4>1, ConnectedMoves
    <3> QED
      BY <3>1
  <2> QED
    BY <2>1, <2>2, <2>3, <2>4, <2>5 DEF TableInv
<1>12. ASSUME NEW w \in Workers, NEW p \in Paras, NoSession(w, p) PROVE TableInv'
  BY <1>12, NoSessionMoves, TableQuiet
<1>13. ASSUME NEW w \in Workers, NEW s \in Slots, HandleClose(w, s) PROVE TableInv'
  <2>1. live'[s] = 0 /\ \A t \in Slots : t # s => live'[t] = live[t]
    BY <1>13, HandleCloseMoves, LiveMoves, Numbers
  <2>2. id[s] = live[s] /\ live[s] # 0
    BY <1>13, HandleCloseMoves DEF TableInv
  <2>3. (\A t \in RangeOf(availSessions) : id[t] = 0)'
    BY <1>13, <2>1, <2>2, HandleCloseMoves DEF TableInv, HasSession
  <2>4. (\A t \in Slots : live[t] # 0 => id[t] = live[t])'
    BY <1>13, <2>1, <2>2, HandleCloseMoves DEF TableInv, HasSession
  <2>5. (\A v \in Workers : worker[v].at \in {"opened", "return"} => id[worker[v].s] = 0)'
    BY <1>13, <2>1, <2>2, HandleCloseMoves DEF TableInv, HasSession
  <2>6. (\A v \in Workers : worker[v].at \in {"begin_read", "closing"} => id[worker[v].s] = worker[v].r)'
    BY <1>13, <2>1, <2>2, HandleCloseMoves DEF TableInv, HasSession
  <2>7. (\A t \in Slots : id[t] # 0 /\ live[t] = 0 =>
           \E v \in Workers : worker[v].at \in {"begin_read", "closing"} /\ worker[v].s = t)'
    <3>1. ASSUME NEW t \in Slots, id'[t] # 0, live'[t] = 0
          PROVE  \E v \in Workers : worker'[v].at \in {"begin_read", "closing"} /\ worker'[v].s = t
      <4>1. CASE t = s
        BY <1>13, <4>1, HandleCloseMoves
      <4>2. CASE t # s
        <5>1. PICK v \in Workers : worker[v].at \in {"begin_read", "closing"} /\ worker[v].s = t
          BY <1>13, <2>1, <3>1, <4>2, HandleCloseMoves DEF TableInv
        <5> QED
          BY <1>13, <5>1, HandleCloseMoves
      <4> QED
        BY <4>1, <4>2
    <3> QED
      BY <3>1
  <2> QED
    BY <2>3, <2>4, <2>5, <2>6, <2>7 DEF TableInv
<1> QED
  BY <1>1, <1>2, <1>3, <1>4, <1>5, <1>6, <1>7, <1>8, <1>9, <1>10, <1>11, <1>12, <1>13
     DEF Next, Continue

(* The slots in use are finitely many.                                        *)
LEMMA UsedFacts ==
  ASSUME NetClientAssumption
  PROVE  /\ IsFiniteSet(Used(id)) /\ Cardinality(Used(id)) \in Nat
         /\ Cardinality(Used(id)) <= NumSessions
<1>1. IsFiniteSet(Slots) /\ Cardinality(Slots) = NumSessions
  BY Numbers, FS_Interval
<1>2. Used(id) \in SUBSET Slots
  BY DEF Used
<1> QED
  BY <1>1, <1>2, FS_Subset, FS_CardinalityType

(* A step that leaves the table and its count alone keeps CountInv.           *)
LEMMA CountQuiet ==
  ASSUME CountInv, UNCHANGED <<id, active>>
  PROVE  CountInv'
BY DEF CountInv, Used

(* Every step keeps CountInv.                                                 *)
LEMMA NextCountInv ==
  ASSUME NetClientAssumption, Types, ParaInv, SessionInv, RequestInv, TableInv, CountInv,
         [Next]_vars
  PROVE  CountInv'
<1>1. CASE UNCHANGED vars
  BY <1>1, CountQuiet DEF vars, paraVars, sessionVars, appVars
<1>2. CASE ConnectTo
  BY <1>2, ConnectToMoves, CountQuiet
<1>3. ASSUME NEW w \in Workers, FailedCallback(w) PROVE CountInv'
  BY <1>3, FailedCallbackMoves, CountQuiet
<1>4. ASSUME NEW w \in Workers, ConnectCallback(w) PROVE CountInv'
  <2>1. /\ worker[w].s \in Slots /\ worker[w].r # 0 /\ worker[w].r \in 0..MaxRequests
        /\ id[worker[w].s] = 0
    BY <1>4, ConnectCallbackMoves, WorkerFacts DEF SessionInv, RequestInv, HasSession,
       TableInv
  <2>2. id' = [id EXCEPT ![worker[w].s] = worker[w].r] /\ active' = active + 1
    BY <1>4, <2>1, ConnectCallbackMoves
  <2>3. Cardinality(Used(id')) = Cardinality(Used(id)) + 1
    <3>1. id'[worker[w].s] # 0 /\ \A t \in Slots : t # worker[w].s => id'[t] = id[t]
      BY <2>1, <2>2, IdMoves
    <3>2. Used(id') = Used(id) \cup {worker[w].s} /\ worker[w].s \notin Used(id)
      BY <2>1, <3>1 DEF Used
    <3> QED
      BY <3>2, UsedFacts, FS_AddElement
  <2> QED
    BY <2>2, <2>3 DEF CountInv
<1>5. ASSUME NEW w \in Workers, BeginRead(w) PROVE CountInv'
  BY <1>5, BeginReadMoves, CountQuiet
<1>6. ASSUME NEW w \in Workers, PushPara(w) PROVE CountInv'
  BY <1>6, PushParaMoves, CountQuiet
<1>7. ASSUME NEW w \in Workers, DisconnectCallback(w) PROVE CountInv'
  <2>1. worker[w].s \in Slots /\ worker[w].r # 0 /\ id[worker[w].s] = worker[w].r
    BY <1>7, DisconnectCallbackMoves DEF SessionInv, RequestInv, HasSession, TableInv
  <2>2. id' = [id EXCEPT ![worker[w].s] = 0] /\ active' = OneFewer
    BY <1>7, <2>1, DisconnectCallbackMoves
  <2>3. Used(id') = Used(id) \ {worker[w].s} /\ worker[w].s \in Used(id)
    <3>1. 0 \in 0..MaxRequests
      BY Numbers
    <3> QED
      BY <2>1, <2>2, <3>1, IdMoves DEF Used
  <2>4. Cardinality(Used(id')) = Cardinality(Used(id)) - 1
    BY <2>3, UsedFacts, FS_RemoveElement
  <2>5. Cardinality(Used(id)) \in Nat /\ Cardinality(Used(id)) # 0
    BY <2>3, UsedFacts, FS_EmptySet
  <2> QED
    BY <2>2, <2>4, <2>5 DEF CountInv, OneFewer
<1>8. ASSUME NEW w \in Workers, ReturnSession(w) PROVE CountInv'
  BY <1>8, ReturnSessionMoves, CountQuiet
<1>9. ASSUME NEW w \in Workers, NEW p \in Paras, ConnectFails(w, p) PROVE CountInv'
  BY <1>9, ConnectFailsMoves, CountQuiet
<1>10. ASSUME NEW w \in Workers, NEW p \in Paras, HandleReconnect(w, p) PROVE CountInv'
  BY <1>10, HandleReconnectMoves, CountQuiet
<1>11. ASSUME NEW w \in Workers, NEW p \in Paras, Connected(w, p) PROVE CountInv'
  BY <1>11, ConnectedMoves, CountQuiet
<1>12. ASSUME NEW w \in Workers, NEW p \in Paras, NoSession(w, p) PROVE CountInv'
  BY <1>12, NoSessionMoves, CountQuiet
<1>13. ASSUME NEW w \in Workers, NEW s \in Slots, HandleClose(w, s) PROVE CountInv'
  BY <1>13, HandleCloseMoves, CountQuiet
<1> QED
  BY <1>1, <1>2, <1>3, <1>4, <1>5, <1>6, <1>7, <1>8, <1>9, <1>10, <1>11, <1>12, <1>13
     DEF Next, Continue

-----------------------------------------------------------------------------
(* The inductive invariant.                                                   *)
IInv == Types /\ ParaInv /\ SessionInv /\ RequestInv /\ TableInv /\ CountInv

(* It is inductive.                                                           *)
LEMMA IInvInductive ==
  ASSUME NetClientAssumption
  PROVE  (Init => IInv) /\ (IInv /\ [Next]_vars => IInv')
<1>1. Init => IInv
  BY InitAll DEF IInv
<1>2. IInv /\ [Next]_vars => IInv'
  BY NextTypes, NextParaInv, NextSessionInv, NextRequestInv, NextTableInv, NextCountInv
     DEF IInv
<1> QED
  BY <1>1, <1>2

(* It implies TypeOK. *)
LEMMA TypesFollow ==
  ASSUME NetClientAssumption, IInv
  PROVE  TypeOK
<1>1. Types /\ CountInv /\ RequestInv
  BY DEF IInv
<1>2. active \in 0..NumSessions
  BY <1>1, UsedFacts, Numbers DEF CountInv
<1>3. answered \in [Requests -> {0, 1}]
  <2>1. \A r \in Requests : answered[r] \in {0, 1}
    BY <1>1, RequestFacts DEF RequestInv
  <2> QED
    BY <1>1, <2>1, TypeParts
<1>4. \A p \in Paras : at[p] \in {"connecting", "waiting"} => answered[req[p]] = 0
  BY <1>1 DEF RequestInv
<1> QED
  BY <1>1, <1>2, <1>3, <1>4 DEF TypeOK, Types, WorkerType

(* It implies ParasExact. *)
LEMMA ParasFollow ==
  ASSUME NetClientAssumption, IInv
  PROVE  ParasExact
<1>1. Types /\ ParaInv
  BY DEF IInv
<1>2. NumSessions \in Nat /\ availParas \in Seq(1..NumSessions) /\ Distinct(availParas)
  BY <1>1, TypeParts, Numbers DEF ParaInv
<1>3. Unique(availParas)
  BY <1>2, CountFacts
<1> QED
  BY <1>1, <1>3 DEF ParaInv, ParasExact

(* It implies SessionsExact. *)
LEMMA SessionsFollow ==
  ASSUME NetClientAssumption, IInv
  PROVE  SessionsExact
<1>1. Types /\ SessionInv /\ TableInv /\ CountInv
  BY DEF IInv
<1>2. NumSessions \in Nat /\ availSessions \in Seq(1..NumSessions) /\ Distinct(availSessions)
  BY <1>1, TypeParts, Numbers DEF SessionInv
<1>3. Unique(availSessions)
  BY <1>2, CountFacts
<1>4. \A s \in RangeOf(availSessions) : live[s] = 0 /\ id[s] = 0
  BY <1>1 DEF SessionInv, TableInv
<1>5. ASSUME \A w \in Workers : worker[w] = Idle PROVE live = id
  <2>1. \A w \in Workers : worker[w].at = "idle"
    BY <1>5 DEF Idle
  <2>2. \A s \in Slots : live[s] = id[s]
    BY <1>1, <2>1 DEF TableInv
  <2> QED
    BY <1>1, <2>2, TypeParts
<1>6. active = Cardinality({s \in Slots : id[s] # 0})
  BY <1>1 DEF CountInv, Used
<1> QED
  BY <1>3, <1>4, <1>5, <1>6 DEF SessionsExact

(* The type of every variable. A request is answered once at the most, and   *)
(* not while its para is still at it; no more sessions are active than there *)
(* are slots.                                                                *)
THEOREM TypeCorrect ==
  ASSUME NetClientAssumption
  PROVE  Spec => []TypeOK
BY IInvInductive, TypesFollow, PTL DEF Spec

(* A para is in the queue exactly when no request has it, so that safe_push  *)
(* never meets a full queue.                                                 *)
THEOREM ParasAreExact ==
  ASSUME NetClientAssumption
  PROVE  Spec => []ParasExact
BY IInvInductive, ParasFollow, PTL DEF Spec

(* A session in the manager's queue neither reads nor is in the table; when  *)
(* no handler runs the table holds the live connections, and as many as it   *)
(* counts.                                                                   *)
THEOREM SessionsAreExact ==
  ASSUME NetClientAssumption
  PROVE  Spec => []SessionsExact
BY IInvInductive, SessionsFollow, PTL DEF Spec
=============================================================================
