------------------------ MODULE SessionLifecycle_proofs ------------------------
(***************************************************************************)
(* Theorems about SessionLifecycle, for any number of sessions, workers    *)
(* and users.                                                              *)
(***************************************************************************)
EXTENDS SessionLifecycle, FiniteSetTheorems, TLAPS

(* A thread inside a handler works on a session. *)
LEMMA BusyOn ==
  ASSUME ThreadTypes, NEW t \in Threads, pc[t] # "idle"
  PROVE  on[t] \in Ids /\ on[t].s \in Sessions /\ on[t].g \in 1..MaxGuid
BY LifecycleAssumption DEF ThreadTypes, Ids, NoConn

(* The id of a session is one of Ids.                                         *)
LEMMA IdOfType ==
  ASSUME StateTypes, NEW s \in Sessions
  PROVE  IdOf(s) \in Ids
BY LifecycleAssumption DEF StateTypes, IdOf, Ids, NoConn

(* The program counters and what they are about, after one thread moved on. *)
LEMMA GoType ==
  ASSUME ThreadTypes, NEW t \in Threads, NEW where \in Pcs \ {"idle"}, NEW id \in Ids,
         where \in WorkerPcs => t \in Workers,
         where = "post_write" => t \in Users,
         Go(t, where, id)
  PROVE  ThreadTypes'
BY LifecycleAssumption DEF ThreadTypes, Go, Ids, NoConn

(* Where a thread goes when it is done.                                       *)
LEMMA DoneType ==
  ASSUME ThreadTypes, NEW t \in Threads, Done(t)
  PROVE  ThreadTypes'
BY LifecycleAssumption DEF ThreadTypes, Done, Go, Ids, NoConn, WorkerPcs, Pcs

(* The types hold at the start.                                               *)
LEMMA InitTypeOK == Init => TypeOK
<1> SUFFICES ASSUME Init PROVE TypeOK
  OBVIOUS
<1>1. avail \in Seq(Sessions)
  <2>1. Cardinality(Sessions) \in Nat
    BY FS_CardinalityType, LifecycleAssumption
  <2> QED
    BY <2>1 DEF Init
<1>2. StateTypes
  BY <1>1, LifecycleAssumption DEF Init, StateTypes, Statuses
<1>3. ThreadTypes
  BY LifecycleAssumption DEF Init, ThreadTypes, Pcs, WorkerPcs, NoConn, Ids
<1> QED
  BY <1>2, <1>3 DEF TypeOK

(* Every action keeps the types. *)
LEMMA NextTypeOK == TypeOK /\ [Next]_vars => TypeOK'
<1> SUFFICES ASSUME StateTypes, ThreadTypes, [Next]_vars PROVE TypeOK'
  BY DEF TypeOK
<1> USE LifecycleAssumption DEF sessionVars, bufVars, opVars, poolVars, Threads
<1>1. CASE UNCHANGED vars
  BY <1>1 DEF vars, TypeOK, StateTypes, ThreadTypes
<1>2. ASSUME NEW w \in Workers, AcceptDropped(w) PROVE TypeOK'
  BY <1>2 DEF AcceptDropped, vars, TypeOK, StateTypes, ThreadTypes
<1>3. ASSUME NEW u \in Users, NEW id \in known, UserSendQueued(u, id) PROVE TypeOK'
  BY <1>3 DEF UserSendQueued, vars, TypeOK, StateTypes, ThreadTypes
<1>4. ASSUME NEW w \in Workers, Accept(w) PROVE TypeOK'
  <2> DEFINE s == Head(avail)
  <2>1. s \in Sessions /\ IdOf(s) \in Ids /\ Tail(avail) \in Seq(Sessions)
    BY <1>4, IdOfType, SMTT(30) DEF Accept, StateTypes
  <2>2. ThreadTypes'
    BY <1>4, <2>1, GoType DEF Accept, Pcs, WorkerPcs
  <2> HIDE DEF s
  <2>3. StateTypes'
    BY <1>4, <2>1 DEF s, Accept, StateTypes, Statuses
  <2> QED
    BY <2>2, <2>3 DEF TypeOK
<1>5. ASSUME NEW w \in Workers, OpenReading(w) PROVE TypeOK'
  <2>1. on[w] \in Ids /\ on[w].s \in Sessions
    BY <1>5, BusyOn DEF OpenReading
  <2>2. ThreadTypes'
    BY <1>5, <2>1, GoType, DoneType DEF OpenReading, Pcs, WorkerPcs, ThreadTypes
  <2>3. StateTypes'
    BY <1>5, <2>1 DEF OpenReading, StateTypes
  <2> QED
    BY <2>2, <2>3 DEF TypeOK
<1>6. ASSUME NEW w \in Workers, ListenCallback(w) PROVE TypeOK'
  <2>1. on[w] \in Ids /\ on[w].s \in Sessions
    BY <1>6, BusyOn DEF ListenCallback
  <2>2. ThreadTypes'
    BY <1>6, <2>1, GoType, DoneType DEF ListenCallback, Pcs, WorkerPcs, ThreadTypes
  <2>3. StateTypes'
    <3>1. app' \in [Sessions -> 1..MaxGuid \cup {Nil}]
      BY <1>6, <2>1 DEF ListenCallback, StateTypes
    <3>2. known' \subseteq Ids
      BY <1>6, <2>1 DEF ListenCallback, StateTypes, IdOf, Ids
    <3> QED
      BY <1>6, <3>1, <3>2 DEF ListenCallback, StateTypes
  <2> QED
    BY <2>2, <2>3 DEF TypeOK
<1>7. ASSUME NEW w \in Workers, BeginRead(w) PROVE TypeOK'
  <2>1. on[w] \in Ids /\ on[w].s \in Sessions
    BY <1>7, BusyOn DEF BeginRead
  <2>2. ThreadTypes'
    BY <1>7, <2>1, GoType, DoneType DEF BeginRead, Pcs, WorkerPcs, ThreadTypes
  <2>3. StateTypes'
    <3>1. readOps' \in [Sessions -> Nat]
      <4>1. readOps' = [readOps EXCEPT ![on[w].s] = @ + 1] \/ readOps' = readOps
        BY <1>7 DEF BeginRead
      <4>2. readOps \in [Sessions -> Nat]
        BY DEF StateTypes
      <4>3. [readOps EXCEPT ![on[w].s] = @ + 1] \in [Sessions -> Nat]
        BY <4>2, <2>1
      <4> QED
        BY <4>1, <4>2, <4>3
    <3>2. reading' \in [Sessions -> BOOLEAN]
      BY <1>7, <2>1 DEF BeginRead, StateTypes
    <3> QED
      BY <1>7, <3>1, <3>2 DEF BeginRead, StateTypes
  <2> QED
    BY <2>2, <2>3 DEF TypeOK
<1>8. ASSUME NEW w \in Workers, ParseMsg(w) PROVE TypeOK'
  <2>1. on[w] \in Ids /\ on[w].s \in Sessions
    BY <1>8, BusyOn DEF ParseMsg
  <2>2. ThreadTypes'
    BY <1>8, <2>1, GoType, DoneType DEF ParseMsg, Pcs, WorkerPcs, ThreadTypes
  <2>3. StateTypes'
    <3>1. readOps' \in [Sessions -> Nat]
      <4>1. readOps' = [readOps EXCEPT ![on[w].s] = @ + 1] \/ readOps' = readOps
        BY <1>8 DEF ParseMsg
      <4>2. readOps \in [Sessions -> Nat]
        BY DEF StateTypes
      <4>3. [readOps EXCEPT ![on[w].s] = @ + 1] \in [Sessions -> Nat]
        BY <4>2, <2>1
      <4> QED
        BY <4>1, <4>2, <4>3
    <3>2. reading' \in [Sessions -> BOOLEAN]
      BY <1>8, <2>1 DEF ParseMsg, StateTypes
    <3> QED
      BY <1>8, <3>1, <3>2 DEF ParseMsg, StateTypes
  <2> QED
    BY <2>2, <2>3 DEF TypeOK
<1>9. ASSUME NEW w \in Workers, Refill(w) PROVE TypeOK'
  <2>1. on[w] \in Ids /\ on[w].s \in Sessions
    BY <1>9, BusyOn DEF Refill
  <2>2. ThreadTypes'
    BY <1>9, <2>1, GoType, DoneType DEF Refill, Pcs, WorkerPcs, ThreadTypes
  <2>3. StateTypes'
    <3>1. data' \in [Sessions -> BOOLEAN]
      BY <1>9, <2>1 DEF Refill, StateTypes
    <3>2. wait' \in [Sessions -> BOOLEAN]
      BY <1>9, <2>1 DEF Refill, StateTypes
    <3>3. sending' \in [Sessions -> 0..2]
      <4>1. sending' = [sending EXCEPT ![on[w].s] = 2] \/ sending' = sending
        BY <1>9 DEF Refill
      <4>2. sending \in [Sessions -> 0..2]
        BY DEF StateTypes
      <4>3. [sending EXCEPT ![on[w].s] = 2] \in [Sessions -> 0..2]
        BY <4>2, <2>1
      <4> QED
        BY <4>1, <4>2, <4>3
    <3> QED
      BY <1>9, <3>1, <3>2, <3>3 DEF Refill, StateTypes
  <2> QED
    BY <2>2, <2>3 DEF TypeOK
<1>10. ASSUME NEW w \in Workers, WriteMore(w) PROVE TypeOK'
  <2>1. on[w] \in Ids /\ on[w].s \in Sessions
    BY <1>10, BusyOn DEF WriteMore
  <2>2. ThreadTypes'
    BY <1>10, <2>1, GoType, DoneType DEF WriteMore, Pcs, WorkerPcs, ThreadTypes
  <2>3. StateTypes'
    BY <1>10, <2>1 DEF WriteMore, StateTypes
  <2> QED
    BY <2>2, <2>3 DEF TypeOK
<1>11. ASSUME NEW w \in Workers, WriteIdle(w) PROVE TypeOK'
  <2>1. on[w] \in Ids /\ on[w].s \in Sessions
    BY <1>11, BusyOn DEF WriteIdle
  <2>2. ThreadTypes'
    BY <1>11, <2>1, GoType, DoneType DEF WriteIdle, Pcs, WorkerPcs, ThreadTypes
  <2>3. StateTypes'
    BY <1>11, <2>1 DEF WriteIdle, StateTypes
  <2> QED
    BY <2>2, <2>3 DEF TypeOK
<1>12. ASSUME NEW w \in Workers, DisconnectCallback(w) PROVE TypeOK'
  <2>1. on[w] \in Ids /\ on[w].s \in Sessions
    BY <1>12, BusyOn DEF DisconnectCallback
  <2>2. ThreadTypes'
    BY <1>12, <2>1, GoType, DoneType DEF DisconnectCallback, Pcs, WorkerPcs, ThreadTypes
  <2>3. StateTypes'
    BY <1>12, <2>1 DEF DisconnectCallback, StateTypes
  <2> QED
    BY <2>2, <2>3 DEF TypeOK
<1>13. ASSUME NEW w \in Workers, ReturnSession(w) PROVE TypeOK'
  <2>1. on[w] \in Ids /\ on[w].s \in Sessions
    BY <1>13, BusyOn DEF ReturnSession
  <2>2. ThreadTypes'
    BY <1>13, <2>1, GoType, DoneType DEF ReturnSession, Pcs, WorkerPcs, ThreadTypes
  <2>3. StateTypes'
    BY <1>13, <2>1 DEF ReturnSession, StateTypes
  <2> QED
    BY <2>2, <2>3 DEF TypeOK
<1>14. ASSUME NEW t \in Threads, CloseOwn(t) PROVE TypeOK'
  <2>1. on[t] \in Ids /\ on[t].s \in Sessions
    BY <1>14, BusyOn DEF CloseOwn
  <2>2. ThreadTypes'
    BY <1>14, <2>1, GoType, DoneType DEF CloseOwn, Pcs, WorkerPcs, ThreadTypes
  <2>3. StateTypes'
    BY <1>14, <2>1 DEF CloseOwn, StateTypes, Statuses
  <2> QED
    BY <2>2, <2>3 DEF TypeOK
<1>15. ASSUME NEW t \in Threads, Release(t) PROVE TypeOK'
  <2>1. on[t] \in Ids /\ on[t].s \in Sessions
    BY <1>15, BusyOn DEF Release
  <2>2. ThreadTypes'
    BY <1>15, <2>1, GoType, DoneType DEF Release, Pcs, WorkerPcs, ThreadTypes
  <2>3. StateTypes'
    <3>1. status' \in [Sessions -> Statuses]
      BY <1>15, <2>1 DEF Release, StateTypes, Statuses
    <3>2. sock' \in [Sessions -> {"closed", "open", "shut"}]
      BY <1>15, <2>1 DEF Release, StateTypes
    <3>3. closeOps' \in [Sessions -> Nat]
      <4>1. closeOps' = [closeOps EXCEPT ![on[t].s] = @ + 1] \/ closeOps' = closeOps
        BY <1>15 DEF Release
      <4>2. closeOps \in [Sessions -> Nat]
        BY DEF StateTypes
      <4>3. [closeOps EXCEPT ![on[t].s] = @ + 1] \in [Sessions -> Nat]
        BY <4>2, <2>1
      <4> QED
        BY <4>1, <4>2, <4>3
    <3> QED
      BY <1>15, <3>1, <3>2, <3>3 DEF Release, StateTypes
  <2> QED
    BY <2>2, <2>3 DEF TypeOK
<1>16. ASSUME NEW u \in Users, PostWrite(u) PROVE TypeOK'
  <2>1. on[u] \in Ids /\ on[u].s \in Sessions
    BY <1>16, BusyOn DEF PostWrite
  <2>2. ThreadTypes'
    BY <1>16, <2>1, GoType, DoneType DEF PostWrite, Pcs, WorkerPcs, ThreadTypes
  <2>3. StateTypes'
    BY <1>16, <2>1, SMTT(30) DEF PostWrite, StateTypes
  <2> QED
    BY <2>2, <2>3 DEF TypeOK
<1>17. ASSUME NEW w \in Workers, NEW s \in Sessions, ReadFailed(w, s) PROVE TypeOK'
  <2>1. IdOf(s) \in Ids
    BY IdOfType
  <2>2. ThreadTypes'
    BY <1>17, <2>1, GoType, DoneType DEF ReadFailed, Pcs, WorkerPcs, ThreadTypes
  <2>3. StateTypes'
    BY <1>17, <2>1 DEF ReadFailed, StateTypes
  <2> QED
    BY <2>2, <2>3 DEF TypeOK
<1>18. ASSUME NEW w \in Workers, NEW s \in Sessions, ReadData(w, s) PROVE TypeOK'
  <2>1. IdOf(s) \in Ids
    BY IdOfType
  <2>2. ThreadTypes'
    BY <1>18, <2>1, GoType, DoneType DEF ReadData, Pcs, WorkerPcs, ThreadTypes
  <2>3. StateTypes'
    BY <1>18, <2>1 DEF ReadData, StateTypes
  <2> QED
    BY <2>2, <2>3 DEF TypeOK
<1>19. ASSUME NEW w \in Workers, NEW s \in Sessions, WriteFailed(w, s) PROVE TypeOK'
  <2>1. IdOf(s) \in Ids
    BY IdOfType
  <2>2. ThreadTypes'
    BY <1>19, <2>1, GoType, DoneType DEF WriteFailed, Pcs, WorkerPcs, ThreadTypes
  <2>3. StateTypes'
    BY <1>19, <2>1 DEF WriteFailed, StateTypes
  <2> QED
    BY <2>2, <2>3 DEF TypeOK
<1>20. ASSUME NEW w \in Workers, NEW s \in Sessions, WriteDone(w, s) PROVE TypeOK'
  <2>1. IdOf(s) \in Ids
    BY IdOfType
  <2>2. ThreadTypes'
    BY <1>20, <2>1, GoType, DoneType DEF WriteDone, Pcs, WorkerPcs, ThreadTypes
  <2>3. StateTypes'
    <3>1. sending' \in [Sessions -> 0..2]
      <4>1. PICK n \in 1..sending[s] : sending' = [sending EXCEPT ![s] = @ - n]
        BY <1>20 DEF WriteDone
      <4>2. sending \in [Sessions -> 0..2]
        BY DEF StateTypes
      <4>3. [sending EXCEPT ![s] = @ - n] \in [Sessions -> 0..2]
        BY <4>2, <2>1
      <4> QED
        BY <4>1, <4>2, <4>3
    <3>2. writeOps' \in [Sessions -> Nat]
      BY <1>20, <2>1 DEF WriteDone, StateTypes
    <3> QED
      BY <1>20, <3>1, <3>2 DEF WriteDone, StateTypes
  <2> QED
    BY <2>2, <2>3 DEF TypeOK
<1>21. ASSUME NEW w \in Workers, NEW s \in Sessions, HandleClose(w, s) PROVE TypeOK'
  <2>1. IdOf(s) \in Ids
    BY IdOfType
  <2>2. ThreadTypes'
    BY <1>21, <2>1, GoType, DoneType DEF HandleClose, Pcs, WorkerPcs, ThreadTypes, ClosedId
  <2>3. StateTypes'
    BY <1>21, <2>1 DEF HandleClose, StateTypes, NextGuid
  <2> QED
    BY <2>2, <2>3 DEF TypeOK
<1>22. ASSUME NEW u \in Users, NEW id \in known, UserClose(u, id) PROVE TypeOK'
  <2>1. id \in Ids /\ id.s \in Sessions
    BY DEF StateTypes, Ids
  <2>2. ThreadTypes'
    BY <1>22, <2>1, GoType, DoneType DEF UserClose, Pcs, WorkerPcs, ThreadTypes
  <2>3. StateTypes'
    BY <1>22, <2>1 DEF UserClose, StateTypes, Statuses
  <2> QED
    BY <2>2, <2>3 DEF TypeOK
<1>23. ASSUME NEW u \in Users, NEW id \in known, UserSendFailed(u, id) PROVE TypeOK'
  <2>1. id \in Ids /\ id.s \in Sessions
    BY DEF StateTypes, Ids
  <2>2. ThreadTypes'
    BY <1>23, <2>1, GoType, DoneType DEF UserSendFailed, Pcs, WorkerPcs, ThreadTypes
  <2>3. StateTypes'
    BY <1>23, <2>1 DEF UserSendFailed, StateTypes
  <2> QED
    BY <2>2, <2>3 DEF TypeOK
<1>24. ASSUME NEW u \in Users, NEW id \in known, UserSend(u, id) PROVE TypeOK'
  <2>1. id \in Ids /\ id.s \in Sessions
    BY DEF StateTypes, Ids
  <2>2. ThreadTypes'
    BY <1>24, <2>1, GoType, DoneType DEF UserSend, Pcs, WorkerPcs, ThreadTypes
  <2>3. StateTypes'
    BY <1>24, <2>1 DEF UserSend, StateTypes
  <2> QED
    BY <2>2, <2>3 DEF TypeOK
<1>25. ASSUME NEW u \in Users, NEW id \in known, UserSendStart(u, id) PROVE TypeOK'
  <2>1. id \in Ids /\ id.s \in Sessions
    BY DEF StateTypes, Ids
  <2>2. ThreadTypes'
    BY <1>25, <2>1, GoType, DoneType DEF UserSendStart, Pcs, WorkerPcs, ThreadTypes
  <2>3. StateTypes'
    BY <1>25, <2>1 DEF UserSendStart, StateTypes
  <2> QED
    BY <2>2, <2>3 DEF TypeOK
<1> QED
  BY <1>1, <1>2, <1>3, <1>4, <1>5, <1>6, <1>7, <1>8, <1>9, <1>10, <1>11, <1>12, <1>13,
     <1>14, <1>15, <1>16, <1>17, <1>18, <1>19, <1>20, <1>21, <1>22, <1>23, <1>24, <1>25
     DEF Next, WorkerStep

(* Every variable has its type, in every reachable state.                     *)
THEOREM TypeCorrect == Spec => []TypeOK
BY InitTypeOK, NextTypeOK, PTL DEF Spec

-----------------------------------------------------------------------------
(* The pool. Most steps neither touch it nor bring a session nearer to it.  *)

(* Thread t goes on to another place.                                         *)
Moves(t) == \E where \in Pcs, id \in Ids \cup {NoConn} : Go(t, where, id)

(* Nobody comes to, or leaves, a place of X.                                  *)
SamePlaces(X) ==
  \A t \in Threads, s \in Sessions : At(t, s, X)' <=> At(t, s, X)

(* A thread that comes from outside X and goes outside X changes nothing.   *)
LEMMA GoOutside ==
  ASSUME ThreadTypes, NEW X, NEW t \in Threads, pc[t] \notin X,
         NEW where \in Pcs, where \notin X, NEW id, Go(t, where, id)
  PROVE  SamePlaces(X)
BY DEF ThreadTypes, Go, SamePlaces, At

(* Nor does one that is done.                                                 *)
LEMMA DoneOutside ==
  ASSUME ThreadTypes, NEW X, NEW t \in Threads, pc[t] \notin X,
         "idle" \notin X, Done(t)
  PROVE  SamePlaces(X)
BY DEF ThreadTypes, Go, Done, SamePlaces, At

(* Nor does a step that moves no thread.                                      *)
LEMMA StayOutside ==
  ASSUME NEW X, UNCHANGED <<pc, on>>
  PROVE  SamePlaces(X)
BY DEF SamePlaces, At

(* What PoolExact is about does not change.                                   *)
PoolUntouched ==
  /\ UNCHANGED <<avail, closeOps>>
  /\ \A s \in Sessions : Live(s)' <=> Live(s)
  /\ \A s \in Sessions : status'[s] = "CLOSE" <=> status[s] = "CLOSE"
  /\ SamePlaces(ReturningPcs)

(* Such a step keeps PoolExact.                                               *)
LEMMA PoolQuiet == PoolExact /\ PoolUntouched => PoolExact'
BY DEF PoolExact, PoolUntouched, SamePlaces, InPool, Retiring

(* A pool without repetitions that lacks a session is not full, so           *)
(* return_session is never refused.                                         *)
LEMMA PoolHasRoom ==
  ASSUME NEW n \in Nat, NEW q \in [1..n -> Sessions],
         \A i, j \in 1..n : q[i] = q[j] => i = j,
         NEW s \in Sessions, \A i \in 1..n : q[i] # s
  PROVE  n # Cardinality(Sessions)
<1> DEFINE Others == Sessions \ {s}
<1>1. IsFiniteSet(1..n) /\ Cardinality(1..n) = n
  BY FS_Interval
<1>2. IsFiniteSet(Others) /\ Cardinality(Others) = Cardinality(Sessions) - 1
  BY FS_RemoveElement, LifecycleAssumption
<1>3. Cardinality(Sessions) \in Nat
  BY FS_CardinalityType, LifecycleAssumption
<1>4. q \in [1..n -> Others]
  OBVIOUS
<1> HIDE DEF Others
<1> QED
  BY <1>1, <1>2, <1>3, <1>4, FS_PigeonHole

(* Every step keeps PoolExact, one action after the other.                    *)
LEMMA NextPoolExact == TypeOK /\ PoolExact /\ [Next]_vars => PoolExact'
<1> SUFFICES ASSUME StateTypes, ThreadTypes, PoolExact, [Next]_vars PROVE PoolExact'
  BY DEF TypeOK
<1> USE DEF sessionVars, bufVars, opVars, poolVars, Threads
<1>1. ASSUME NEW w \in Workers, AcceptDropped(w) PROVE PoolUntouched
  <2>1. SamePlaces(ReturningPcs)
    BY <1>1, GoOutside, DoneOutside, StayOutside DEF AcceptDropped, ReturningPcs, Pcs,
       WorkerPcs, vars
  <2> QED
    BY <1>1, <2>1, BusyOn DEF AcceptDropped, PoolUntouched, StateTypes, Live, Ids, vars
<1>2. ASSUME NEW w \in Workers, OpenReading(w) PROVE PoolUntouched
  <2>1. SamePlaces(ReturningPcs)
    BY <1>2, GoOutside, DoneOutside, StayOutside DEF OpenReading, ReturningPcs, Pcs,
       WorkerPcs, vars
  <2> QED
    BY <1>2, <2>1, BusyOn DEF OpenReading, PoolUntouched, StateTypes, Live, Ids, vars
<1>3. ASSUME NEW w \in Workers, ListenCallback(w) PROVE PoolUntouched
  <2>1. SamePlaces(ReturningPcs)
    BY <1>3, GoOutside, DoneOutside, StayOutside DEF ListenCallback, ReturningPcs, Pcs,
       WorkerPcs, vars
  <2> QED
    BY <1>3, <2>1, BusyOn DEF ListenCallback, PoolUntouched, StateTypes, Live, Ids, vars
<1>4. ASSUME NEW w \in Workers, BeginRead(w) PROVE PoolUntouched
  <2>1. SamePlaces(ReturningPcs)
    BY <1>4, GoOutside, DoneOutside, StayOutside DEF BeginRead, ReturningPcs, Pcs,
       WorkerPcs, vars
  <2> QED
    BY <1>4, <2>1, BusyOn DEF BeginRead, PoolUntouched, StateTypes, Live, Ids, vars
<1>5. ASSUME NEW w \in Workers, ParseMsg(w) PROVE PoolUntouched
  <2>1. SamePlaces(ReturningPcs)
    BY <1>5, GoOutside, DoneOutside, StayOutside DEF ParseMsg, ReturningPcs, Pcs,
       WorkerPcs, vars
  <2> QED
    BY <1>5, <2>1, BusyOn DEF ParseMsg, PoolUntouched, StateTypes, Live, Ids, vars
<1>6. ASSUME NEW w \in Workers, Refill(w) PROVE PoolUntouched
  <2>1. SamePlaces(ReturningPcs)
    BY <1>6, GoOutside, DoneOutside, StayOutside DEF Refill, ReturningPcs, Pcs, WorkerPcs,
       vars
  <2> QED
    BY <1>6, <2>1, BusyOn DEF Refill, PoolUntouched, StateTypes, Live, Ids, vars
<1>7. ASSUME NEW w \in Workers, WriteMore(w) PROVE PoolUntouched
  <2>1. SamePlaces(ReturningPcs)
    BY <1>7, GoOutside, DoneOutside, StayOutside DEF WriteMore, ReturningPcs, Pcs,
       WorkerPcs, vars
  <2> QED
    BY <1>7, <2>1, BusyOn DEF WriteMore, PoolUntouched, StateTypes, Live, Ids, vars
<1>8. ASSUME NEW w \in Workers, WriteIdle(w) PROVE PoolUntouched
  <2>1. SamePlaces(ReturningPcs)
    BY <1>8, GoOutside, DoneOutside, StayOutside DEF WriteIdle, ReturningPcs, Pcs,
       WorkerPcs, vars
  <2> QED
    BY <1>8, <2>1, BusyOn DEF WriteIdle, PoolUntouched, StateTypes, Live, Ids, vars
<1>9. ASSUME NEW w \in Workers, NEW s \in Sessions, ReadFailed(w, s) PROVE PoolUntouched
  <2>1. SamePlaces(ReturningPcs)
    BY <1>9, GoOutside, DoneOutside, StayOutside DEF ReadFailed, ReturningPcs, Pcs,
       WorkerPcs, vars
  <2> QED
    BY <1>9, <2>1, BusyOn DEF ReadFailed, PoolUntouched, StateTypes, Live, Ids, vars
<1>10. ASSUME NEW w \in Workers, NEW s \in Sessions, ReadData(w, s) PROVE PoolUntouched
  <2>1. SamePlaces(ReturningPcs)
    BY <1>10, GoOutside, DoneOutside, StayOutside DEF ReadData, ReturningPcs, Pcs,
       WorkerPcs, vars
  <2> QED
    BY <1>10, <2>1, BusyOn DEF ReadData, PoolUntouched, StateTypes, Live, Ids, vars
<1>11. ASSUME NEW w \in Workers, NEW s \in Sessions, WriteFailed(w, s) PROVE PoolUntouched
  <2>1. SamePlaces(ReturningPcs)
    BY <1>11, GoOutside, DoneOutside, StayOutside DEF WriteFailed, ReturningPcs, Pcs,
       WorkerPcs, vars
  <2> QED
    BY <1>11, <2>1, BusyOn DEF WriteFailed, PoolUntouched, StateTypes, Live, Ids, vars
<1>12. ASSUME NEW w \in Workers, NEW s \in Sessions, WriteDone(w, s) PROVE PoolUntouched
  <2>1. SamePlaces(ReturningPcs)
    BY <1>12, GoOutside, DoneOutside, StayOutside DEF WriteDone, ReturningPcs, Pcs,
       WorkerPcs, vars
  <2> QED
    BY <1>12, <2>1, BusyOn DEF WriteDone, PoolUntouched, StateTypes, Live, Ids, vars
<1>13. ASSUME NEW t \in Threads, CloseOwn(t) PROVE PoolUntouched
  <2>1. SamePlaces(ReturningPcs)
    BY <1>13, GoOutside, DoneOutside, StayOutside DEF CloseOwn, ReturningPcs, Pcs,
       WorkerPcs, vars
  <2> QED
    BY <1>13, <2>1, BusyOn DEF CloseOwn, PoolUntouched, StateTypes, Live, Ids, vars
<1>14. ASSUME NEW u \in Users, PostWrite(u) PROVE PoolUntouched
  <2>1. SamePlaces(ReturningPcs)
    BY <1>14, GoOutside, DoneOutside, StayOutside DEF PostWrite, ReturningPcs, Pcs,
       WorkerPcs, vars
  <2> QED
    BY <1>14, <2>1, BusyOn DEF PostWrite, PoolUntouched, StateTypes, Live, Ids, vars
<1>15. ASSUME NEW u \in Users, NEW id \in known, UserClose(u, id) PROVE PoolUntouched
  <2>1. SamePlaces(ReturningPcs)
    BY <1>15, GoOutside, DoneOutside, StayOutside DEF UserClose, ReturningPcs, Pcs,
       WorkerPcs, vars
  <2> QED
    BY <1>15, <2>1, BusyOn DEF UserClose, Current, PoolUntouched, StateTypes, Live, Ids,
       vars
<1>16. ASSUME NEW u \in Users, NEW id \in known, UserSendQueued(u, id) PROVE PoolUntouched
  <2>1. SamePlaces(ReturningPcs)
    BY <1>16, GoOutside, DoneOutside, StayOutside DEF UserSendQueued, ReturningPcs, Pcs,
       WorkerPcs, vars
  <2> QED
    BY <1>16, <2>1, BusyOn DEF UserSendQueued, PoolUntouched, StateTypes, Live, Ids, vars
<1>17. ASSUME NEW u \in Users, NEW id \in known, UserSendFailed(u, id) PROVE PoolUntouched
  <2>1. SamePlaces(ReturningPcs)
    BY <1>17, GoOutside, DoneOutside, StayOutside DEF UserSendFailed, ReturningPcs, Pcs,
       WorkerPcs, vars
  <2> QED
    BY <1>17, <2>1, BusyOn DEF UserSendFailed, PoolUntouched, StateTypes, Live, Ids, vars
<1>18. ASSUME NEW u \in Users, NEW id \in known, UserSend(u, id) PROVE PoolUntouched
  <2>1. SamePlaces(ReturningPcs)
    BY <1>18, GoOutside, DoneOutside, StayOutside DEF UserSend, ReturningPcs, Pcs,
       WorkerPcs, vars
  <2> QED
    BY <1>18, <2>1, BusyOn DEF UserSend, PoolUntouched, StateTypes, Live, Ids, vars
<1>19. ASSUME NEW u \in Users, NEW id \in known, UserSendStart(u, id) PROVE PoolUntouched
  <2>1. SamePlaces(ReturningPcs)
    BY <1>19, GoOutside, DoneOutside, StayOutside DEF UserSendStart, ReturningPcs, Pcs,
       WorkerPcs, vars
  <2> QED
    BY <1>19, <2>1, BusyOn DEF UserSendStart, PoolUntouched, StateTypes, Live, Ids, vars
<1>20. CASE UNCHANGED vars
  BY <1>20, PoolQuiet, StayOutside DEF vars, PoolUntouched, Live
<1>21. ASSUME NEW w \in Workers, Accept(w) PROVE PoolExact'
  <2> DEFINE h == Head(avail)
  <2>1. avail # <<>> /\ h \in Sessions /\ h = avail[1] /\ 1 \in DOMAIN avail
    BY <1>21 DEF Accept, StateTypes
  <2>2. /\ avail' = Tail(avail) /\ closeOps' = closeOps
        /\ status' = [status EXCEPT ![h] = "OPEN"]
    BY <1>21 DEF Accept
  <2>3. /\ DOMAIN Tail(avail) = 1..(Len(avail) - 1)
        /\ \A i \in 1..(Len(avail) - 1) : Tail(avail)[i] = avail[i + 1]
        /\ DOMAIN avail = 1..Len(avail)
    BY <2>1 DEF StateTypes
  <2>4. SamePlaces(ReturningPcs)
    BY <1>21, GoOutside DEF Accept, ReturningPcs, Pcs, WorkerPcs
  <2>5. InPool(h) /\ ~Live(h) /\ ~Retiring(h)
    BY <2>1 DEF PoolExact, InPool
  <2>6. \A s \in Sessions : InPool(s)' <=> InPool(s) /\ s # h
    <3>1. \A s \in Sessions : InPool(s)' => InPool(s) /\ s # h
      BY <2>1, <2>2, <2>3 DEF InPool, PoolExact
    <3>2. ASSUME NEW s \in Sessions, InPool(s), s # h PROVE InPool(s)'
      <4>1. PICK i \in 1..Len(avail) : avail[i] = s
        BY <3>2, <2>3 DEF InPool
      <4>2. i - 1 \in 1..(Len(avail) - 1) /\ Tail(avail)[i - 1] = s
        BY <4>1, <3>2, <2>1, <2>3 DEF StateTypes
      <4> QED
        BY <4>2, <2>2, <2>3 DEF InPool
    <3> QED
      BY <3>1, <3>2
  <2>7. \A i, j \in DOMAIN avail' : avail'[i] = avail'[j] => i = j
    <3> SUFFICES ASSUME NEW i \in 1..(Len(avail) - 1), NEW j \in 1..(Len(avail) - 1),
                        avail[i + 1] = avail[j + 1]
                 PROVE  i = j
      BY <2>2, <2>3
    <3>1. i + 1 \in DOMAIN avail /\ j + 1 \in DOMAIN avail
      BY <2>3 DEF StateTypes
    <3>2. i + 1 = j + 1
      BY <3>1 DEF PoolExact
    <3> QED
      BY <3>2
  <2>8. /\ \A s \in Sessions : Retiring(s)' <=> Retiring(s)
        /\ \A s \in Sessions : Live(s)' <=> Live(s) \/ s = h
        /\ \A s \in Sessions \ {h} : status'[s] = status[s]
    BY <2>1, <2>2, <2>4 DEF Retiring, Live, SamePlaces, StateTypes
  <2> HIDE DEF h
  <2> QED
    BY <2>2, <2>4, <2>5, <2>6, <2>7, <2>8 DEF PoolExact, SamePlaces
<1>22. ASSUME NEW t \in Threads, Release(t) PROVE PoolExact'
  <2>1. PICK r \in Sessions : r = on[t].s
    BY <1>22, BusyOn DEF Release
  <2>2. SamePlaces(ReturningPcs) /\ avail' = avail
    BY <1>22, DoneOutside DEF Release, ReturningPcs, Pcs, WorkerPcs
  <2>3. CASE ~Releasable(r)
    BY <1>22, <2>1, <2>2, <2>3, PoolQuiet DEF Release, PoolUntouched, Live
  <2>4. CASE Releasable(r)
    <3>1. /\ status' = [status EXCEPT ![r] = "CLOSE"]
          /\ closeOps' = [closeOps EXCEPT ![r] = @ + 1]
          /\ status[r] = "SHUT"
      BY <1>22, <2>1, <2>4 DEF Release, Releasable
    <3>2. Live(r) /\ ~InPool(r) /\ ~Retiring(r) /\ closeOps[r] = 0
      <4>1. Live(r) /\ ~InPool(r) /\ ~Retiring(r)
        BY <2>1, <3>1 DEF Live, PoolExact
      <4>2. closeOps[r] \in Nat
        BY <2>1 DEF StateTypes
      <4> QED
        BY <4>1, <4>2 DEF Retiring
    <3>3. /\ \A s \in Sessions : InPool(s)' <=> InPool(s)
          /\ \A s \in Sessions : Live(s)' <=> Live(s) /\ s # r
          /\ \A s \in Sessions \ {r} : status'[s] = status[s] /\ closeOps'[s] = closeOps[s]
          /\ status'[r] = "CLOSE" /\ closeOps'[r] = 1
      BY <2>1, <2>2, <3>1, <3>2 DEF InPool, Live, StateTypes
    <3>4. \A s \in Sessions : Retiring(s)' <=> Retiring(s) \/ s = r
      <4>1. ASSUME NEW s \in Sessions, s # r PROVE Retiring(s)' <=> Retiring(s)
        BY <4>1, <2>2, <3>3 DEF Retiring, SamePlaces
      <4>2. Retiring(r)'
        BY <3>3 DEF Retiring
      <4> QED
        BY <4>1, <4>2
    <3>5. \A t1 \in Threads : ~At(t1, r, ReturningPcs)'
      BY <2>1, <2>2, <3>2 DEF Retiring, SamePlaces
    <3> QED
      <4>1. \A i, j \in DOMAIN avail' : avail'[i] = avail'[j] => i = j
        BY <2>2 DEF PoolExact
      <4>2. ASSUME NEW s \in Sessions
            PROVE  /\ closeOps'[s] <= 1
                   /\ InPool(s)' => ~Live(s)' /\ ~Retiring(s)'
                   /\ Retiring(s)' => status'[s] = "CLOSE"
                   /\ ~Live(s)' /\ ~Retiring(s)' => InPool(s)'
        BY <3>2, <3>3, <3>4 DEF PoolExact
      <4>3. ASSUME NEW s \in Sessions, NEW t1 \in Threads, NEW u \in Threads, At(t1, s, ReturningPcs)'
            PROVE  closeOps'[s] = 0 /\ (At(u, s, ReturningPcs)' => t1 = u)
        <5>1. s # r
          BY <3>5, <4>3
        <5>2. At(t1, s, ReturningPcs) /\ (At(u, s, ReturningPcs)' => At(u, s, ReturningPcs))
          BY <4>3, <2>2 DEF SamePlaces
        <5> QED
          BY <5>1, <5>2, <3>3 DEF PoolExact
      <4> QED
        BY <4>1, <4>2, <4>3 DEF PoolExact
  <2> QED
    BY <2>3, <2>4
<1>23. ASSUME NEW w \in Workers, NEW c \in Sessions, HandleClose(w, c) PROVE PoolExact'
  <2>1. /\ closeOps[c] = 1 /\ closeOps' = [closeOps EXCEPT ![c] = 0]
        /\ pc[w] = "idle" /\ status' = status /\ avail' = avail
        /\ \A t \in Threads : ~At(t, c, ReturningPcs)
    <3>1. /\ closeOps[c] > 0 /\ closeOps' = [closeOps EXCEPT ![c] = @ - 1]
          /\ pc[w] = "idle" /\ status' = status /\ avail' = avail
      BY <1>23 DEF HandleClose
    <3>2. closeOps[c] \in Nat /\ closeOps[c] <= 1
      BY DEF StateTypes, PoolExact
    <3>3. \A t \in Threads : ~At(t, c, ReturningPcs)
      BY <3>1, <3>2 DEF PoolExact
    <3>4. closeOps[c] = 1
      BY <3>1, <3>2
    <3> QED
      BY <3>1, <3>3, <3>4
  <2>2. /\ pc' = [pc EXCEPT ![w] = "disconnect_callback"]
        /\ on' = [on EXCEPT ![w] = IdOf(c)]
    BY <1>23 DEF HandleClose, Go, ClosedId
  <2>3. /\ \A t \in Threads \ {w}, s \in Sessions : At(t, s, ReturningPcs)' <=> At(t, s, ReturningPcs)
        /\ \A s \in Sessions : At(w, s, ReturningPcs)' <=> s = c
        /\ \A s \in Sessions : ~At(w, s, ReturningPcs)
    BY <2>1, <2>2 DEF At, ReturningPcs, ThreadTypes, IdOf
  <2>4. /\ closeOps'[c] = 0
        /\ \A s \in Sessions \ {c} : closeOps'[s] = closeOps[s]
        /\ \A s \in Sessions : InPool(s)' <=> InPool(s)
        /\ \A s \in Sessions : Live(s)' <=> Live(s)
    BY <2>1 DEF InPool, Live, StateTypes
  <2>5. \A s \in Sessions : Retiring(s)' <=> Retiring(s)
    <3>1. ASSUME NEW s \in Sessions, s # c PROVE Retiring(s)' <=> Retiring(s)
      BY <3>1, <2>3, <2>4 DEF Retiring
    <3>2. Retiring(c) /\ Retiring(c)'
      BY <2>1, <2>3 DEF Retiring
    <3> QED
      BY <3>1, <3>2
  <2> QED
    BY <2>1, <2>3, <2>4, <2>5 DEF PoolExact
<1>24. ASSUME NEW w \in Workers, DisconnectCallback(w) PROVE PoolExact'
  <2>1. SamePlaces(ReturningPcs)
    BY <1>24 DEF DisconnectCallback, Go, SamePlaces, At, ReturningPcs, ThreadTypes
  <2> QED
    BY <1>24, <2>1, PoolQuiet DEF DisconnectCallback, PoolUntouched, Live
<1>25. ASSUME NEW w \in Workers, ReturnSession(w) PROVE PoolExact'
  <2> DEFINE r == on[w].s
  <2>1. /\ r \in Sessions /\ At(w, r, ReturningPcs) /\ closeOps' = closeOps /\ status' = status
        /\ Len(avail) \in Nat /\ avail \in [1..Len(avail) -> Sessions]
    BY <1>25, BusyOn DEF ReturnSession, At, ReturningPcs, StateTypes
  <2>2. /\ Retiring(r) /\ status[r] = "CLOSE" /\ ~InPool(r) /\ closeOps[r] = 0
        /\ \A t \in Threads : At(t, r, ReturningPcs) => t = w
    BY <2>1 DEF PoolExact, Retiring
  <2>3. Len(avail) # Cardinality(Sessions)
    BY <2>1, <2>2, PoolHasRoom DEF InPool, PoolExact
  <2>4. /\ avail' = Append(avail, r)
        /\ pc' = [pc EXCEPT ![w] = "idle"] /\ on' = [on EXCEPT ![w] = NoConn]
    BY <1>25, <2>3 DEF ReturnSession, Done, Go
  <2>5. /\ \A t \in Threads \ {w}, s \in Sessions : At(t, s, ReturningPcs)' <=> At(t, s, ReturningPcs)
        /\ \A s \in Sessions : ~At(w, s, ReturningPcs)'
        /\ \A s \in Sessions \ {r} : ~At(w, s, ReturningPcs)
    BY <2>4 DEF At, ReturningPcs, ThreadTypes
  <2>6. /\ DOMAIN avail' = 1..(Len(avail) + 1) /\ DOMAIN avail = 1..Len(avail)
        /\ \A i \in 1..Len(avail) : avail'[i] = avail[i]
        /\ avail'[Len(avail) + 1] = r
    BY <2>1, <2>4
  <2>7. \A s \in Sessions : InPool(s)' <=> InPool(s) \/ s = r
    BY <2>1, <2>6 DEF InPool
  <2>8. \A i, j \in DOMAIN avail' : avail'[i] = avail'[j] => i = j
    BY <2>1, <2>2, <2>6 DEF InPool, PoolExact
  <2>9. /\ \A s \in Sessions : Retiring(s)' <=> Retiring(s) /\ s # r
        /\ \A s \in Sessions : Live(s)' <=> Live(s)
    BY <2>1, <2>2, <2>5 DEF Retiring, Live
  <2> HIDE DEF r
  <2> QED
    BY <2>1, <2>2, <2>5, <2>7, <2>8, <2>9 DEF PoolExact, Live
<1> QED
  BY <1>1, <1>2, <1>3, <1>4, <1>5, <1>6, <1>7, <1>8, <1>9, <1>10, <1>11, <1>12, <1>13,
     <1>14, <1>15, <1>16, <1>17, <1>18, <1>19, <1>20, <1>21, <1>22, <1>23, <1>24, <1>25,
     PoolQuiet DEF Next, WorkerStep

(* PoolExact holds at the start.                                              *)
LEMMA InitPoolExact == Init => PoolExact
<1> SUFFICES ASSUME Init PROVE PoolExact
  OBVIOUS
<1>1. \A t \in Threads, s \in Sessions : ~At(t, s, ReturningPcs)
  BY DEF Init, At, ReturningPcs
<1>2. \A s \in Sessions : ~Live(s) /\ ~Retiring(s) /\ closeOps[s] = 0
  BY <1>1 DEF Init, Live, Retiring
<1>3. /\ avail \in [1..Cardinality(Sessions) -> Sessions]
      /\ \A i, j \in DOMAIN avail : avail[i] = avail[j] => i = j
  BY DEF Init
<1>4. \A s \in Sessions : InPool(s)
  <2> SUFFICES ASSUME NEW s \in Sessions, \A i \in 1..Cardinality(Sessions) : avail[i] # s
               PROVE  FALSE
    BY <1>3 DEF InPool
  <2>1. Cardinality(Sessions) \in Nat
    BY FS_CardinalityType, LifecycleAssumption
  <2> QED
    BY <2>1, <1>3, PoolHasRoom
<1> QED
  BY <1>1, <1>2, <1>3, <1>4 DEF PoolExact

(* No session is lost or handed out twice, with any number of workers.      *)
THEOREM PoolIsExact == Spec => []PoolExact
<1>1. TypeOK /\ PoolExact /\ [Next]_vars => TypeOK' /\ PoolExact'
  BY NextTypeOK, NextPoolExact
<1> QED
  BY <1>1, InitTypeOK, InitPoolExact, PTL DEF Spec

-----------------------------------------------------------------------------
(* The write side. A session is released only when nothing is written, and  *)
(* no write starts before it is open again.                                 *)

(* No write is under way on a session without a connection.                   *)
ClosedNotWriting == \A s \in Sessions : ~Live(s) => ~writing[s]

(* The inductive invariant of OneWriter.                                      *)
WriterInv == OneWriter /\ ClosedNotWriting

(* What WriterInv is about does not change.                                   *)
WriterUntouched ==
  /\ UNCHANGED <<writeOps, writing>>
  /\ \A s \in Sessions : Live(s) => Live(s)'
  /\ SamePlaces(WriterPcs)

(* Such a step keeps WriterInv.                                               *)
LEMMA WriterQuiet == WriterInv /\ WriterUntouched => WriterInv'
BY DEF WriterInv, ClosedNotWriting, OneWriter, WriterUntouched, SamePlaces

(* Every step keeps WriterInv.                                                *)
LEMMA NextWriterInv == TypeOK /\ PoolExact /\ WriterInv /\ [Next]_vars => WriterInv'
<1> SUFFICES ASSUME StateTypes, ThreadTypes, PoolExact, WriterInv, [Next]_vars PROVE WriterInv'
  BY DEF TypeOK
<1> USE DEF sessionVars, bufVars, opVars, poolVars, Threads
<1>1. ASSUME NEW w \in Workers, AcceptDropped(w) PROVE WriterUntouched
  <2>1. SamePlaces(WriterPcs)
    BY <1>1, GoOutside, DoneOutside, StayOutside DEF AcceptDropped, WriterPcs, Pcs,
       WorkerPcs, vars
  <2> QED
    BY <1>1, <2>1, BusyOn DEF AcceptDropped, WriterUntouched, StateTypes, Live, Ids, vars
<1>2. ASSUME NEW w \in Workers, Accept(w) PROVE WriterUntouched
  <2>1. SamePlaces(WriterPcs)
    BY <1>2, GoOutside, DoneOutside, StayOutside DEF Accept, WriterPcs, Pcs, WorkerPcs, vars
  <2> QED
    BY <1>2, <2>1, BusyOn DEF Accept, WriterUntouched, StateTypes, Live, Ids, vars
<1>3. ASSUME NEW w \in Workers, OpenReading(w) PROVE WriterUntouched
  <2>1. SamePlaces(WriterPcs)
    BY <1>3, GoOutside, DoneOutside, StayOutside DEF OpenReading, WriterPcs, Pcs,
       WorkerPcs, vars
  <2> QED
    BY <1>3, <2>1, BusyOn DEF OpenReading, WriterUntouched, StateTypes, Live, Ids, vars
<1>4. ASSUME NEW w \in Workers, ListenCallback(w) PROVE WriterUntouched
  <2>1. SamePlaces(WriterPcs)
    BY <1>4, GoOutside, DoneOutside, StayOutside DEF ListenCallback, WriterPcs, Pcs,
       WorkerPcs, vars
  <2> QED
    BY <1>4, <2>1, BusyOn DEF ListenCallback, WriterUntouched, StateTypes, Live, Ids, vars
<1>5. ASSUME NEW w \in Workers, BeginRead(w) PROVE WriterUntouched
  <2>1. SamePlaces(WriterPcs)
    BY <1>5, GoOutside, DoneOutside, StayOutside DEF BeginRead, WriterPcs, Pcs, WorkerPcs,
       vars
  <2> QED
    BY <1>5, <2>1, BusyOn DEF BeginRead, WriterUntouched, StateTypes, Live, Ids, vars
<1>6. ASSUME NEW w \in Workers, ParseMsg(w) PROVE WriterUntouched
  <2>1. SamePlaces(WriterPcs)
    BY <1>6, GoOutside, DoneOutside, StayOutside DEF ParseMsg, WriterPcs, Pcs, WorkerPcs,
       vars
  <2> QED
    BY <1>6, <2>1, BusyOn DEF ParseMsg, WriterUntouched, StateTypes, Live, Ids, vars
<1>7. ASSUME NEW w \in Workers, DisconnectCallback(w) PROVE WriterUntouched
  <2>1. SamePlaces(WriterPcs)
    BY <1>7, GoOutside, DoneOutside, StayOutside DEF DisconnectCallback, WriterPcs, Pcs,
       WorkerPcs, vars
  <2> QED
    BY <1>7, <2>1, BusyOn DEF DisconnectCallback, WriterUntouched, StateTypes, Live, Ids,
       vars
<1>8. ASSUME NEW w \in Workers, ReturnSession(w) PROVE WriterUntouched
  <2>1. SamePlaces(WriterPcs)
    BY <1>8, GoOutside, DoneOutside, StayOutside DEF ReturnSession, WriterPcs, Pcs,
       WorkerPcs, vars
  <2> QED
    BY <1>8, <2>1, BusyOn DEF ReturnSession, WriterUntouched, StateTypes, Live, Ids, vars
<1>9. ASSUME NEW w \in Workers, NEW s \in Sessions, ReadFailed(w, s) PROVE WriterUntouched
  <2>1. SamePlaces(WriterPcs)
    BY <1>9, GoOutside, DoneOutside, StayOutside DEF ReadFailed, WriterPcs, Pcs,
       WorkerPcs, vars
  <2> QED
    BY <1>9, <2>1, BusyOn DEF ReadFailed, WriterUntouched, StateTypes, Live, Ids, vars
<1>10. ASSUME NEW w \in Workers, NEW s \in Sessions, ReadData(w, s) PROVE WriterUntouched
  <2>1. SamePlaces(WriterPcs)
    BY <1>10, GoOutside, DoneOutside, StayOutside DEF ReadData, WriterPcs, Pcs, WorkerPcs,
       vars
  <2> QED
    BY <1>10, <2>1, BusyOn DEF ReadData, WriterUntouched, StateTypes, Live, Ids, vars
<1>11. ASSUME NEW t \in Threads, CloseOwn(t) PROVE WriterUntouched
  <2>1. SamePlaces(WriterPcs)
    BY <1>11, GoOutside, DoneOutside, StayOutside DEF CloseOwn, WriterPcs, Pcs, WorkerPcs,
       vars
  <2> QED
    BY <1>11, <2>1, BusyOn DEF CloseOwn, WriterUntouched, StateTypes, Live, Ids, vars
<1>12. ASSUME NEW u \in Users, NEW id \in known, UserClose(u, id) PROVE WriterUntouched
  <2>1. SamePlaces(WriterPcs)
    BY <1>12, GoOutside, DoneOutside, StayOutside DEF UserClose, WriterPcs, Pcs,
       WorkerPcs, vars
  <2> QED
    BY <1>12, <2>1, BusyOn DEF UserClose, Current, WriterUntouched, StateTypes, Live, Ids,
       vars
<1>13. ASSUME NEW u \in Users, NEW id \in known, UserSendQueued(u, id) PROVE WriterUntouched
  <2>1. SamePlaces(WriterPcs)
    BY <1>13, GoOutside, DoneOutside, StayOutside DEF UserSendQueued, WriterPcs, Pcs,
       WorkerPcs, vars
  <2> QED
    BY <1>13, <2>1, BusyOn DEF UserSendQueued, WriterUntouched, StateTypes, Live, Ids, vars
<1>14. ASSUME NEW u \in Users, NEW id \in known, UserSendFailed(u, id) PROVE WriterUntouched
  <2>1. SamePlaces(WriterPcs)
    BY <1>14, GoOutside, DoneOutside, StayOutside DEF UserSendFailed, WriterPcs, Pcs,
       WorkerPcs, vars
  <2> QED
    BY <1>14, <2>1, BusyOn DEF UserSendFailed, WriterUntouched, StateTypes, Live, Ids, vars
<1>15. ASSUME NEW u \in Users, NEW id \in known, UserSend(u, id) PROVE WriterUntouched
  <2>1. SamePlaces(WriterPcs)
    BY <1>15, GoOutside, DoneOutside, StayOutside DEF UserSend, WriterPcs, Pcs, WorkerPcs,
       vars
  <2> QED
    BY <1>15, <2>1, BusyOn DEF UserSend, WriterUntouched, StateTypes, Live, Ids, vars
<1>16. CASE UNCHANGED vars
  BY <1>16, WriterQuiet, StayOutside DEF vars, WriterUntouched, Live
<1>17. ASSUME NEW t \in Threads, Release(t) PROVE WriterInv'
  <2>1. PICK r \in Sessions : r = on[t].s
    BY <1>17, BusyOn DEF Release
  <2>2. SamePlaces(WriterPcs) /\ writeOps' = writeOps /\ writing' = writing
    BY <1>17, DoneOutside DEF Release, WriterPcs, Pcs, WorkerPcs
  <2>3. \A s \in Sessions : ~Live(s)' => ~Live(s) \/ ~writing[s]
    BY <1>17, <2>1 DEF Release, Releasable, Live, StateTypes
  <2> QED
    BY <2>2, <2>3 DEF WriterInv, OneWriter, ClosedNotWriting, SamePlaces
<1>18. ASSUME NEW w \in Workers, NEW c \in Sessions, HandleClose(w, c) PROVE WriterInv'
  <2>1. SamePlaces(WriterPcs) /\ writeOps' = writeOps /\ status' = status
    BY <1>18, GoOutside DEF HandleClose, WriterPcs, Pcs, WorkerPcs
  <2>2. ~writing[c]
    BY <1>18 DEF HandleClose, Retiring, PoolExact, WriterInv, ClosedNotWriting, Live
  <2>3. \A s \in Sessions : writing'[s] <=> writing[s]
    BY <1>18, <2>2 DEF HandleClose, StateTypes
  <2> QED
    BY <2>1, <2>3 DEF WriterInv, OneWriter, ClosedNotWriting, SamePlaces, Live
<1>19. ASSUME NEW w \in Workers, NEW c \in Sessions, WriteFailed(w, c) PROVE WriterInv'
  <2>1. c \in Sessions
    OBVIOUS
  <2>2. /\ \A s \in Sessions \ {c} : writing'[s] = writing[s] /\ writeOps'[s] = writeOps[s]
        /\ writing'[c] = FALSE
        /\ writeOps[c] > 0 /\ writeOps'[c] = writeOps[c] - 1
        /\ \A s \in Sessions : Live(s)' <=> Live(s)
    BY <1>19, <2>1 DEF WriteFailed, StateTypes, Live
  <2>3. /\ ~At(w, c, WriterPcs) /\ ~At(w, c, WriterPcs)'
        /\ \A s \in Sessions \ {c} : ~At(w, s, WriterPcs) /\ ~At(w, s, WriterPcs)'
        /\ \A v \in Threads \ {w}, s \in Sessions : At(v, s, WriterPcs)' <=> At(v, s, WriterPcs)
    BY <1>19, <2>1 DEF WriteFailed, Go, Done, At, WriterPcs, ThreadTypes, NoConn, IdOf
  <2>4. writeOps[c] = 1 /\ writeOps'[c] = 0 /\ \A v \in Threads : ~At(v, c, WriterPcs)
    BY <2>2 DEF WriterInv, OneWriter, StateTypes
  <2> QED
    BY <2>2, <2>3, <2>4 DEF WriterInv, OneWriter, ClosedNotWriting
<1>20. ASSUME NEW w \in Workers, NEW c \in Sessions, WriteDone(w, c) PROVE WriterInv'
  <2>1. c \in Sessions
    OBVIOUS
  <2>2. /\ \A s \in Sessions \ {c} : writing'[s] = writing[s] /\ writeOps'[s] = writeOps[s]
        /\ writing'[c] = writing[c]
        /\ writeOps[c] > 0 /\ writeOps'[c] = writeOps[c] - 1
        /\ \A s \in Sessions : Live(s)' <=> Live(s)
    BY <1>20, <2>1 DEF WriteDone, StateTypes, Live
  <2>3. /\ ~At(w, c, WriterPcs) /\ At(w, c, WriterPcs)'
        /\ \A s \in Sessions \ {c} : ~At(w, s, WriterPcs) /\ ~At(w, s, WriterPcs)'
        /\ \A v \in Threads \ {w}, s \in Sessions : At(v, s, WriterPcs)' <=> At(v, s, WriterPcs)
    BY <1>20, <2>1 DEF WriteDone, Go, Done, At, WriterPcs, ThreadTypes, NoConn, IdOf
  <2>4. writeOps[c] = 1 /\ writeOps'[c] = 0 /\ writing[c] /\ \A v \in Threads : ~At(v, c, WriterPcs)
    BY <2>2 DEF WriterInv, OneWriter, StateTypes
  <2>5. ASSUME NEW s \in Sessions \ {c}
        PROVE  /\ writeOps'[s] <= 1
               /\ writeOps'[s] = 1 => writing'[s] /\ \A v \in Threads : ~At(v, s, WriterPcs)'
               /\ \A v, z \in Threads :
                    At(v, s, WriterPcs)' => writing'[s] /\ (At(z, s, WriterPcs)' => v = z)
    BY <2>2, <2>3 DEF WriterInv, OneWriter
  <2>6. /\ writeOps'[c] <= 1
        /\ writeOps'[c] = 1 => writing'[c] /\ \A v \in Threads : ~At(v, c, WriterPcs)'
    BY <2>2, <2>3, <2>4
  <2>7. \A v, z \in Threads :
          At(v, c, WriterPcs)' => writing'[c] /\ (At(z, c, WriterPcs)' => v = z)
    BY <2>2, <2>3, <2>4
  <2>8. OneWriter'
    BY <2>5, <2>6, <2>7 DEF OneWriter
  <2>9. ClosedNotWriting'
    BY <2>2, <2>4 DEF WriterInv, ClosedNotWriting
  <2> QED
    BY <2>8, <2>9 DEF WriterInv
<1>21. ASSUME NEW w \in Workers, Refill(w) PROVE WriterUntouched
  <2>1. SamePlaces(WriterPcs)
    BY <1>21 DEF Refill, Go, SamePlaces, At, WriterPcs, ThreadTypes
  <2> QED
    BY <1>21, <2>1 DEF Refill, WriterUntouched, Live
<1>22. ASSUME NEW w \in Workers, WriteMore(w) PROVE WriterInv'
  <2>1. PICK c \in Sessions : c = on[w].s
    BY <1>22, BusyOn DEF WriteMore, StateTypes, Ids
  <2>2. /\ \A s \in Sessions \ {c} : writing'[s] = writing[s] /\ writeOps'[s] = writeOps[s]
        /\ writing'[c] = writing[c]
        /\ writeOps'[c] = writeOps[c] + 1
        /\ \A s \in Sessions : Live(s)' <=> Live(s)
    BY <1>22, <2>1 DEF WriteMore, StateTypes, Live
  <2>3. /\ At(w, c, WriterPcs) /\ ~At(w, c, WriterPcs)'
        /\ \A s \in Sessions \ {c} : ~At(w, s, WriterPcs) /\ ~At(w, s, WriterPcs)'
        /\ \A v \in Threads \ {w}, s \in Sessions : At(v, s, WriterPcs)' <=> At(v, s, WriterPcs)
    BY <1>22, <2>1 DEF WriteMore, Go, Done, At, WriterPcs, ThreadTypes, NoConn, IdOf
  <2>4. writeOps[c] = 0 /\ writing[c] /\ \A v \in Threads : At(v, c, WriterPcs) => v = w
    BY <2>3 DEF WriterInv, OneWriter, StateTypes
  <2>5. ASSUME NEW s \in Sessions \ {c}
        PROVE  /\ writeOps'[s] <= 1
               /\ writeOps'[s] = 1 => writing'[s] /\ \A v \in Threads : ~At(v, s, WriterPcs)'
               /\ \A v, z \in Threads :
                    At(v, s, WriterPcs)' => writing'[s] /\ (At(z, s, WriterPcs)' => v = z)
    BY <2>2, <2>3 DEF WriterInv, OneWriter
  <2>6. /\ writeOps'[c] <= 1
        /\ writeOps'[c] = 1 => writing'[c] /\ \A v \in Threads : ~At(v, c, WriterPcs)'
    BY <2>2, <2>3, <2>4
  <2>7. \A v, z \in Threads :
          At(v, c, WriterPcs)' => writing'[c] /\ (At(z, c, WriterPcs)' => v = z)
    BY <2>2, <2>3, <2>4
  <2>8. OneWriter'
    BY <2>5, <2>6, <2>7 DEF OneWriter
  <2>9. ClosedNotWriting'
    BY <2>2, <2>4 DEF WriterInv, ClosedNotWriting
  <2> QED
    BY <2>8, <2>9 DEF WriterInv
<1>23. ASSUME NEW u \in Users, PostWrite(u) PROVE WriterInv'
  <2>1. PICK c \in Sessions : c = on[u].s
    BY <1>23, BusyOn DEF PostWrite, StateTypes, Ids
  <2>2. /\ \A s \in Sessions \ {c} : writing'[s] = writing[s] /\ writeOps'[s] = writeOps[s]
        /\ writing'[c] = writing[c]
        /\ writeOps'[c] = writeOps[c] + 1
        /\ \A s \in Sessions : Live(s)' <=> Live(s)
    BY <1>23, <2>1 DEF PostWrite, StateTypes, Live
  <2>3. /\ At(u, c, WriterPcs) /\ ~At(u, c, WriterPcs)'
        /\ \A s \in Sessions \ {c} : ~At(u, s, WriterPcs) /\ ~At(u, s, WriterPcs)'
        /\ \A v \in Threads \ {u}, s \in Sessions : At(v, s, WriterPcs)' <=> At(v, s, WriterPcs)
    BY <1>23, <2>1 DEF PostWrite, Go, Done, At, WriterPcs, ThreadTypes, NoConn, IdOf
  <2>4. writeOps[c] = 0 /\ writing[c] /\ \A v \in Threads : At(v, c, WriterPcs) => v = u
    BY <2>3 DEF WriterInv, OneWriter, StateTypes
  <2>5. ASSUME NEW s \in Sessions \ {c}
        PROVE  /\ writeOps'[s] <= 1
               /\ writeOps'[s] = 1 => writing'[s] /\ \A v \in Threads : ~At(v, s, WriterPcs)'
               /\ \A v, z \in Threads :
                    At(v, s, WriterPcs)' => writing'[s] /\ (At(z, s, WriterPcs)' => v = z)
    BY <2>2, <2>3 DEF WriterInv, OneWriter
  <2>6. /\ writeOps'[c] <= 1
        /\ writeOps'[c] = 1 => writing'[c] /\ \A v \in Threads : ~At(v, c, WriterPcs)'
    BY <2>2, <2>3, <2>4
  <2>7. \A v, z \in Threads :
          At(v, c, WriterPcs)' => writing'[c] /\ (At(z, c, WriterPcs)' => v = z)
    BY <2>2, <2>3, <2>4
  <2>8. OneWriter'
    BY <2>5, <2>6, <2>7 DEF OneWriter
  <2>9. ClosedNotWriting'
    BY <2>2, <2>4 DEF WriterInv, ClosedNotWriting
  <2> QED
    BY <2>8, <2>9 DEF WriterInv
<1>24. ASSUME NEW w \in Workers, WriteIdle(w) PROVE WriterInv'
  <2>1. PICK c \in Sessions : c = on[w].s
    BY <1>24, BusyOn DEF WriteIdle, StateTypes, Ids
  <2>2. /\ \A s \in Sessions \ {c} : writing'[s] = writing[s] /\ writeOps'[s] = writeOps[s]
        /\ writing'[c] = FALSE
        /\ writeOps'[c] = writeOps[c]
        /\ \A s \in Sessions : Live(s)' <=> Live(s)
    BY <1>24, <2>1 DEF WriteIdle, StateTypes, Live
  <2>3. /\ At(w, c, WriterPcs) /\ ~At(w, c, WriterPcs)'
        /\ \A s \in Sessions \ {c} : ~At(w, s, WriterPcs) /\ ~At(w, s, WriterPcs)'
        /\ \A v \in Threads \ {w}, s \in Sessions : At(v, s, WriterPcs)' <=> At(v, s, WriterPcs)
    BY <1>24, <2>1 DEF WriteIdle, Go, Done, At, WriterPcs, ThreadTypes, NoConn, IdOf
  <2>4. writeOps[c] = 0 /\ writing[c] /\ \A v \in Threads : At(v, c, WriterPcs) => v = w
    BY <2>3 DEF WriterInv, OneWriter, StateTypes
  <2>5. ASSUME NEW s \in Sessions \ {c}
        PROVE  /\ writeOps'[s] <= 1
               /\ writeOps'[s] = 1 => writing'[s] /\ \A v \in Threads : ~At(v, s, WriterPcs)'
               /\ \A v, z \in Threads :
                    At(v, s, WriterPcs)' => writing'[s] /\ (At(z, s, WriterPcs)' => v = z)
    BY <2>2, <2>3 DEF WriterInv, OneWriter
  <2>6. /\ writeOps'[c] <= 1
        /\ writeOps'[c] = 1 => writing'[c] /\ \A v \in Threads : ~At(v, c, WriterPcs)'
    BY <2>2, <2>3, <2>4
  <2>7. \A v, z \in Threads :
          At(v, c, WriterPcs)' => writing'[c] /\ (At(z, c, WriterPcs)' => v = z)
    BY <2>2, <2>3, <2>4
  <2>8. OneWriter'
    BY <2>5, <2>6, <2>7 DEF OneWriter
  <2>9. ClosedNotWriting'
    BY <2>2, <2>4 DEF WriterInv, ClosedNotWriting
  <2> QED
    BY <2>8, <2>9 DEF WriterInv
<1>25. ASSUME NEW u \in Users, NEW id \in known, UserSendStart(u, id) PROVE WriterInv'
  <2>1. PICK c \in Sessions : c = id.s
    BY <1>25, BusyOn DEF UserSendStart, StateTypes, Ids
  <2>2. /\ \A s \in Sessions \ {c} : writing'[s] = writing[s] /\ writeOps'[s] = writeOps[s]
        /\ ~writing[c] /\ writing'[c] = TRUE
        /\ writeOps'[c] = writeOps[c]
        /\ \A s \in Sessions : Live(s)' <=> Live(s)
    BY <1>25, <2>1 DEF UserSendStart, StateTypes, Live, ExchangeWins
  <2>3. /\ ~At(u, c, WriterPcs) /\ At(u, c, WriterPcs)'
        /\ \A s \in Sessions \ {c} : ~At(u, s, WriterPcs) /\ ~At(u, s, WriterPcs)'
        /\ \A v \in Threads \ {u}, s \in Sessions : At(v, s, WriterPcs)' <=> At(v, s, WriterPcs)
    BY <1>25, <2>1 DEF UserSendStart, Go, Done, At, WriterPcs, ThreadTypes, NoConn, IdOf
  <2>4. Live(c) /\ writeOps[c] = 0 /\ \A v \in Threads : ~At(v, c, WriterPcs)
    BY <1>25, <2>1, <2>2 DEF UserSendStart, Current, Live, WriterInv, OneWriter, StateTypes
  <2>5. ASSUME NEW s \in Sessions \ {c}
        PROVE  /\ writeOps'[s] <= 1
               /\ writeOps'[s] = 1 => writing'[s] /\ \A v \in Threads : ~At(v, s, WriterPcs)'
               /\ \A v, z \in Threads :
                    At(v, s, WriterPcs)' => writing'[s] /\ (At(z, s, WriterPcs)' => v = z)
    BY <2>2, <2>3 DEF WriterInv, OneWriter
  <2>6. /\ writeOps'[c] <= 1
        /\ writeOps'[c] = 1 => writing'[c] /\ \A v \in Threads : ~At(v, c, WriterPcs)'
    BY <2>2, <2>3, <2>4
  <2>7. \A v, z \in Threads :
          At(v, c, WriterPcs)' => writing'[c] /\ (At(z, c, WriterPcs)' => v = z)
    BY <2>2, <2>3, <2>4
  <2>8. OneWriter'
    BY <2>5, <2>6, <2>7 DEF OneWriter
  <2>9. ClosedNotWriting'
    BY <2>2, <2>4 DEF WriterInv, ClosedNotWriting
  <2> QED
    BY <2>8, <2>9 DEF WriterInv
<1> QED
  BY <1>1, <1>2, <1>3, <1>4, <1>5, <1>6, <1>7, <1>8, <1>9, <1>10, <1>11, <1>12, <1>13,
     <1>14, <1>15, <1>16, <1>17, <1>18, <1>19, <1>20, <1>21, <1>22, <1>23, <1>24, <1>25,
     WriterQuiet DEF Next, WorkerStep

(* WriterInv always holds.                                                    *)
LEMMA WriterKept == Spec => []WriterInv
<1>1. Init => WriterInv
  BY DEF Init, WriterInv, OneWriter, ClosedNotWriting, At, WriterPcs
<1>2. TypeOK /\ PoolExact /\ WriterInv /\ [Next]_vars => WriterInv'
  BY NextWriterInv
<1> QED
  BY <1>1, <1>2, TypeCorrect, PoolIsExact, PTL DEF Spec

(* m_sending_buf_ptr has one owner, with any number of workers and users.   *)
THEOREM WriterIsAlone == Spec => []OneWriter
<1>1. WriterInv => OneWriter
  BY DEF WriterInv
<1> QED
  BY <1>1, WriterKept, PTL
-----------------------------------------------------------------------------
(* One worker. wnet_session_mgr starts one thread by default                 *)
(* (wnet_session_mgr.cpp: m_thread_num), and the handlers of the             *)
(* io_service are then never in each other's way; only the application's     *)
(* threads are. With two workers what follows is false.                      *)
OneWorker == \A v, w \in Workers : v = w

(* The places of a worker that opens a connection.                            *)
OpeningPcs == {"opened", "listen_callback"}

(* The places of a worker that the facts below are about. *)
HeldPcs == {"opened"} \cup ReaderPcs \cup ReturningPcs

(* No read is under way on a session without a connection.                    *)
ClosedNotReading == \A s \in Sessions : ~Live(s) => ~reading[s]

(* Between m_status = ENSS_OPEN and m_is_reading = true nobody can shut the *)
(* session down, because nobody knows its id.                               *)
OpenedFresh ==
  \A w \in Workers, s \in Sessions :
    At(w, s, {"opened"}) => status[s] = "OPEN" /\ readOps[s] = 0 /\ IdOf(s) \notin known

(* The ids of connections, and those the application knows, were given out.   *)
IdsUsed ==
  /\ known \subseteq used
  /\ \A s \in Sessions : Live(s) => IdOf(s) \in used

(* The application has been told of the connection, and not of its end. *)
Announced(s) ==
  closeOps[s] > 0 \/ (Live(s) /\ \A w \in Workers : ~At(w, s, OpeningPcs))

(* What the application has in its table.                                     *)
TableInv ==
  \A s \in Sessions :
    /\ Announced(s) => app[s] = guid[s]
    /\ InPool(s)    => app[s] = Nil
    /\ \A w \in Workers :
         /\ At(w, s, OpeningPcs \cup {"return_session"}) => app[s] = Nil
         /\ At(w, s, {"disconnect_callback"}) =>
              app[s] = on[w].g /\ guid[s] = NextGuid(on[w].g)

(* _close is called by the handlers, and close(session_id) is not _close. *)
ClosersWork == \A u \in Users : pc[u] # "close"

(* The inductive invariant of the theorems about one worker.                  *)
OneWorkerInv ==
  /\ OneReader /\ ClosedNotReading /\ OpenedFresh /\ IdsUsed /\ TableInv
  /\ ClosersWork

(* What most steps leave alone. *)
HeldUntouched ==
  /\ UNCHANGED <<guid, reading, readOps, closeOps, avail, app, known, used>>
  /\ \A s \in Sessions : Live(s)' <=> Live(s)
  /\ \A s \in Sessions : status[s] = "OPEN" => status'[s] = "OPEN" \/ IdOf(s) \in known
                         \/ \A w \in Workers : ~At(w, s, {"opened"})
  /\ \A t \in Threads : pc[t] \in HeldPcs \/ pc'[t] \in HeldPcs => pc'[t] = pc[t] /\ on'[t] = on[t]
  /\ \A u \in Users : pc'[u] = "close" => pc[u] = "close"

(* A step that leaves the holders of the sessions alone keeps what is said of *)
(* them.                                                                      *)
LEMMA HeldQuiet ==
  ASSUME OneWorkerInv, HeldUntouched
  PROVE  OneWorkerInv'
<1> USE DEF HeldUntouched
<1>1. \A t \in Threads, s \in Sessions :
        /\ At(t, s, {"opened"})' <=> At(t, s, {"opened"})
        /\ At(t, s, ReaderPcs)' <=> At(t, s, ReaderPcs)
        /\ At(t, s, OpeningPcs)' <=> At(t, s, OpeningPcs)
        /\ At(t, s, OpeningPcs \cup {"return_session"})' <=> At(t, s, OpeningPcs \cup {"return_session"})
        /\ At(t, s, {"disconnect_callback"})' <=> At(t, s, {"disconnect_callback"})
        /\ At(t, s, {"disconnect_callback"}) => on'[t] = on[t]
  BY DEF At, HeldPcs, ReaderPcs, ReturningPcs, OpeningPcs
<1>2. OneReader' /\ ClosedNotReading'
  BY <1>1 DEF OneWorkerInv, OneReader, ClosedNotReading
<1>3. OpenedFresh'
  BY <1>1 DEF OneWorkerInv, OpenedFresh, Threads, IdOf
<1>4. IdsUsed'
  BY DEF OneWorkerInv, IdsUsed, IdOf
<1>5. \A s \in Sessions : (Announced(s)' <=> Announced(s)) /\ (InPool(s)' <=> InPool(s))
  BY <1>1 DEF Announced, InPool, Threads
<1>6. TableInv'
  BY <1>1, <1>5 DEF OneWorkerInv, TableInv, Threads, NextGuid
<1> QED
  BY <1>2, <1>3, <1>4, <1>6 DEF OneWorkerInv, ClosersWork

(* At most one read of a session is under way.                                *)
LEMMA ReaderFacts ==
  ASSUME StateTypes, OneReader, NEW s \in Sessions
  PROVE  readOps[s] \in {0, 1} /\ (readOps[s] = 1 => reading[s])
<1>1. readOps[s] \in Nat
  BY DEF StateTypes
<1>2. readOps[s] <= 1 /\ (readOps[s] = 1 => reading[s])
  BY DEF OneReader
<1> QED
  BY <1>1, <1>2

(* Every step keeps OneWorkerInv.                                             *)
LEMMA NextOneWorkerInv ==
  ASSUME OneWorker, TypeOK, TypeOK', PoolExact, PoolExact', WriterInv, OneWorkerInv, [Next]_vars
  PROVE  OneWorkerInv'
<1> USE DEF sessionVars, bufVars, opVars, poolVars, Threads
<1> StateTypes /\ ThreadTypes /\ StateTypes' /\ ThreadTypes'
  BY DEF TypeOK
<1>1. ASSUME NEW w \in Workers, AcceptDropped(w) PROVE HeldUntouched
  BY <1>1, BusyOn, LifecycleAssumption DEF AcceptDropped, HeldUntouched, Go, Done,
     HeldPcs, ReaderPcs, ReturningPcs,
     Live, ThreadTypes, StateTypes, WorkerPcs, vars
<1>2. ASSUME NEW w \in Workers, Refill(w) PROVE HeldUntouched
  BY <1>2, BusyOn, LifecycleAssumption DEF Refill, HeldUntouched, Go, Done, HeldPcs,
     ReaderPcs, ReturningPcs,
     Live, ThreadTypes, StateTypes, WorkerPcs, vars
<1>3. ASSUME NEW w \in Workers, WriteMore(w) PROVE HeldUntouched
  BY <1>3, BusyOn, LifecycleAssumption DEF WriteMore, HeldUntouched, Go, Done, HeldPcs,
     ReaderPcs, ReturningPcs,
     Live, ThreadTypes, StateTypes, WorkerPcs, vars
<1>4. ASSUME NEW w \in Workers, WriteIdle(w) PROVE HeldUntouched
  BY <1>4, BusyOn, LifecycleAssumption DEF WriteIdle, HeldUntouched, Go, Done, HeldPcs,
     ReaderPcs, ReturningPcs,
     Live, ThreadTypes, StateTypes, WorkerPcs, vars
<1>5. ASSUME NEW w \in Workers, NEW s \in Sessions, WriteFailed(w, s) PROVE HeldUntouched
  BY <1>5, BusyOn, LifecycleAssumption DEF WriteFailed, HeldUntouched, Go, Done, HeldPcs,
     ReaderPcs, ReturningPcs,
     Live, ThreadTypes, StateTypes, WorkerPcs, vars
<1>6. ASSUME NEW w \in Workers, NEW s \in Sessions, WriteDone(w, s) PROVE HeldUntouched
  BY <1>6, BusyOn, LifecycleAssumption DEF WriteDone, HeldUntouched, Go, Done, HeldPcs,
     ReaderPcs, ReturningPcs,
     Live, ThreadTypes, StateTypes, WorkerPcs, vars
<1>7. ASSUME NEW u \in Users, PostWrite(u) PROVE HeldUntouched
  BY <1>7, BusyOn, LifecycleAssumption DEF PostWrite, HeldUntouched, Go, Done, HeldPcs,
     ReaderPcs, ReturningPcs,
     Live, ThreadTypes, StateTypes, WorkerPcs, vars
<1>8. ASSUME NEW u \in Users, NEW id \in known, UserSendQueued(u, id) PROVE HeldUntouched
  BY <1>8, BusyOn, LifecycleAssumption DEF UserSendQueued, HeldUntouched, Go, Done,
     HeldPcs, ReaderPcs, ReturningPcs,
     Live, ThreadTypes, StateTypes, WorkerPcs, vars
<1>9. ASSUME NEW u \in Users, NEW id \in known, UserSendFailed(u, id) PROVE HeldUntouched
  BY <1>9, BusyOn, LifecycleAssumption DEF UserSendFailed, HeldUntouched, Go, Done,
     HeldPcs, ReaderPcs, ReturningPcs,
     Live, ThreadTypes, StateTypes, WorkerPcs, vars
<1>10. ASSUME NEW u \in Users, NEW id \in known, UserSend(u, id) PROVE HeldUntouched
  BY <1>10, BusyOn, LifecycleAssumption DEF UserSend, HeldUntouched, Go, Done, HeldPcs,
     ReaderPcs, ReturningPcs,
     Live, ThreadTypes, StateTypes, WorkerPcs, vars
<1>11. ASSUME NEW u \in Users, NEW id \in known, UserSendStart(u, id) PROVE HeldUntouched
  BY <1>11, BusyOn, LifecycleAssumption DEF UserSendStart, HeldUntouched, Go, Done,
     HeldPcs, ReaderPcs, ReturningPcs,
     Live, ThreadTypes, StateTypes, WorkerPcs, vars
<1>12. CASE UNCHANGED vars
  BY <1>12, HeldQuiet DEF vars, HeldUntouched, Live
<1>13. ASSUME NEW u \in Users, NEW id \in known, UserClose(u, id) PROVE HeldUntouched
  <2>1. id.s \in Sessions /\ id = IdOf(id.s)
    BY <1>13 DEF UserClose, Current, IdOf, StateTypes, Ids
  <2> QED
    BY <1>13, <2>1 DEF UserClose, HeldUntouched, Go, HeldPcs, ReaderPcs, ReturningPcs,
       Current, Live, ThreadTypes, StateTypes
<1>14. ASSUME NEW t \in Threads, CloseOwn(t) PROVE HeldUntouched
  <2>1. t \in Workers /\ on[t].s \in Sessions
    BY <1>14, BusyOn DEF CloseOwn, OneWorkerInv, ClosersWork
  <2>2. \A w \in Workers, s \in Sessions : ~At(w, s, {"opened"})
    BY <1>14, <2>1 DEF OneWorker, CloseOwn, At
  <2>3. \A s \in Sessions : Live(s)' <=> Live(s)
    BY <1>14, <2>1 DEF CloseOwn, Live, StateTypes
  <2>4. \A v \in Threads : pc[v] \in HeldPcs \/ pc'[v] \in HeldPcs => pc'[v] = pc[v] /\ on'[v] = on[v]
    BY <1>14 DEF CloseOwn, Go, HeldPcs, ReaderPcs, ReturningPcs, ThreadTypes
  <2>5. \A u \in Users : pc'[u] = "close" => pc[u] = "close"
    BY <1>14 DEF CloseOwn, Go, ThreadTypes
  <2> QED
    BY <1>14, <2>2, <2>3, <2>4, <2>5 DEF CloseOwn, HeldUntouched
<1>15. ASSUME NEW t \in Threads, Release(t) PROVE OneWorkerInv'
  <2> DEFINE r == on[t].s
  <2>1. r \in Sessions
    BY <1>15, BusyOn DEF Release
  <2>2. CASE ~Releasable(r)
    <3>1. HeldUntouched
      BY <1>15, <2>1, <2>2 DEF Release, HeldUntouched, Done, Go, HeldPcs, ReaderPcs,
         ReturningPcs,
         Live, ThreadTypes, StateTypes
    <3> QED
      BY <3>1, HeldQuiet
  <2>3. CASE Releasable(r)
    <3>1. /\ UNCHANGED <<guid, reading, readOps, avail, app, known, used>>
          /\ status' = [status EXCEPT ![r] = "CLOSE"]
          /\ closeOps' = [closeOps EXCEPT ![r] = @ + 1]
          /\ status[r] = "SHUT" /\ ~reading[r]
      BY <1>15, <2>3 DEF Release, Releasable
    <3>2. \A v \in Threads, s \in Sessions, X \in SUBSET WorkerPcs : At(v, s, X)' <=> At(v, s, X)
      BY <1>15 DEF Release, Done, Go, At, WorkerPcs, ThreadTypes
    <3>3. \A v \in Threads : ~At(v, r, ReaderPcs) /\ ~At(v, r, OpeningPcs)
      <4>1. \A v \in Threads : ~At(v, r, ReaderPcs)
        BY <2>1, <3>1 DEF OneWorkerInv, OneReader
      <4>2. \A w \in Workers : ~At(w, r, {"opened"})
        BY <2>1, <3>1 DEF OneWorkerInv, OpenedFresh
      <4> QED
        BY <4>1, <4>2 DEF OpeningPcs, At, ReaderPcs, ThreadTypes, WorkerPcs
    <3>4. app[r] = guid[r]
      BY <2>1, <3>1, <3>3 DEF OneWorkerInv, TableInv, Announced, Live
    <3>5. \A s \in Sessions : Live(s)' <=> Live(s) /\ s # r
      BY <2>1, <3>1 DEF Live, StateTypes
    <3>6. OneReader' /\ ClosedNotReading'
      BY <3>1, <3>2, <3>5 DEF OneWorkerInv, OneReader, ClosedNotReading, ReaderPcs,
         WorkerPcs
    <3>7. OpenedFresh'
      BY <2>1, <3>1, <3>2 DEF OneWorkerInv, OpenedFresh, IdOf, WorkerPcs, StateTypes
    <3>8. IdsUsed'
      BY <3>1, <3>5 DEF OneWorkerInv, IdsUsed, IdOf
    <3>9. \A s \in Sessions : Announced(s)' => Announced(s) \/ s = r
      BY <2>1, <3>1, <3>2, <3>5 DEF Announced, OpeningPcs, WorkerPcs, StateTypes
    <3>10. /\ \A w \in Workers, s \in Sessions :
                /\ At(w, s, OpeningPcs \cup {"return_session"})' <=> At(w, s, OpeningPcs \cup {"return_session"})
                /\ At(w, s, {"disconnect_callback"})' <=> At(w, s, {"disconnect_callback"})
                /\ At(w, s, {"disconnect_callback"}) => on'[w] = on[w]
           /\ \A s \in Sessions : InPool(s)' <=> InPool(s)
      <4>1. /\ OpeningPcs \cup {"return_session"} \in SUBSET WorkerPcs
            /\ {"disconnect_callback"} \in SUBSET WorkerPcs
        BY DEF OpeningPcs, WorkerPcs
      <4>2. \A w \in Workers, s \in Sessions : At(w, s, {"disconnect_callback"}) => on'[w] = on[w]
        BY <1>15 DEF Release, Done, Go, At, ThreadTypes
      <4> QED
        BY <3>1, <3>2, <4>1, <4>2 DEF InPool
    <3>11. TableInv'
      <4>1. \A s \in Sessions : Announced(s)' => app'[s] = guid'[s]
        BY <3>1, <3>4, <3>9 DEF OneWorkerInv, TableInv
      <4>2. ASSUME NEW s \in Sessions, NEW w \in Workers, At(w, s, {"disconnect_callback"})'
            PROVE  app'[s] = on'[w].g /\ guid'[s] = NextGuid(on'[w].g)
        BY <3>1, <3>10, <4>2 DEF OneWorkerInv, TableInv
      <4> QED
        BY <3>1, <3>10, <4>1, <4>2 DEF OneWorkerInv, TableInv, NextGuid
    <3> QED
      BY <1>15, <3>6, <3>7, <3>8, <3>11 DEF OneWorkerInv, ClosersWork, Release, Done, Go,
         ThreadTypes
  <2> QED
    BY <2>2, <2>3
<1>16. ASSUME NEW w \in Workers, OpenReading(w) PROVE OneWorkerInv'
  <2>1. PICK c \in Sessions : c = on[w].s
    BY <1>16, BusyOn DEF OpenReading
  <2>2. \A t \in Threads, s \in Sessions :
        /\ At(t, s, {"opened"}) <=> t = w /\ s = c
        /\ ~At(t, s, {"opened"})'
        /\ ~At(t, s, ReaderPcs)
        /\ At(t, s, ReaderPcs)' <=> t = w /\ s = c
        /\ At(t, s, OpeningPcs) <=> t = w /\ s = c
        /\ At(t, s, OpeningPcs)' <=> t = w /\ s = c
        /\ At(t, s, OpeningPcs \cup {"return_session"}) <=> t = w /\ s = c
        /\ At(t, s, OpeningPcs \cup {"return_session"})' <=> t = w /\ s = c
        /\ ~At(t, s, {"disconnect_callback"})
        /\ ~At(t, s, {"disconnect_callback"})'
    BY <1>16, <2>1 DEF OpenReading, Go, Done, At, OneWorker, ThreadTypes, ReaderPcs,
       ReturningPcs, OpeningPcs, WorkerPcs
  <2>3. readOps[c] = 0 /\ Live(c)
    BY <2>2 DEF OneWorkerInv, OpenedFresh, Live
  <2>4. OneReader'
    BY <1>16, <2>1, <2>2, <2>3 DEF OneWorkerInv, OneReader, StateTypes, OpenReading
  <2>5. ClosedNotReading'
    BY <1>16, <2>1, <2>2, <2>3 DEF OneWorkerInv, ClosedNotReading, Live, StateTypes,
       OpenReading
  <2>6. OpenedFresh'
    BY <1>16, <2>1, <2>2, <2>3 DEF OneWorkerInv, OpenedFresh, IdsUsed, IdOf, Threads,
       StateTypes, OpenReading
  <2>7. IdsUsed'
    BY <1>16, <2>1, <2>2, <2>3 DEF OneWorkerInv, IdsUsed, Live, IdOf, StateTypes,
       OpenReading
  <2>8. TableInv'
    <3>1. \A s \in Sessions : Announced(s)' => app'[s] = guid'[s]
      BY <1>16, <2>1, <2>2, <2>3 DEF OneWorkerInv, TableInv, Announced, Live, StateTypes,
         OpenReading
    <3>2. \A s \in Sessions : InPool(s)' => app'[s] = Nil
      BY <1>16, <2>1, <2>2, <2>3 DEF OneWorkerInv, TableInv, InPool, StateTypes, OpenReading
    <3>3. \A s \in Sessions, v \in Workers :
            /\ At(v, s, OpeningPcs \cup {"return_session"})' => app'[s] = Nil
            /\ At(v, s, {"disconnect_callback"})' => app'[s] = on'[v].g /\ guid'[s] = NextGuid(on'[v].g)
      BY <1>16, <2>1, <2>2, <2>3 DEF OneWorkerInv, TableInv, IdOf, StateTypes, OpenReading
    <3> QED
      BY <3>1, <3>2, <3>3 DEF TableInv, NextGuid
  <2>9. ClosersWork'
    BY <1>16, <2>1, <2>2, <2>3, LifecycleAssumption DEF OneWorkerInv, ClosersWork, Go,
       Done, ThreadTypes, OpenReading
  <2> QED
    BY <2>4, <2>5, <2>6, <2>7, <2>8, <2>9 DEF OneWorkerInv
<1>17. ASSUME NEW w \in Workers, ListenCallback(w) PROVE OneWorkerInv'
  <2>1. PICK c \in Sessions : c = on[w].s
    BY <1>17, BusyOn DEF ListenCallback
  <2>2. \A t \in Threads, s \in Sessions :
        /\ ~At(t, s, {"opened"})
        /\ ~At(t, s, {"opened"})'
        /\ At(t, s, ReaderPcs) <=> t = w /\ s = c
        /\ At(t, s, ReaderPcs)' <=> t = w /\ s = c
        /\ At(t, s, OpeningPcs) <=> t = w /\ s = c
        /\ ~At(t, s, OpeningPcs)'
        /\ At(t, s, OpeningPcs \cup {"return_session"}) <=> t = w /\ s = c
        /\ ~At(t, s, OpeningPcs \cup {"return_session"})'
        /\ ~At(t, s, {"disconnect_callback"})
        /\ ~At(t, s, {"disconnect_callback"})'
    BY <1>17, <2>1 DEF ListenCallback, Go, Done, At, OneWorker, ThreadTypes, ReaderPcs,
       ReturningPcs, OpeningPcs, WorkerPcs
  <2>3. Live(c)
    BY <2>2 DEF OneWorkerInv, OneReader, ClosedNotReading
  <2>4. IdOf(c) \in used /\ app[c] = Nil
    BY <2>2, <2>3 DEF OneWorkerInv, IdsUsed, TableInv
  <2>5. ~InPool(c)
    BY <2>3 DEF PoolExact
  <2>6. /\ \A s \in Sessions \ {c} : app'[s] = app[s]
        /\ app'[c] = guid[c]
    BY <1>17, <2>1, <2>4 DEF ListenCallback, StateTypes
  <2>7. OneReader'
    BY <1>17, <2>1, <2>2, <2>3, <2>4, <2>5, <2>6 DEF OneWorkerInv, OneReader, StateTypes,
       ListenCallback
  <2>8. ClosedNotReading'
    BY <1>17, <2>1, <2>2, <2>3, <2>4, <2>5, <2>6 DEF OneWorkerInv, ClosedNotReading, Live,
       StateTypes, ListenCallback
  <2>9. OpenedFresh'
    BY <1>17, <2>1, <2>2, <2>3, <2>4, <2>5, <2>6 DEF OneWorkerInv, OpenedFresh, IdsUsed,
       IdOf, Threads, StateTypes, ListenCallback
  <2>10. IdsUsed'
    BY <1>17, <2>1, <2>2, <2>3, <2>4, <2>5, <2>6 DEF OneWorkerInv, IdsUsed, Live, IdOf,
       StateTypes, ListenCallback
  <2>11. TableInv'
    <3>1. \A s \in Sessions : Announced(s)' => app'[s] = guid'[s]
      BY <1>17, <2>1, <2>2, <2>3, <2>4, <2>5, <2>6 DEF OneWorkerInv, TableInv, Announced,
         Live, StateTypes, ListenCallback
    <3>2. \A s \in Sessions : InPool(s)' => app'[s] = Nil
      BY <1>17, <2>1, <2>2, <2>3, <2>4, <2>5, <2>6 DEF OneWorkerInv, TableInv, InPool,
         StateTypes, ListenCallback
    <3>3. \A s \in Sessions, v \in Workers :
            /\ At(v, s, OpeningPcs \cup {"return_session"})' => app'[s] = Nil
            /\ At(v, s, {"disconnect_callback"})' => app'[s] = on'[v].g /\ guid'[s] = NextGuid(on'[v].g)
      BY <1>17, <2>1, <2>2, <2>3, <2>4, <2>5, <2>6 DEF OneWorkerInv, TableInv, IdOf,
         StateTypes, ListenCallback
    <3> QED
      BY <3>1, <3>2, <3>3 DEF TableInv, NextGuid
  <2>12. ClosersWork'
    BY <1>17, <2>1, <2>2, <2>3, <2>4, <2>5, <2>6, LifecycleAssumption DEF OneWorkerInv,
       ClosersWork, Go, Done, ThreadTypes, ListenCallback
  <2> QED
    BY <2>7, <2>8, <2>9, <2>10, <2>11, <2>12 DEF OneWorkerInv
<1>18. ASSUME NEW w \in Workers, DisconnectCallback(w) PROVE OneWorkerInv'
  <2>1. PICK c \in Sessions : c = on[w].s
    BY <1>18, BusyOn DEF DisconnectCallback
  <2>2. \A t \in Threads, s \in Sessions :
        /\ ~At(t, s, {"opened"})
        /\ ~At(t, s, {"opened"})'
        /\ ~At(t, s, ReaderPcs)
        /\ ~At(t, s, ReaderPcs)'
        /\ ~At(t, s, OpeningPcs)
        /\ ~At(t, s, OpeningPcs)'
        /\ ~At(t, s, OpeningPcs \cup {"return_session"})
        /\ At(t, s, OpeningPcs \cup {"return_session"})' <=> t = w /\ s = c
        /\ At(t, s, {"disconnect_callback"}) <=> t = w /\ s = c
        /\ ~At(t, s, {"disconnect_callback"})'
    BY <1>18, <2>1 DEF DisconnectCallback, Go, Done, At, OneWorker, ThreadTypes,
       ReaderPcs, ReturningPcs, OpeningPcs, WorkerPcs
  <2>3. At(w, c, ReturningPcs)
    BY <1>18, <2>1 DEF DisconnectCallback, At, ReturningPcs
  <2>4. ~Live(c) /\ closeOps[c] = 0 /\ app[c] = on[w].g
    BY <2>2, <2>3 DEF PoolExact, Retiring, Live, OneWorkerInv, TableInv
  <2>5. /\ \A s \in Sessions \ {c} : app'[s] = app[s]
        /\ app'[c] = Nil
    BY <1>18, <2>1, <2>4 DEF DisconnectCallback, StateTypes
  <2>6. OneReader'
    BY <1>18, <2>1, <2>2, <2>3, <2>4, <2>5 DEF OneWorkerInv, OneReader, StateTypes,
       DisconnectCallback
  <2>7. ClosedNotReading'
    BY <1>18, <2>1, <2>2, <2>3, <2>4, <2>5 DEF OneWorkerInv, ClosedNotReading, Live,
       StateTypes, DisconnectCallback
  <2>8. OpenedFresh'
    BY <1>18, <2>1, <2>2, <2>3, <2>4, <2>5 DEF OneWorkerInv, OpenedFresh, IdsUsed, IdOf,
       Threads, StateTypes, DisconnectCallback
  <2>9. IdsUsed'
    BY <1>18, <2>1, <2>2, <2>3, <2>4, <2>5 DEF OneWorkerInv, IdsUsed, Live, IdOf,
       StateTypes, DisconnectCallback
  <2>10. TableInv'
    <3>1. \A s \in Sessions : Announced(s)' => app'[s] = guid'[s]
      BY <1>18, <2>1, <2>2, <2>3, <2>4, <2>5, SMTT(30) DEF OneWorkerInv, TableInv, Announced, Live,
         StateTypes, DisconnectCallback
    <3>2. \A s \in Sessions : InPool(s)' => app'[s] = Nil
      BY <1>18, <2>1, <2>2, <2>3, <2>4, <2>5 DEF OneWorkerInv, TableInv, InPool,
         StateTypes, DisconnectCallback
    <3>3. \A s \in Sessions, v \in Workers :
            /\ At(v, s, OpeningPcs \cup {"return_session"})' => app'[s] = Nil
            /\ At(v, s, {"disconnect_callback"})' => app'[s] = on'[v].g /\ guid'[s] = NextGuid(on'[v].g)
      BY <2>2, <2>5
    <3> QED
      BY <3>1, <3>2, <3>3 DEF TableInv, NextGuid
  <2>11. ClosersWork'
    BY <1>18, <2>1, <2>2, <2>3, <2>4, <2>5, LifecycleAssumption DEF OneWorkerInv,
       ClosersWork, Go, Done, ThreadTypes, DisconnectCallback
  <2> QED
    BY <2>6, <2>7, <2>8, <2>9, <2>10, <2>11 DEF OneWorkerInv
<1>19. ASSUME NEW w \in Workers, NEW c \in Sessions, ReadFailed(w, c) PROVE OneWorkerInv'
  <2>1. \A t \in Threads, s \in Sessions :
        /\ ~At(t, s, {"opened"})
        /\ ~At(t, s, {"opened"})'
        /\ ~At(t, s, ReaderPcs)
        /\ ~At(t, s, ReaderPcs)'
        /\ ~At(t, s, OpeningPcs)
        /\ ~At(t, s, OpeningPcs)'
        /\ ~At(t, s, OpeningPcs \cup {"return_session"})
        /\ ~At(t, s, OpeningPcs \cup {"return_session"})'
        /\ ~At(t, s, {"disconnect_callback"})
        /\ ~At(t, s, {"disconnect_callback"})'
    BY <1>19 DEF ReadFailed, Go, Done, At, OneWorker, ThreadTypes, ReaderPcs,
       ReturningPcs, OpeningPcs, WorkerPcs
  <2>2. OneReader'
    BY <1>19, <2>1 DEF OneWorkerInv, OneReader, StateTypes, ReadFailed
  <2>3. ClosedNotReading'
    BY <1>19, <2>1 DEF OneWorkerInv, ClosedNotReading, Live, StateTypes, ReadFailed
  <2>4. OpenedFresh'
    BY <1>19, <2>1 DEF OneWorkerInv, OpenedFresh, IdsUsed, IdOf, Threads, StateTypes,
       ReadFailed
  <2>5. IdsUsed'
    BY <1>19, <2>1 DEF OneWorkerInv, IdsUsed, Live, IdOf, StateTypes, ReadFailed
  <2>6. TableInv'
    <3>1. \A s \in Sessions : Announced(s)' => app'[s] = guid'[s]
      BY <1>19, <2>1 DEF OneWorkerInv, TableInv, Announced, Live, StateTypes, ReadFailed
    <3>2. \A s \in Sessions : InPool(s)' => app'[s] = Nil
      BY <1>19, <2>1 DEF OneWorkerInv, TableInv, InPool, StateTypes, ReadFailed
    <3>3. \A s \in Sessions, v \in Workers :
            /\ At(v, s, OpeningPcs \cup {"return_session"})' => app'[s] = Nil
            /\ At(v, s, {"disconnect_callback"})' => app'[s] = on'[v].g /\ guid'[s] = NextGuid(on'[v].g)
      BY <1>19, <2>1 DEF OneWorkerInv, TableInv, IdOf, StateTypes, ReadFailed
    <3> QED
      BY <3>1, <3>2, <3>3 DEF TableInv, NextGuid
  <2>7. ClosersWork'
    BY <1>19, <2>1, LifecycleAssumption DEF OneWorkerInv, ClosersWork, Go, Done,
       ThreadTypes, ReadFailed
  <2> QED
    BY <2>2, <2>3, <2>4, <2>5, <2>6, <2>7 DEF OneWorkerInv
<1>20. ASSUME NEW w \in Workers, NEW c \in Sessions, ReadData(w, c) PROVE OneWorkerInv'
  <2>1. \A t \in Threads, s \in Sessions :
        /\ ~At(t, s, {"opened"})
        /\ ~At(t, s, {"opened"})'
        /\ ~At(t, s, ReaderPcs)
        /\ At(t, s, ReaderPcs)' <=> t = w /\ s = c
        /\ ~At(t, s, OpeningPcs)
        /\ ~At(t, s, OpeningPcs)'
        /\ ~At(t, s, OpeningPcs \cup {"return_session"})
        /\ ~At(t, s, OpeningPcs \cup {"return_session"})'
        /\ ~At(t, s, {"disconnect_callback"})
        /\ ~At(t, s, {"disconnect_callback"})'
    BY <1>20 DEF ReadData, Go, Done, At, OneWorker, ThreadTypes, ReaderPcs, ReturningPcs,
       OpeningPcs, WorkerPcs, IdOf
  <2>2. OneReader'
    BY <1>20, <2>1 DEF OneWorkerInv, OneReader, StateTypes, ReadData
  <2>3. ClosedNotReading'
    BY <1>20, <2>1 DEF OneWorkerInv, ClosedNotReading, Live, StateTypes, ReadData
  <2>4. OpenedFresh'
    BY <1>20, <2>1 DEF OneWorkerInv, OpenedFresh, IdsUsed, IdOf, Threads, StateTypes,
       ReadData
  <2>5. IdsUsed'
    BY <1>20, <2>1 DEF OneWorkerInv, IdsUsed, Live, IdOf, StateTypes, ReadData
  <2>6. TableInv'
    <3>1. \A s \in Sessions : Announced(s)' => app'[s] = guid'[s]
      BY <1>20, <2>1 DEF OneWorkerInv, TableInv, Announced, Live, StateTypes, ReadData
    <3>2. \A s \in Sessions : InPool(s)' => app'[s] = Nil
      BY <1>20, <2>1 DEF OneWorkerInv, TableInv, InPool, StateTypes, ReadData
    <3>3. \A s \in Sessions, v \in Workers :
            /\ At(v, s, OpeningPcs \cup {"return_session"})' => app'[s] = Nil
            /\ At(v, s, {"disconnect_callback"})' => app'[s] = on'[v].g /\ guid'[s] = NextGuid(on'[v].g)
      BY <1>20, <2>1 DEF OneWorkerInv, TableInv, IdOf, StateTypes, ReadData
    <3> QED
      BY <3>1, <3>2, <3>3 DEF TableInv, NextGuid
  <2>7. ClosersWork'
    BY <1>20, <2>1, LifecycleAssumption DEF OneWorkerInv, ClosersWork, Go, Done,
       ThreadTypes, ReadData
  <2> QED
    BY <2>2, <2>3, <2>4, <2>5, <2>6, <2>7 DEF OneWorkerInv
<1>21. ASSUME NEW w \in Workers, BeginRead(w) PROVE OneWorkerInv'
  <2>1. PICK c \in Sessions : c = on[w].s
    BY <1>21, BusyOn DEF BeginRead
  <2>2. \A t \in Threads, s \in Sessions :
        /\ ~At(t, s, {"opened"})
        /\ ~At(t, s, {"opened"})'
        /\ At(t, s, ReaderPcs) <=> t = w /\ s = c
        /\ ~At(t, s, ReaderPcs)'
        /\ ~At(t, s, OpeningPcs)
        /\ ~At(t, s, OpeningPcs)'
        /\ ~At(t, s, OpeningPcs \cup {"return_session"})
        /\ ~At(t, s, OpeningPcs \cup {"return_session"})'
        /\ ~At(t, s, {"disconnect_callback"})
        /\ ~At(t, s, {"disconnect_callback"})'
    BY <1>21, <2>1 DEF BeginRead, Go, Done, At, OneWorker, ThreadTypes, ReaderPcs,
       ReturningPcs, OpeningPcs, WorkerPcs
  <2>3. reading[c] /\ Live(c) /\ readOps[c] = 0
    BY <2>2, ReaderFacts DEF OneWorkerInv, OneReader, ClosedNotReading
  <2>4. /\ \A s \in Sessions \ {c} : readOps'[s] = readOps[s] /\ reading'[s] = reading[s]
        /\ readOps'[c] <= 1
        /\ readOps'[c] = 1 => reading'[c]
    <3>1. \/ readOps' = [readOps EXCEPT ![c] = @ + 1] /\ reading' = reading
          \/ readOps' = readOps /\ reading' = [reading EXCEPT ![c] = FALSE]
      BY <1>21, <2>1 DEF BeginRead
    <3> QED
      BY <2>3, <3>1 DEF StateTypes
  <2>5. UNCHANGED <<guid, status, closeOps, avail, app, known, used>>
    BY <1>21 DEF BeginRead
  <2>6. OneReader'
    BY <2>1, <2>2, <2>3, <2>4, <2>5 DEF OneWorkerInv, OneReader, StateTypes
  <2>7. ClosedNotReading'
    BY <1>21, <2>1, <2>2, <2>3, <2>4, <2>5 DEF OneWorkerInv, ClosedNotReading, Live,
       StateTypes, BeginRead
  <2>8. OpenedFresh'
    BY <1>21, <2>1, <2>2, <2>3, <2>4, <2>5 DEF OneWorkerInv, OpenedFresh, IdsUsed, IdOf,
       Threads, StateTypes, BeginRead
  <2>9. IdsUsed'
    BY <1>21, <2>1, <2>2, <2>3, <2>4, <2>5 DEF OneWorkerInv, IdsUsed, Live, IdOf,
       StateTypes, BeginRead
  <2>10. TableInv'
    <3>1. \A s \in Sessions : Announced(s)' => app'[s] = guid'[s]
      BY <2>1, <2>2, <2>3, <2>4, <2>5 DEF OneWorkerInv, TableInv, Announced, Live,
         StateTypes
    <3>2. \A s \in Sessions : InPool(s)' => app'[s] = Nil
      BY <2>1, <2>2, <2>3, <2>4, <2>5 DEF OneWorkerInv, TableInv, InPool, StateTypes
    <3>3. \A s \in Sessions, v \in Workers :
            /\ At(v, s, OpeningPcs \cup {"return_session"})' => app'[s] = Nil
            /\ At(v, s, {"disconnect_callback"})' => app'[s] = on'[v].g /\ guid'[s] = NextGuid(on'[v].g)
      BY <2>1, <2>2, <2>3, <2>4, <2>5 DEF OneWorkerInv, TableInv, IdOf, StateTypes
    <3> QED
      BY <3>1, <3>2, <3>3 DEF TableInv, NextGuid
  <2>11. ClosersWork'
    BY <1>21, <2>1, <2>2, <2>3, <2>4, <2>5, LifecycleAssumption DEF OneWorkerInv,
       ClosersWork, Go, Done, ThreadTypes, BeginRead
  <2> QED
    BY <2>6, <2>7, <2>8, <2>9, <2>10, <2>11 DEF OneWorkerInv
<1>22. ASSUME NEW w \in Workers, ParseMsg(w) PROVE OneWorkerInv'
  <2>1. PICK c \in Sessions : c = on[w].s
    BY <1>22, BusyOn DEF ParseMsg
  <2>2. \A t \in Threads, s \in Sessions :
        /\ ~At(t, s, {"opened"})
        /\ ~At(t, s, {"opened"})'
        /\ At(t, s, ReaderPcs) <=> t = w /\ s = c
        /\ ~At(t, s, ReaderPcs)'
        /\ ~At(t, s, OpeningPcs)
        /\ ~At(t, s, OpeningPcs)'
        /\ ~At(t, s, OpeningPcs \cup {"return_session"})
        /\ ~At(t, s, OpeningPcs \cup {"return_session"})'
        /\ ~At(t, s, {"disconnect_callback"})
        /\ ~At(t, s, {"disconnect_callback"})'
    BY <1>22, <2>1 DEF ParseMsg, Go, Done, At, OneWorker, ThreadTypes, ReaderPcs,
       ReturningPcs, OpeningPcs, WorkerPcs
  <2>3. reading[c] /\ Live(c) /\ readOps[c] = 0
    BY <2>2, ReaderFacts DEF OneWorkerInv, OneReader, ClosedNotReading
  <2>4. /\ \A s \in Sessions \ {c} : readOps'[s] = readOps[s] /\ reading'[s] = reading[s]
        /\ readOps'[c] <= 1
        /\ readOps'[c] = 1 => reading'[c]
    <3>1. \/ readOps' = [readOps EXCEPT ![c] = @ + 1] /\ reading' = reading
          \/ readOps' = readOps /\ reading' = [reading EXCEPT ![c] = FALSE]
      BY <1>22, <2>1 DEF ParseMsg
    <3> QED
      BY <2>3, <3>1 DEF StateTypes
  <2>5. UNCHANGED <<guid, status, closeOps, avail, app, known, used>>
    BY <1>22 DEF ParseMsg
  <2>6. OneReader'
    BY <2>1, <2>2, <2>3, <2>4, <2>5 DEF OneWorkerInv, OneReader, StateTypes
  <2>7. ClosedNotReading'
    BY <1>22, <2>1, <2>2, <2>3, <2>4, <2>5 DEF OneWorkerInv, ClosedNotReading, Live,
       StateTypes, ParseMsg
  <2>8. OpenedFresh'
    BY <1>22, <2>1, <2>2, <2>3, <2>4, <2>5 DEF OneWorkerInv, OpenedFresh, IdsUsed, IdOf,
       Threads, StateTypes, ParseMsg
  <2>9. IdsUsed'
    BY <1>22, <2>1, <2>2, <2>3, <2>4, <2>5 DEF OneWorkerInv, IdsUsed, Live, IdOf,
       StateTypes, ParseMsg
  <2>10. TableInv'
    <3>1. \A s \in Sessions : Announced(s)' => app'[s] = guid'[s]
      BY <2>1, <2>2, <2>3, <2>4, <2>5 DEF OneWorkerInv, TableInv, Announced, Live,
         StateTypes
    <3>2. \A s \in Sessions : InPool(s)' => app'[s] = Nil
      BY <2>1, <2>2, <2>3, <2>4, <2>5 DEF OneWorkerInv, TableInv, InPool, StateTypes
    <3>3. \A s \in Sessions, v \in Workers :
            /\ At(v, s, OpeningPcs \cup {"return_session"})' => app'[s] = Nil
            /\ At(v, s, {"disconnect_callback"})' => app'[s] = on'[v].g /\ guid'[s] = NextGuid(on'[v].g)
      BY <2>1, <2>2, <2>3, <2>4, <2>5 DEF OneWorkerInv, TableInv, IdOf, StateTypes
    <3> QED
      BY <3>1, <3>2, <3>3 DEF TableInv, NextGuid
  <2>11. ClosersWork'
    BY <1>22, <2>1, <2>2, <2>3, <2>4, <2>5, LifecycleAssumption DEF OneWorkerInv,
       ClosersWork, Go, Done, ThreadTypes, ParseMsg
  <2> QED
    BY <2>6, <2>7, <2>8, <2>9, <2>10, <2>11 DEF OneWorkerInv
<1>23. ASSUME NEW w \in Workers, Accept(w) PROVE OneWorkerInv'
  <2>1. PICK c \in Sessions : c = Head(avail) /\ InPool(c)
    BY <1>23 DEF Accept, StateTypes, InPool
  <2>2. \A t \in Threads, s \in Sessions :
        /\ ~At(t, s, {"opened"})
        /\ At(t, s, {"opened"})' <=> t = w /\ s = c
        /\ ~At(t, s, ReaderPcs)
        /\ ~At(t, s, ReaderPcs)'
        /\ ~At(t, s, OpeningPcs)
        /\ At(t, s, OpeningPcs)' <=> t = w /\ s = c
        /\ ~At(t, s, OpeningPcs \cup {"return_session"})
        /\ At(t, s, OpeningPcs \cup {"return_session"})' <=> t = w /\ s = c
        /\ ~At(t, s, {"disconnect_callback"})
        /\ ~At(t, s, {"disconnect_callback"})'
    BY <1>23, <2>1 DEF Accept, Go, Done, At, OneWorker, ThreadTypes, ReaderPcs,
       ReturningPcs, OpeningPcs, WorkerPcs, IdOf
  <2>3. ~Live(c) /\ ~Retiring(c) /\ app[c] = Nil
    BY <2>1 DEF PoolExact, OneWorkerInv, TableInv
  <2>4. closeOps[c] = 0
    BY <2>3 DEF Retiring, StateTypes
  <2>5. ~reading[c]
    BY <2>3 DEF OneWorkerInv, ClosedNotReading
  <2>6. readOps[c] = 0
    BY <2>5, ReaderFacts DEF OneWorkerInv
  <2>7. /\ \A s \in Sessions \ {c} : status'[s] = status[s]
        /\ status'[c] = "OPEN"
        /\ used' = used \cup {IdOf(c)} /\ IdOf(c) \notin used
        /\ UNCHANGED <<guid, reading, readOps, closeOps, app, known>>
    BY <1>23, <2>1 DEF Accept, StateTypes
  <2>8. \A s \in Sessions : InPool(s)' => InPool(s)
    <3>1. avail' = Tail(avail) /\ avail \in Seq(Sessions) /\ avail # <<>>
      BY <1>23 DEF Accept, StateTypes
    <3>2. \A i \in DOMAIN avail' : i + 1 \in DOMAIN avail /\ avail'[i] = avail[i + 1]
      BY <3>1
    <3> QED
      BY <3>2 DEF InPool
  <2>9. OneReader'
    BY <2>1, <2>2, <2>3, <2>4, <2>5, <2>6, <2>7, <2>8 DEF OneWorkerInv, OneReader,
       StateTypes
  <2>10. ClosedNotReading'
    BY <1>23, <2>1, <2>2, <2>3, <2>4, <2>5, <2>6, <2>7, <2>8 DEF OneWorkerInv,
       ClosedNotReading, Live, StateTypes, Accept
  <2>11. OpenedFresh'
    BY <2>1, <2>2, <2>3, <2>4, <2>5, <2>6, <2>7, <2>8 DEF OneWorkerInv, OpenedFresh,
       IdsUsed, IdOf, Threads, StateTypes
  <2>12. IdsUsed'
    BY <2>1, <2>2, <2>3, <2>4, <2>5, <2>6, <2>7, <2>8 DEF OneWorkerInv, IdsUsed, Live,
       IdOf, StateTypes
  <2>13. TableInv'
    <3>1. \A s \in Sessions : Announced(s)' => app'[s] = guid'[s]
      BY <2>1, <2>2, <2>3, <2>4, <2>5, <2>6, <2>7, <2>8 DEF OneWorkerInv, TableInv,
         Announced, Live, StateTypes
    <3>2. \A s \in Sessions : InPool(s)' => app'[s] = Nil
      BY <2>1, <2>2, <2>3, <2>4, <2>5, <2>6, <2>7, <2>8 DEF OneWorkerInv, TableInv,
         InPool, StateTypes
    <3>3. \A s \in Sessions, v \in Workers :
            /\ At(v, s, OpeningPcs \cup {"return_session"})' => app'[s] = Nil
            /\ At(v, s, {"disconnect_callback"})' => app'[s] = on'[v].g /\ guid'[s] = NextGuid(on'[v].g)
      BY <2>1, <2>2, <2>3, <2>4, <2>5, <2>6, <2>7, <2>8 DEF OneWorkerInv, TableInv, IdOf,
         StateTypes
    <3> QED
      BY <3>1, <3>2, <3>3 DEF TableInv, NextGuid
  <2>14. ClosersWork'
    BY <1>23, <2>1, <2>2, <2>3, <2>4, <2>5, <2>6, <2>7, <2>8, LifecycleAssumption
       DEF OneWorkerInv, ClosersWork, Go, Done, ThreadTypes, Accept
  <2> QED
    BY <2>9, <2>10, <2>11, <2>12, <2>13, <2>14 DEF OneWorkerInv
<1>24. ASSUME NEW w \in Workers, NEW c \in Sessions, HandleClose(w, c) PROVE OneWorkerInv'
  <2>1. \A t \in Threads, s \in Sessions :
        /\ ~At(t, s, {"opened"})
        /\ ~At(t, s, {"opened"})'
        /\ ~At(t, s, ReaderPcs)
        /\ ~At(t, s, ReaderPcs)'
        /\ ~At(t, s, OpeningPcs)
        /\ ~At(t, s, OpeningPcs)'
        /\ ~At(t, s, OpeningPcs \cup {"return_session"})
        /\ ~At(t, s, OpeningPcs \cup {"return_session"})'
        /\ ~At(t, s, {"disconnect_callback"})
        /\ At(t, s, {"disconnect_callback"})' <=> t = w /\ s = c
    BY <1>24 DEF HandleClose, Go, Done, At, OneWorker, ThreadTypes, ReaderPcs,
       ReturningPcs, OpeningPcs, WorkerPcs, IdOf, ClosedId
  <2>2. closeOps[c] = 1 /\ ~Live(c) /\ ~reading[c] /\ ~InPool(c) /\ app[c] = guid[c]
    BY <1>24 DEF HandleClose, PoolExact, Retiring, OneWorkerInv, ClosedNotReading,
       TableInv, Announced, Live, StateTypes
  <2>3. /\ \A s \in Sessions \ {c} : guid'[s] = guid[s] /\ closeOps'[s] = closeOps[s]
        /\ guid'[c] = NextGuid(guid[c]) /\ closeOps'[c] = 0
        /\ \A s \in Sessions : (reading'[s] <=> reading[s])
        /\ UNCHANGED <<status, readOps, avail, app, known, used>>
    BY <1>24, <2>2 DEF HandleClose, StateTypes
  <2>4. on'[w] = IdOf(c)
    BY <1>24 DEF HandleClose, Go, ClosedId, ThreadTypes
  <2>5. OneReader'
    BY <2>1, <2>2, <2>3, <2>4 DEF OneWorkerInv, OneReader, StateTypes
  <2>6. ClosedNotReading'
    BY <1>24, <2>1, <2>2, <2>3, <2>4 DEF OneWorkerInv, ClosedNotReading, Live, StateTypes,
       HandleClose
  <2>7. OpenedFresh'
    BY <2>1, <2>2, <2>3, <2>4 DEF OneWorkerInv, OpenedFresh, IdsUsed, IdOf, Threads,
       StateTypes
  <2>8. IdsUsed'
    BY <2>1, <2>2, <2>3, <2>4 DEF OneWorkerInv, IdsUsed, Live, IdOf, StateTypes
  <2>9. TableInv'
    <3>1. \A s \in Sessions : Announced(s)' => app'[s] = guid'[s]
      BY <2>1, <2>2, <2>3, <2>4, SMTT(30) DEF OneWorkerInv, TableInv, Announced, Live, StateTypes
    <3>2. \A s \in Sessions : InPool(s)' => app'[s] = Nil
      BY <2>1, <2>2, <2>3, <2>4 DEF OneWorkerInv, TableInv, InPool, StateTypes
    <3>3. \A s \in Sessions, v \in Workers :
            /\ At(v, s, OpeningPcs \cup {"return_session"})' => app'[s] = Nil
            /\ At(v, s, {"disconnect_callback"})' => app'[s] = on'[v].g /\ guid'[s] = NextGuid(on'[v].g)
      <4>1. on'[w].g = guid[c] /\ app'[c] = guid[c]
        BY <2>2, <2>3, <2>4 DEF IdOf
      <4>2. guid'[c] = NextGuid(on'[w].g)
        BY <2>3, <4>1 DEF NextGuid
      <4> QED
        BY <2>1, <4>1, <4>2 DEF NextGuid
    <3> QED
      BY <3>1, <3>2, <3>3 DEF TableInv, NextGuid
  <2>10. ClosersWork'
    BY <1>24, <2>1, <2>2, <2>3, <2>4, LifecycleAssumption DEF OneWorkerInv, ClosersWork,
       Go, Done, ThreadTypes, HandleClose
  <2> QED
    BY <2>5, <2>6, <2>7, <2>8, <2>9, <2>10 DEF OneWorkerInv
<1>25. ASSUME NEW w \in Workers, ReturnSession(w) PROVE OneWorkerInv'
  <2>1. PICK c \in Sessions : c = on[w].s
    BY <1>25, BusyOn DEF ReturnSession
  <2>2. \A t \in Threads, s \in Sessions :
        /\ ~At(t, s, {"opened"})
        /\ ~At(t, s, {"opened"})'
        /\ ~At(t, s, ReaderPcs)
        /\ ~At(t, s, ReaderPcs)'
        /\ ~At(t, s, OpeningPcs)
        /\ ~At(t, s, OpeningPcs)'
        /\ At(t, s, OpeningPcs \cup {"return_session"}) <=> t = w /\ s = c
        /\ ~At(t, s, OpeningPcs \cup {"return_session"})'
        /\ ~At(t, s, {"disconnect_callback"})
        /\ ~At(t, s, {"disconnect_callback"})'
    BY <1>25, <2>1 DEF ReturnSession, Go, Done, At, OneWorker, ThreadTypes, ReaderPcs,
       ReturningPcs, OpeningPcs, WorkerPcs
  <2>3. app[c] = Nil
    BY <2>2 DEF OneWorkerInv, TableInv
  <2>4. At(w, c, ReturningPcs)
    BY <1>25, <2>1 DEF ReturnSession, At, ReturningPcs
  <2>5. ~Live(c) /\ closeOps[c] = 0
    BY <2>4 DEF PoolExact, Retiring, Live
  <2>6. \A s \in Sessions : InPool(s)' => InPool(s) \/ s = c
    BY <1>25, <2>1 DEF ReturnSession, InPool, StateTypes
  <2>7. UNCHANGED <<guid, status, reading, readOps, closeOps, app, known, used>>
    BY <1>25 DEF ReturnSession
  <2>8. OneReader'
    BY <1>25, <2>1, <2>2, <2>3, <2>4, <2>5, <2>6, <2>7 DEF OneWorkerInv, OneReader,
       StateTypes, ReturnSession
  <2>9. ClosedNotReading'
    BY <1>25, <2>1, <2>2, <2>3, <2>4, <2>5, <2>6, <2>7 DEF OneWorkerInv, ClosedNotReading,
       Live, StateTypes, ReturnSession
  <2>10. OpenedFresh'
    BY <1>25, <2>1, <2>2, <2>3, <2>4, <2>5, <2>6, <2>7 DEF OneWorkerInv, OpenedFresh,
       IdsUsed, IdOf, Threads, StateTypes, ReturnSession
  <2>11. IdsUsed'
    BY <1>25, <2>1, <2>2, <2>3, <2>4, <2>5, <2>6, <2>7 DEF OneWorkerInv, IdsUsed, Live,
       IdOf, StateTypes, ReturnSession
  <2>12. TableInv'
    <3>1. \A s \in Sessions : Announced(s)' => app'[s] = guid'[s]
      BY <1>25, <2>1, <2>2, <2>3, <2>4, <2>5, <2>6, <2>7 DEF OneWorkerInv, TableInv,
         Announced, Live, StateTypes, ReturnSession
    <3>2. \A s \in Sessions : InPool(s)' => app'[s] = Nil
      BY <1>25, <2>1, <2>2, <2>3, <2>4, <2>5, <2>6, <2>7 DEF OneWorkerInv, TableInv,
         InPool, StateTypes, ReturnSession
    <3>3. \A s \in Sessions, v \in Workers :
            /\ At(v, s, OpeningPcs \cup {"return_session"})' => app'[s] = Nil
            /\ At(v, s, {"disconnect_callback"})' => app'[s] = on'[v].g /\ guid'[s] = NextGuid(on'[v].g)
      BY <1>25, <2>1, <2>2, <2>3, <2>4, <2>5, <2>6, <2>7 DEF OneWorkerInv, TableInv, IdOf,
         StateTypes, ReturnSession
    <3> QED
      BY <3>1, <3>2, <3>3 DEF TableInv, NextGuid
  <2>13. ClosersWork'
    BY <1>25, <2>1, <2>2, <2>3, <2>4, <2>5, <2>6, <2>7, LifecycleAssumption
       DEF OneWorkerInv, ClosersWork, Go, Done, ThreadTypes, ReturnSession
  <2> QED
    BY <2>8, <2>9, <2>10, <2>11, <2>12, <2>13 DEF OneWorkerInv
<1> QED
  BY <1>1, <1>2, <1>3, <1>4, <1>5, <1>6, <1>7, <1>8, <1>9, <1>10, <1>11, <1>12, <1>13,
     <1>14, <1>15, <1>16, <1>17, <1>18, <1>19, <1>20, <1>21, <1>22, <1>23, <1>24, <1>25,
     HeldQuiet DEF Next, WorkerStep

(* OneWorkerInv holds at the start.                                           *)
LEMMA InitOneWorkerInv ==
  ASSUME Init, PoolExact
  PROVE  OneWorkerInv
<1>1. \A t \in Threads, s \in Sessions, X \in SUBSET WorkerPcs : ~At(t, s, X)
  BY DEF Init, At, WorkerPcs
<1>2. OneReader /\ ClosedNotReading
  BY <1>1 DEF Init, OneReader, ClosedNotReading, ReaderPcs, WorkerPcs
<1>3. OpenedFresh /\ IdsUsed
  BY <1>1 DEF Init, OpenedFresh, IdsUsed, WorkerPcs, Threads, Live
<1>4. TableInv
  <2>1. OpeningPcs \cup {"return_session"} \in SUBSET WorkerPcs /\ {"disconnect_callback"} \in SUBSET WorkerPcs
    BY DEF OpeningPcs, WorkerPcs
  <2>2. \A s \in Sessions : ~Announced(s) /\ app[s] = Nil
    BY DEF Init, Announced, Live
  <2> QED
    BY <1>1, <2>1, <2>2 DEF TableInv, Threads
<1> QED
  BY <1>2, <1>3, <1>4 DEF Init, OneWorkerInv, ClosersWork, Threads

(* With one io thread OneWorkerInv always holds.                              *)
LEMMA OneWorkerKept ==
  ASSUME OneWorker
  PROVE  Spec => []OneWorkerInv
<1>1. Init => OneWorkerInv
  BY InitOneWorkerInv, InitPoolExact
<1>2. TypeOK /\ TypeOK' /\ PoolExact /\ PoolExact' /\ WriterInv /\ OneWorkerInv /\ [Next]_vars => OneWorkerInv'
  BY NextOneWorkerInv
<1> QED
  BY <1>1, <1>2, TypeCorrect, PoolIsExact, WriterKept, PTL DEF Spec

(* With one worker a session is reset and used again only when no operation *)
(* and no thread of its old connection is left.                             *)
THEOREM ReleaseIsQuiescent ==
  ASSUME OneWorker
  PROVE  Spec => []ReleaseQuiescent
<1>1. TypeOK /\ WriterInv /\ OneWorkerInv => ReleaseQuiescent
  <2> SUFFICES ASSUME TypeOK, WriterInv, OneWorkerInv PROVE ReleaseQuiescent
    OBVIOUS
  <2>1. OneReader
    BY DEF OneWorkerInv
  <2>2. ASSUME NEW s \in Sessions, ~Live(s)
        PROVE  /\ ~reading[s] /\ ~writing[s]
               /\ \A t \in Threads : ~At(t, s, WriterPcs) /\ ~At(t, s, ReaderPcs)
    BY <2>1, <2>2 DEF OneWorkerInv, WriterInv, ClosedNotReading, ClosedNotWriting,
       OneReader, OneWriter
  <2>3. ASSUME NEW s \in Sessions, ~Live(s) PROVE readOps[s] = 0
    BY <2>1, <2>2, <2>3, ReaderFacts DEF TypeOK
  <2>4. ASSUME NEW s \in Sessions, ~Live(s) PROVE writeOps[s] = 0
    <3>1. writeOps[s] \in Nat /\ writeOps[s] <= 1 /\ writeOps[s] # 1
      BY <2>2, <2>4 DEF WriterInv, OneWriter, TypeOK, StateTypes
    <3> QED
      BY <3>1
  <2>5. ASSUME NEW s \in Sessions, ~Live(s), NEW t \in Threads PROVE ~At(t, s, {"opened"})
    <3>1. At(t, s, {"opened"}) => t \in Workers
      BY DEF At, TypeOK, ThreadTypes, WorkerPcs
    <3> QED
      BY <2>5, <3>1 DEF OneWorkerInv, OpenedFresh, Live
  <2> QED
    BY <2>1, <2>2, <2>3, <2>4, <2>5 DEF ReleaseQuiescent, At
<1> QED
  BY <1>1, TypeCorrect, WriterKept, OneWorkerKept, PTL

-----------------------------------------------------------------------------
(* The id a worker carries through a handler is that of the connection.     *)
OnCurrent ==
  \A w \in Workers :
    pc[w] \notin {"idle"} \cup ReturningPcs => on[w].g = guid[on[w].s]

(* Each worker goes on with the same id, takes a current one, or gets where *)
(* OnCurrent says nothing.                                                  *)
KeepsCurrent ==
  /\ guid' = guid
  /\ \A w \in Workers :
       \/ pc'[w] \in {"idle"} \cup ReturningPcs
       \/ pc[w] \notin {"idle"} \cup ReturningPcs /\ on'[w] = on[w]
       \/ on'[w].g = guid[on'[w].s]

(* Every step keeps OnCurrent.                                                *)
LEMMA NextOnCurrent ==
  ASSUME OneWorker, TypeOK, OnCurrent, [Next]_vars
  PROVE  OnCurrent'
<1> USE DEF sessionVars, bufVars, opVars, poolVars, Threads
<1> StateTypes /\ ThreadTypes
  BY DEF TypeOK
<1>1. KeepsCurrent => OnCurrent'
  BY DEF KeepsCurrent, OnCurrent
<1>2. CASE UNCHANGED vars
  BY <1>2 DEF vars, OnCurrent
<1>3. ASSUME NEW w \in Workers, AcceptDropped(w) PROVE KeepsCurrent
  BY <1>3 DEF AcceptDropped, KeepsCurrent, Go, Done, IdOf, ReturningPcs, ThreadTypes, vars
<1>4. ASSUME NEW w \in Workers, Accept(w) PROVE KeepsCurrent
  BY <1>4 DEF Accept, KeepsCurrent, Go, Done, IdOf, ReturningPcs, ThreadTypes
<1>5. ASSUME NEW w \in Workers, OpenReading(w) PROVE KeepsCurrent
  BY <1>5 DEF OpenReading, KeepsCurrent, Go, Done, IdOf, ReturningPcs, ThreadTypes
<1>6. ASSUME NEW w \in Workers, ListenCallback(w) PROVE KeepsCurrent
  BY <1>6 DEF ListenCallback, KeepsCurrent, Go, Done, IdOf, ReturningPcs, ThreadTypes
<1>7. ASSUME NEW w \in Workers, BeginRead(w) PROVE KeepsCurrent
  BY <1>7 DEF BeginRead, KeepsCurrent, Go, Done, IdOf, ReturningPcs, ThreadTypes
<1>8. ASSUME NEW w \in Workers, ParseMsg(w) PROVE KeepsCurrent
  BY <1>8 DEF ParseMsg, KeepsCurrent, Go, Done, IdOf, ReturningPcs, ThreadTypes
<1>9. ASSUME NEW w \in Workers, Refill(w) PROVE KeepsCurrent
  BY <1>9 DEF Refill, KeepsCurrent, Go, Done, IdOf, ReturningPcs, ThreadTypes
<1>10. ASSUME NEW w \in Workers, WriteMore(w) PROVE KeepsCurrent
  BY <1>10 DEF WriteMore, KeepsCurrent, Go, Done, IdOf, ReturningPcs, ThreadTypes
<1>11. ASSUME NEW w \in Workers, WriteIdle(w) PROVE KeepsCurrent
  BY <1>11 DEF WriteIdle, KeepsCurrent, Go, Done, IdOf, ReturningPcs, ThreadTypes
<1>12. ASSUME NEW w \in Workers, DisconnectCallback(w) PROVE KeepsCurrent
  BY <1>12 DEF DisconnectCallback, KeepsCurrent, Go, Done, IdOf, ReturningPcs, ThreadTypes
<1>13. ASSUME NEW w \in Workers, ReturnSession(w) PROVE KeepsCurrent
  BY <1>13 DEF ReturnSession, KeepsCurrent, Go, Done, IdOf, ReturningPcs, ThreadTypes
<1>14. ASSUME NEW w \in Workers, NEW s \in Sessions, ReadFailed(w, s) PROVE KeepsCurrent
  BY <1>14 DEF ReadFailed, KeepsCurrent, Go, Done, IdOf, ReturningPcs, ThreadTypes
<1>15. ASSUME NEW w \in Workers, NEW s \in Sessions, ReadData(w, s) PROVE KeepsCurrent
  BY <1>15 DEF ReadData, KeepsCurrent, Go, Done, IdOf, ReturningPcs, ThreadTypes
<1>16. ASSUME NEW w \in Workers, NEW s \in Sessions, WriteFailed(w, s) PROVE KeepsCurrent
  BY <1>16 DEF WriteFailed, KeepsCurrent, Go, Done, IdOf, ReturningPcs, ThreadTypes
<1>17. ASSUME NEW w \in Workers, NEW s \in Sessions, WriteDone(w, s) PROVE KeepsCurrent
  BY <1>17 DEF WriteDone, KeepsCurrent, Go, Done, IdOf, ReturningPcs, ThreadTypes
<1>18. ASSUME NEW w \in Workers, NEW s \in Sessions, HandleClose(w, s) PROVE OnCurrent'
  BY <1>18 DEF HandleClose, Go, OnCurrent, ReturningPcs, OneWorker, ThreadTypes
<1>19. ASSUME NEW t \in Threads, CloseOwn(t) PROVE KeepsCurrent
  BY <1>19, LifecycleAssumption DEF CloseOwn, KeepsCurrent, Go, Done, IdOf, ReturningPcs,
     ThreadTypes
<1>20. ASSUME NEW t \in Threads, Release(t) PROVE KeepsCurrent
  BY <1>20, LifecycleAssumption DEF Release, KeepsCurrent, Go, Done, IdOf, ReturningPcs,
     ThreadTypes
<1>21. ASSUME NEW u \in Users, PostWrite(u) PROVE KeepsCurrent
  BY <1>21, LifecycleAssumption DEF PostWrite, KeepsCurrent, Go, Done, IdOf, ReturningPcs,
     ThreadTypes
<1>22. ASSUME NEW u \in Users, NEW id \in known, UserClose(u, id) PROVE KeepsCurrent
  BY <1>22, LifecycleAssumption DEF UserClose, KeepsCurrent, Go, Done, IdOf, ReturningPcs,
     ThreadTypes
<1>23. ASSUME NEW u \in Users, NEW id \in known, UserSendQueued(u, id) PROVE KeepsCurrent
  BY <1>23, LifecycleAssumption DEF UserSendQueued, KeepsCurrent, Go, Done, IdOf,
     ReturningPcs, ThreadTypes, vars
<1>24. ASSUME NEW u \in Users, NEW id \in known, UserSendFailed(u, id) PROVE KeepsCurrent
  BY <1>24, LifecycleAssumption DEF UserSendFailed, KeepsCurrent, Go, Done, IdOf,
     ReturningPcs, ThreadTypes
<1>25. ASSUME NEW u \in Users, NEW id \in known, UserSend(u, id) PROVE KeepsCurrent
  BY <1>25, LifecycleAssumption DEF UserSend, KeepsCurrent, Go, Done, IdOf, ReturningPcs,
     ThreadTypes
<1>26. ASSUME NEW u \in Users, NEW id \in known, UserSendStart(u, id) PROVE KeepsCurrent
  BY <1>26, LifecycleAssumption DEF UserSendStart, KeepsCurrent, Go, Done, IdOf,
     ReturningPcs, ThreadTypes
<1> QED
  BY <1>1, <1>2, <1>3, <1>4, <1>5, <1>6, <1>7, <1>8, <1>9, <1>10, <1>11, <1>12, <1>13,
     <1>14, <1>15, <1>16, <1>17, <1>18, <1>19, <1>20, <1>21, <1>22, <1>23, <1>24, <1>25,
     <1>26 DEF Next, WorkerStep

(* With one worker _close shuts down the connection it was called for.      *)
THEOREM ClosesItsOwn ==
  ASSUME OneWorker
  PROVE  Spec => []ClosesOwn
<1>1. Init => OnCurrent
  BY DEF Init, OnCurrent, Threads
<1>2. TypeOK /\ OnCurrent /\ [Next]_vars => OnCurrent'
  BY NextOnCurrent
<1>3. TypeOK /\ OnCurrent /\ OneWorkerInv => ClosesOwn
  BY DEF ClosesOwn, OnCurrent, ReturningPcs, OneWorkerInv, ClosersWork, Threads
<1> QED
  BY <1>1, <1>2, <1>3, TypeCorrect, OneWorkerKept, PTL DEF Spec

-----------------------------------------------------------------------------
(* Refinement: SessionTable, with the application's table as the table.     *)

(* Worker w is about to report the end of the connection on s.                *)
Reporting(w, s) == At(w, s, {"disconnect_callback"})

(* ExpectedSerial without CHOOSE, once the worker is the only one. *)
SerialsDetermined ==
  \A s \in Sessions :
    /\ \A w \in Workers : Reporting(w, s) => ExpectedSerial(s) = on[w].g
    /\ (\A w \in Workers : ~Reporting(w, s)) => ExpectedSerial(s) = guid[s]

(* The serial the table has for each session, in a state ...                  *)
LEMMA SerialOfState ==
  ASSUME OneWorker
  PROVE  SerialsDetermined
BY DEF OneWorker, SerialsDetermined, Reporting, ExpectedSerial

(* ... and in the next one.                                                   *)
LEMMA SerialOfNextState ==
  ASSUME OneWorker
  PROVE  SerialsDetermined'
BY DEF OneWorker, SerialsDetermined, Reporting, ExpectedSerial

(* What the refinement mapping reads does not change.                         *)
TableUntouched ==
  /\ UNCHANGED <<app, guid>>
  /\ \A w \in Workers :
       pc[w] = "disconnect_callback" \/ pc'[w] = "disconnect_callback" =>
         pc'[w] = pc[w] /\ on'[w] = on[w]

(* The serials of the table do not change.                                    *)
SerialsUnchanged == \A s \in Sessions : ExpectedSerial(s)' = ExpectedSerial(s)

(* Such a step is a stutter of SessionTable.                                  *)
LEMMA TableQuiet ==
  ASSUME OneWorker, TableUntouched
  PROVE  SerialsUnchanged
<1>1. \A w \in Workers, s \in Sessions : Reporting(w, s)' <=> Reporting(w, s)
  BY DEF TableUntouched, Reporting, At
<1>2. \A w \in Workers, s \in Sessions : Reporting(w, s) => on'[w] = on[w]
  BY DEF TableUntouched, Reporting, At
<1>3. SerialsDetermined /\ SerialsDetermined'
  BY SerialOfState, SerialOfNextState
<1>4. ASSUME NEW s \in Sessions PROVE ExpectedSerial(s)' = ExpectedSerial(s)
  <2>1. CASE \E w \in Workers : Reporting(w, s)
    BY <1>1, <1>2, <1>3, <2>1 DEF SerialsDetermined
  <2>2. CASE \A w \in Workers : ~Reporting(w, s)
    BY <1>1, <1>3, <2>2 DEF SerialsDetermined, TableUntouched
  <2> QED
    BY <2>1, <2>2
<1> QED
  BY <1>4 DEF SerialsUnchanged

(* Every step is a Connect, a Disconnect or a stutter of SessionTable.      *)
LEMMA TableStep ==
  ASSUME OneWorker, TypeOK, OneWorkerInv, [Next]_vars
  PROVE  \/ app' = app /\ SerialsUnchanged
         \/ \E s \in Sessions : Table!Connect(s) \/ Table!Disconnect(s)
<1> USE DEF sessionVars, bufVars, opVars, poolVars, Threads
<1> StateTypes /\ ThreadTypes
  BY DEF TypeOK
<1> DEFINE Step == \/ app' = app /\ SerialsUnchanged
                   \/ \E s \in Sessions : Table!Connect(s) \/ Table!Disconnect(s)
<1> HIDE DEF Step
<1>1. TableUntouched => Step
  BY TableQuiet DEF Step, TableUntouched
<1>2. CASE UNCHANGED vars
  BY <1>1, <1>2 DEF vars, TableUntouched, Step
<1>3. ASSUME NEW w \in Workers, ListenCallback(w) PROVE Step
  <2>1. PICK c \in Sessions : c = on[w].s
    BY <1>3, BusyOn DEF ListenCallback
  <2>2. \A v \in Workers, s \in Sessions : ~Reporting(v, s) /\ ~Reporting(v, s)'
    BY <1>3 DEF ListenCallback, OneWorker, Go, Reporting, At, ThreadTypes
  <2>3. SerialsDetermined /\ SerialsDetermined'
    BY SerialOfState, SerialOfNextState
  <2>4. \A s \in Sessions : ExpectedSerial(s) = guid[s] /\ ExpectedSerial(s)' = guid'[s]
    BY <2>2, <2>3 DEF SerialsDetermined
  <2>5. guid' = guid
    BY <1>3 DEF ListenCallback
  <2>6. app[c] = Nil
    BY <1>3, <2>1 DEF ListenCallback, OneWorkerInv, TableInv, At, OpeningPcs
  <2>7. app' = [app EXCEPT ![c] = guid[c]]
    BY <1>3, <2>1, <2>6 DEF ListenCallback, StateTypes
  <2>8. [s \in Sessions |-> ExpectedSerial(s)]' = [s \in Sessions |-> ExpectedSerial(s)]
    BY <2>4, <2>5
  <2>9. [s \in Sessions |-> ExpectedSerial(s)][c] = guid[c]
    BY <2>4
  <2>10. Table!Connect(c)
    BY <2>6, <2>7, <2>8, <2>9 DEF Table!Connect
  <2> QED
    BY <2>10 DEF Step
<1>4. ASSUME NEW w \in Workers, NEW c \in Sessions, HandleClose(w, c) PROVE Step
  <2>1. \A v \in Workers, s \in Sessions :
          ~Reporting(v, s) /\ (Reporting(v, s)' <=> s = c)
    BY <1>4 DEF HandleClose, OneWorker, Go, Reporting, At, ClosedId, IdOf, ThreadTypes
  <2>2. /\ on'[w].g = guid[c] /\ app' = app
        /\ \A s \in Sessions \ {c} : guid'[s] = guid[s]
    BY <1>4 DEF HandleClose, Go, ClosedId, IdOf, StateTypes, ThreadTypes
  <2>3. SerialsDetermined /\ SerialsDetermined'
    BY SerialOfState, SerialOfNextState
  <2>4. /\ \A s \in Sessions : ExpectedSerial(s) = guid[s]
        /\ \A s \in Sessions \ {c} : ExpectedSerial(s)' = guid'[s]
        /\ ExpectedSerial(c)' = on'[w].g
    BY <2>1, <2>3 DEF SerialsDetermined
  <2> QED
    BY <2>2, <2>4 DEF Step, SerialsUnchanged
<1>5. ASSUME NEW w \in Workers, DisconnectCallback(w) PROVE Step
  <2>1. PICK c \in Sessions : c = on[w].s
    BY <1>5, BusyOn DEF DisconnectCallback
  <2>2. \A v \in Workers, s \in Sessions :
          (Reporting(v, s) <=> s = c) /\ ~Reporting(v, s)'
    BY <1>5, <2>1 DEF DisconnectCallback, OneWorker, Go, Reporting, At, ThreadTypes
  <2>3. app[c] = on[w].g /\ guid[c] = NextGuid(on[w].g) /\ on[w].g \in 1..MaxGuid
    BY <1>5, <2>1, <2>2, BusyOn DEF OneWorkerInv, TableInv, Reporting, DisconnectCallback
  <2>4. SerialsDetermined /\ SerialsDetermined'
    BY SerialOfState, SerialOfNextState
  <2>5. guid' = guid
    BY <1>5 DEF DisconnectCallback
  <2>6. /\ \A s \in Sessions \ {c} : ExpectedSerial(s) = guid[s]
        /\ ExpectedSerial(c) = on[w].g
        /\ \A s \in Sessions : ExpectedSerial(s)' = guid[s]
    BY <2>2, <2>4, <2>5 DEF SerialsDetermined
  <2>7. app' = [app EXCEPT ![c] = Nil]
    BY <1>5, <2>1, <2>3 DEF DisconnectCallback, StateTypes
  <2>8. guid[c] = (on[w].g % MaxGuid) + 1
    BY <2>3, LifecycleAssumption DEF NextGuid
  <2> DEFINE serials == [s \in Sessions |-> ExpectedSerial(s)]
  <2>9. serials[c] = on[w].g
    BY <2>6
  <2>10. serials' = [serials EXCEPT ![c] = (@ % MaxGuid) + 1]
    BY <2>6, <2>8
  <2>11. Table!Disconnect(c)
    BY <2>3, <2>7, <2>9, <2>10 DEF Table!Disconnect
  <2> QED
    BY <2>11 DEF Step
<1>6. ASSUME NEW w \in Workers, AcceptDropped(w) PROVE TableUntouched
  BY <1>6 DEF AcceptDropped, TableUntouched, Go, Done, ThreadTypes, vars
<1>7. ASSUME NEW w \in Workers, Accept(w) PROVE TableUntouched
  BY <1>7 DEF Accept, TableUntouched, Go, Done, ThreadTypes
<1>8. ASSUME NEW w \in Workers, OpenReading(w) PROVE TableUntouched
  BY <1>8 DEF OpenReading, TableUntouched, Go, Done, ThreadTypes
<1>9. ASSUME NEW w \in Workers, BeginRead(w) PROVE TableUntouched
  BY <1>9 DEF BeginRead, TableUntouched, Go, Done, ThreadTypes
<1>10. ASSUME NEW w \in Workers, ParseMsg(w) PROVE TableUntouched
  BY <1>10 DEF ParseMsg, TableUntouched, Go, Done, ThreadTypes
<1>11. ASSUME NEW w \in Workers, Refill(w) PROVE TableUntouched
  BY <1>11 DEF Refill, TableUntouched, Go, Done, ThreadTypes
<1>12. ASSUME NEW w \in Workers, WriteMore(w) PROVE TableUntouched
  BY <1>12 DEF WriteMore, TableUntouched, Go, Done, ThreadTypes
<1>13. ASSUME NEW w \in Workers, WriteIdle(w) PROVE TableUntouched
  BY <1>13 DEF WriteIdle, TableUntouched, Go, Done, ThreadTypes
<1>14. ASSUME NEW w \in Workers, ReturnSession(w) PROVE TableUntouched
  BY <1>14 DEF ReturnSession, TableUntouched, Go, Done, ThreadTypes
<1>15. ASSUME NEW w \in Workers, NEW s \in Sessions, ReadFailed(w, s) PROVE TableUntouched
  BY <1>15 DEF ReadFailed, TableUntouched, Go, Done, ThreadTypes
<1>16. ASSUME NEW w \in Workers, NEW s \in Sessions, ReadData(w, s) PROVE TableUntouched
  BY <1>16 DEF ReadData, TableUntouched, Go, Done, ThreadTypes
<1>17. ASSUME NEW w \in Workers, NEW s \in Sessions, WriteFailed(w, s) PROVE TableUntouched
  BY <1>17 DEF WriteFailed, TableUntouched, Go, Done, ThreadTypes
<1>18. ASSUME NEW w \in Workers, NEW s \in Sessions, WriteDone(w, s) PROVE TableUntouched
  BY <1>18 DEF WriteDone, TableUntouched, Go, Done, ThreadTypes
<1>19. ASSUME NEW t \in Threads, CloseOwn(t) PROVE TableUntouched
  BY <1>19 DEF CloseOwn, TableUntouched, Go, Done, ThreadTypes
<1>20. ASSUME NEW t \in Threads, Release(t) PROVE TableUntouched
  BY <1>20 DEF Release, TableUntouched, Go, Done, ThreadTypes
<1>21. ASSUME NEW u \in Users, PostWrite(u) PROVE TableUntouched
  BY <1>21 DEF PostWrite, TableUntouched, Go, Done, ThreadTypes
<1>22. ASSUME NEW u \in Users, NEW id \in known, UserClose(u, id) PROVE TableUntouched
  BY <1>22 DEF UserClose, TableUntouched, Go, Done, ThreadTypes
<1>23. ASSUME NEW u \in Users, NEW id \in known, UserSendQueued(u, id) PROVE TableUntouched
  BY <1>23 DEF UserSendQueued, TableUntouched, Go, Done, ThreadTypes, vars
<1>24. ASSUME NEW u \in Users, NEW id \in known, UserSendFailed(u, id) PROVE TableUntouched
  BY <1>24 DEF UserSendFailed, TableUntouched, Go, Done, ThreadTypes
<1>25. ASSUME NEW u \in Users, NEW id \in known, UserSend(u, id) PROVE TableUntouched
  BY <1>25 DEF UserSend, TableUntouched, Go, Done, ThreadTypes
<1>26. ASSUME NEW u \in Users, NEW id \in known, UserSendStart(u, id) PROVE TableUntouched
  BY <1>26 DEF UserSendStart, TableUntouched, Go, Done, ThreadTypes
<1> QED
  BY <1>1, <1>2, <1>3, <1>4, <1>5, <1>6, <1>7, <1>8, <1>9, <1>10, <1>11, <1>12, <1>13,
     <1>14, <1>15, <1>16, <1>17, <1>18, <1>19, <1>20, <1>21, <1>22, <1>23, <1>24, <1>25,
     <1>26 DEF Next, WorkerStep, Step

(* With one worker the net layer keeps its promise to the application:      *)
(* on_connect and on_disconnect of a slot alternate with consecutive        *)
(* serials, under the refinement mapping of TableSpec.                      *)
THEOREM ImplementsSessionTable ==
  ASSUME OneWorker
  PROVE  Spec => TableSpec
<1>1. Init => Table!Init
  <2> SUFFICES ASSUME Init PROVE Table!Init
    OBVIOUS
  <2>1. \A w \in Workers, s \in Sessions : ~Reporting(w, s)
    BY DEF Init, Reporting, At, Threads
  <2>2. \A s \in Sessions : ExpectedSerial(s) = 1
    BY <2>1, SerialOfState DEF Init, SerialsDetermined
  <2> QED
    BY <2>2 DEF Init, Table!Init
<1>2. TypeOK /\ OneWorkerInv /\ [Next]_vars =>
        [Table!Next]_<<app, [s \in Sessions |-> ExpectedSerial(s)]>>
  <2> SUFFICES ASSUME TypeOK, OneWorkerInv, [Next]_vars
               PROVE  [Table!Next]_<<app, [s \in Sessions |-> ExpectedSerial(s)]>>
    OBVIOUS
  <2>1. SerialsUnchanged =>
          [s \in Sessions |-> ExpectedSerial(s)]' = [s \in Sessions |-> ExpectedSerial(s)]
    BY DEF SerialsUnchanged
  <2> QED
    BY <2>1, TableStep DEF Table!Next
<1> QED
  BY <1>1, <1>2, TypeCorrect, OneWorkerKept, PTL DEF Spec, TableSpec, Table!Spec
=============================================================================
