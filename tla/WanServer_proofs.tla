--------------------------- MODULE WanServer_proofs ---------------------------
(***************************************************************************)
(* Theorems about WanServer, for any number of slots, any heart beat, any  *)
(* number of connections of a slot and any length of the queue.            *)
(***************************************************************************)
EXTENDS WanServer, FiniteSetTheorems, TLAPS

(* The record of the io threads.                                              *)
IoType ==
  [at : {"idle", "set_id", "set_time", "clear_id", "clear_count", "clear_time"},
   s : Slots, g : Serials]

(* The record of the main thread.                                             *)
MainType ==
  [at : {"idle", "found", "is_used", "load", "store", "compare", "zero", "decide", "close"},
   s : Slots, g : Serials, t : Nat]

(* The types without the two bounds that need an argument: of m_time_out    *)
(* and of m_active_session_num.                                             *)
Types ==
  /\ id \in [Slots -> Serials]
  /\ timeOut \in [Slots -> Nat]
  /\ counted \in [Slots -> BOOLEAN]
  /\ active \in Nat
  /\ up \in [Slots -> Serials] /\ serial \in [Slots -> Serials]
  /\ queue \in Seq(Conn) /\ Len(queue) <= MaxQueue
  /\ io \in IoType
  /\ main \in MainType
  /\ spoken \subseteq Conn /\ heard \subseteq Slots
  /\ main.at = "found" => main.g # 0

(* Slots and serials are numbers.                                             *)
LEMMA SlotFacts ==
  ASSUME WanServerAssumption
  PROVE  /\ NumSlots \in Nat /\ HeartBeat \in Nat \ {0} /\ MaxSerial \in Nat /\ MaxQueue \in Nat
         /\ 0 \in Slots /\ 0 \in Serials /\ \A s \in Slots : s \in Nat
         /\ \A g \in Serials : g \in Nat /\ (g < MaxSerial => g + 1 \in Serials)
         /\ \A g \in Serials : g # 0 => g \in 1..MaxSerial
BY DEF WanServerAssumption, Slots, Serials

(* Each change an io thread makes to its record gives a record of the type.   *)
LEMMA IoFacts ==
  ASSUME WanServerAssumption, io \in IoType
  PROVE  /\ io.s \in Slots /\ io.g \in Serials
         /\ IoIdle \in IoType
         /\ [io EXCEPT !.at = "set_time"] \in IoType
         /\ [io EXCEPT !.at = "clear_count"] \in IoType
         /\ [io EXCEPT !.at = "clear_time"] \in IoType
         /\ \A s \in Slots, g \in Serials :
              /\ [at |-> "set_id", s |-> s, g |-> g] \in IoType
              /\ [at |-> "clear_id", s |-> s, g |-> g] \in IoType
BY SlotFacts DEF IoType, IoIdle

(* What the code may put into main has its type. *)
LEMMA MainFacts ==
  ASSUME WanServerAssumption, main \in MainType
  PROVE  /\ main.s \in Slots /\ main.g \in Serials /\ main.t \in Nat
         /\ main.t + 1 \in Nat /\ Resting \in MainType
         /\ \A s \in Slots, g \in Serials :
              [at |-> "found", s |-> s, g |-> g, t |-> 0] \in MainType
         /\ [Resting EXCEPT !.at = "is_used"] \in MainType
         /\ \A s \in Slots : [Resting EXCEPT !.at = "is_used", !.s = s] \in MainType
         /\ \A g \in Serials : [main EXCEPT !.at = "load", !.g = g] \in MainType
         /\ \A t \in Nat : [main EXCEPT !.at = "store", !.t = t] \in MainType
         /\ [main EXCEPT !.at = "compare", !.t = @ + 1] \in MainType
         /\ [main EXCEPT !.at = "zero"] \in MainType
         /\ [main EXCEPT !.at = "decide"] \in MainType
         /\ [main EXCEPT !.at = "close"] \in MainType
<1>1. main.s \in Slots /\ main.g \in Serials /\ main.t \in Nat
  BY DEF MainType
<1>0. main.t + 1 \in Nat
  BY <1>1
<1>2. Resting \in MainType
  BY SlotFacts DEF MainType, Resting
<1>3. \A s \in Slots, g \in Serials :
        [at |-> "found", s |-> s, g |-> g, t |-> 0] \in MainType
  BY DEF MainType
<1>4. /\ [Resting EXCEPT !.at = "is_used"] \in MainType
      /\ \A s \in Slots : [Resting EXCEPT !.at = "is_used", !.s = s] \in MainType
  BY SlotFacts DEF MainType, Resting
<1>5. \A g \in Serials : [main EXCEPT !.at = "load", !.g = g] \in MainType
  BY DEF MainType
<1>6. \A t \in Nat : [main EXCEPT !.at = "store", !.t = t] \in MainType
  BY DEF MainType
<1>7. [main EXCEPT !.at = "compare", !.t = @ + 1] \in MainType
  <2>1. \A t \in Nat : [main EXCEPT !.at = "compare", !.t = t] \in MainType
    BY DEF MainType
  <2> QED
    BY <1>0, <2>1
<1>8. /\ [main EXCEPT !.at = "zero"] \in MainType
      /\ [main EXCEPT !.at = "decide"] \in MainType
      /\ [main EXCEPT !.at = "close"] \in MainType
  BY DEF MainType
<1> QED
  BY <1>0, <1>1, <1>2, <1>3, <1>4, <1>5, <1>6, <1>7, <1>8

(* So does the step of the main thread to the next slot.                      *)
LEMMA NextSlotType ==
  ASSUME WanServerAssumption, main \in MainType, NextSlot
  PROVE  main' \in MainType /\ main'.at # "found"
<1>1. main' \in MainType
  BY MainFacts DEF NextSlot
<1>2. main'.at # "found"
  BY DEF NextSlot, Resting
<1> QED
  BY <1>1, <1>2

(* Each part of Types by itself. *)
LEMMA TypeParts ==
  ASSUME Types
  PROVE  /\ id \in [Slots -> Serials] /\ up \in [Slots -> Serials]
         /\ serial \in [Slots -> Serials]
         /\ timeOut \in [Slots -> Nat] /\ active \in Nat
         /\ queue \in Seq(Conn) /\ Len(queue) <= MaxQueue
         /\ io \in IoType /\ main \in MainType
BY DEF Types

(* What is queued, and what TakeMsg takes from the queue, is a connection. *)
LEMMA ConnFacts ==
  ASSUME WanServerAssumption
  PROVE  /\ \A m \in Conn : m.s \in Slots /\ m.g \in Serials /\ m.g # 0
         /\ \A s \in Slots, g \in Serials : g # 0 => [s |-> s, g |-> g] \in Conn
BY SlotFacts DEF Conn, Serials

(* The messages in the queue, and one more.                                   *)
LEMMA QueueFacts ==
  ASSUME Types
  PROVE  /\ Len(queue) \in Nat /\ DOMAIN queue = 1..Len(queue)
         /\ \A k \in 1..Len(queue) : queue[k] \in Conn
         /\ \A m \in Conn : /\ Append(queue, m) \in Seq(Conn)
                            /\ Len(Append(queue, m)) = Len(queue) + 1
<1>1. queue \in Seq(Conn)
  BY DEF Types
<1> QED
  BY <1>1

(* The first message of a queue, and the rest.                                *)
LEMMA HeadFacts ==
  ASSUME Types, queue # << >>
  PROVE  /\ Head(queue) \in Conn /\ Tail(queue) \in Seq(Conn)
         /\ Len(Tail(queue)) = Len(queue) - 1
         /\ Len(queue) \in Nat /\ Len(queue) > 0
         /\ Head(queue) = queue[1]
<1>1. queue \in Seq(Conn)
  BY DEF Types
<1> QED
  BY <1>1

(* The types hold at the start.                                               *)
LEMMA InitTypes ==
  ASSUME WanServerAssumption, Init
  PROVE  Types
BY SlotFacts DEF Init, Types, Serials, IoIdle, Resting, IoType, MainType

(* Every step keeps the types.                                                *)
LEMMA NextTypes ==
  ASSUME WanServerAssumption, Types, [Next]_vars
  PROVE  Types'
<1>1. CASE UNCHANGED vars
  BY <1>1 DEF vars, netVars, ghostVars, Types
<1>2. ASSUME NEW s \in Slots, OnConnect(s) PROVE Types'
  <2>1. serial' \in [Slots -> Serials]
    BY <1>2, TypeParts, SlotFacts DEF OnConnect
  <2>2. up' \in [Slots -> Serials]
    BY <1>2, TypeParts, SlotFacts DEF OnConnect
  <2>3. io' \in IoType
    BY <1>2, TypeParts, IoFacts, SlotFacts DEF OnConnect
  <2> QED
    BY <1>2, <2>1, <2>2, <2>3 DEF Types, OnConnect, netVars, ghostVars
<1>3. ASSUME NEW s \in Slots, OnMsgReceive(s) PROVE Types'
  <2>1. queue' \in Seq(Conn) /\ Len(queue') <= MaxQueue
    BY <1>3, TypeParts, SlotFacts, ConnFacts, QueueFacts DEF OnMsgReceive
  <2> QED
    BY <1>3, <2>1 DEF Types, OnMsgReceive, netVars, ghostVars
<1>4. ASSUME NEW s \in Slots, OnDisconnect(s) PROVE Types'
  <2>1. up' \in [Slots -> Serials]
    BY <1>4, TypeParts, SlotFacts DEF OnDisconnect
  <2>2. active' \in Nat
    BY <1>4, TypeParts, SlotFacts DEF OnDisconnect, OneFewer
  <2>3. io' \in IoType
    BY <1>4, TypeParts, IoFacts DEF OnDisconnect
  <2> QED
    BY <1>4, <2>1, <2>2, <2>3 DEF Types, OnDisconnect, netVars, ghostVars
<1>5. CASE SetId
  <2>1. id' \in [Slots -> Serials]
    BY <1>5, TypeParts, IoFacts, SlotFacts DEF SetId
  <2>2. io' \in IoType
    BY <1>5, TypeParts, IoFacts DEF SetId
  <2> QED
    BY <1>5, <2>1, <2>2 DEF Types, SetId, netVars, ghostVars
<1>6. CASE SetTime
  <2>1. timeOut' \in [Slots -> Nat]
    BY <1>6, TypeParts, IoFacts DEF SetTime
  <2>2. active' \in Nat
    BY <1>6, TypeParts, IoFacts, SlotFacts DEF SetTime
  <2>3. io' \in IoType
    BY <1>6, TypeParts, IoFacts DEF SetTime
  <2> QED
    BY <1>6, <2>1, <2>2, <2>3 DEF Types, SetTime, netVars, ghostVars
<1>7. CASE ClearId
  <2>1. id' \in [Slots -> Serials]
    BY <1>7, TypeParts, IoFacts, SlotFacts DEF ClearId
  <2>2. io' \in IoType
    BY <1>7, TypeParts, IoFacts DEF ClearId
  <2> QED
    BY <1>7, <2>1, <2>2 DEF Types, ClearId, netVars, ghostVars
<1>8. CASE ClearCount
  <2>1. counted' \in [Slots -> BOOLEAN]
    BY <1>8, IoFacts, TypeParts DEF Types, ClearCount
  <2>2. io' \in IoType
    BY <1>8, TypeParts, IoFacts DEF ClearCount
  <2> QED
    BY <1>8, <2>1, <2>2 DEF Types, ClearCount, netVars, ghostVars
<1>9. CASE ClearTime
  <2>1. timeOut' \in [Slots -> Nat]
    BY <1>9, TypeParts, IoFacts DEF ClearTime
  <2>2. io' \in IoType
    BY <1>9, TypeParts, IoFacts DEF ClearTime
  <2> QED
    BY <1>9, <2>1, <2>2 DEF Types, ClearTime, netVars, ghostVars
<1>10. CASE TakeMsg
  <2>1. queue' \in Seq(Conn) /\ Len(queue') <= MaxQueue
    BY <1>10, TypeParts, SlotFacts, HeadFacts DEF TakeMsg
  <2>2. main' \in MainType
    BY <1>10, TypeParts, MainFacts, ConnFacts, HeadFacts DEF TakeMsg
  <2>3. main'.at = "found" => main'.g # 0
    BY <1>10, TypeParts, HeadFacts, ConnFacts DEF TakeMsg, Resting, MainType
  <2> QED
    BY <1>10, <2>1, <2>2, <2>3 DEF Types, TakeMsg, netVars, ghostVars
<1>11. CASE CountMsg
  <2>1. counted' \in [Slots -> BOOLEAN]
    BY <1>11, MainFacts, TypeParts DEF Types, CountMsg
  <2>2. spoken' \subseteq Conn
    BY <1>11, MainFacts, TypeParts, ConnFacts DEF Types, CountMsg
  <2>3. heard' \subseteq Slots
    BY <1>11, MainFacts, TypeParts DEF Types, CountMsg
  <2>4. main' \in MainType
    BY <1>11, TypeParts, MainFacts DEF CountMsg
  <2>5. main'.at = "found" => main'.g # 0
    BY <1>11, TypeParts DEF CountMsg, Resting, MainType
  <2> QED
    BY <1>11, <2>1, <2>2, <2>3, <2>4, <2>5 DEF Types, CountMsg, netVars, ghostVars
<1>12. CASE StartRound
  <2>1. main' \in MainType
    BY <1>12, TypeParts, MainFacts DEF StartRound
  <2>2. main'.at = "found" => main'.g # 0
    BY <1>12, TypeParts DEF StartRound, Resting, MainType
  <2> QED
    BY <1>12, <2>1, <2>2 DEF Types, StartRound, netVars, ghostVars
<1>13. CASE IsUsed
  <2>1. main' \in MainType
    BY <1>13, TypeParts, MainFacts, NextSlotType DEF IsUsed
  <2>2. main'.at = "found" => main'.g # 0
    BY <1>13, TypeParts, NextSlotType DEF IsUsed, Resting, MainType
  <2> QED
    BY <1>13, <2>1, <2>2 DEF Types, IsUsed, netVars, ghostVars
<1>14. CASE LoadTime
  <2>1. main' \in MainType
    BY <1>14, TypeParts, MainFacts DEF LoadTime
  <2>2. main'.at = "found" => main'.g # 0
    BY <1>14, TypeParts DEF LoadTime, Resting, MainType
  <2> QED
    BY <1>14, <2>1, <2>2 DEF Types, LoadTime, netVars, ghostVars
<1>15. CASE StoreTime
  <2>1. timeOut' \in [Slots -> Nat]
    BY <1>15, TypeParts, MainFacts DEF StoreTime
  <2>2. main' \in MainType
    BY <1>15, TypeParts, MainFacts DEF StoreTime
  <2>3. main'.at = "found" => main'.g # 0
    BY <1>15, TypeParts DEF StoreTime, Resting, MainType
  <2> QED
    BY <1>15, <2>1, <2>2, <2>3 DEF Types, StoreTime, netVars, ghostVars
<1>16. CASE CompareTime
  <2>1. main' \in MainType
    BY <1>16, TypeParts, MainFacts, NextSlotType DEF CompareTime
  <2>2. main'.at = "found" => main'.g # 0
    BY <1>16, TypeParts, NextSlotType DEF CompareTime, Resting, MainType
  <2> QED
    BY <1>16, <2>1, <2>2 DEF Types, CompareTime, netVars, ghostVars
<1>17. CASE ZeroTime
  <2>1. timeOut' \in [Slots -> Nat]
    BY <1>17, TypeParts, MainFacts DEF ZeroTime
  <2>2. main' \in MainType
    BY <1>17, TypeParts, MainFacts DEF ZeroTime
  <2>3. main'.at = "found" => main'.g # 0
    BY <1>17, TypeParts DEF ZeroTime, Resting, MainType
  <2> QED
    BY <1>17, <2>1, <2>2, <2>3 DEF Types, ZeroTime, netVars, ghostVars
<1>18. CASE Decide
  <2>1. heard' \subseteq Slots
    BY <1>18, NextSlotType DEF Types, Decide
  <2>2. main' \in MainType
    BY <1>18, TypeParts, MainFacts, NextSlotType DEF Decide
  <2>3. main'.at = "found" => main'.g # 0
    BY <1>18, TypeParts, NextSlotType DEF Decide, Resting, MainType
  <2> QED
    BY <1>18, <2>1, <2>2, <2>3 DEF Types, Decide, netVars, ghostVars
<1>19. CASE Close
  <2>1. main' \in MainType
    BY <1>19, TypeParts, MainFacts, NextSlotType DEF Close
  <2>2. main'.at = "found" => main'.g # 0
    BY <1>19, TypeParts, NextSlotType DEF Close, Resting, MainType
  <2> QED
    BY <1>19, <2>1, <2>2 DEF Types, Close, netVars, ghostVars
<1> QED
  BY <1>1, <1>2, <1>3, <1>4, <1>5, <1>6, <1>7, <1>8, <1>9, <1>10, <1>11, <1>12, <1>13,
     <1>14, <1>15, <1>16, <1>17, <1>18, <1>19 DEF Next, IoThread, MainThread

-----------------------------------------------------------------------------
(* m_time_out of a slot comes to the limit only between the store and the    *)
(* zero of the main thread at that slot, which therefore sees the limit.     *)
TimeInv ==
  /\ \A s \in Slots : timeOut[s] <= HeartBeat
  /\ \A s \in Slots : timeOut[s] = HeartBeat =>
       /\ main.s = s /\ main.at \in {"compare", "zero"}
       /\ main.at = "compare" => main.t = HeartBeat
  /\ main.t <= HeartBeat
  /\ main.at = "store" => main.t < HeartBeat


(* TimeInv holds at the start.                                                *)
LEMMA InitTimeInv ==
  ASSUME WanServerAssumption, Init
  PROVE  TimeInv
BY SlotFacts DEF Init, TimeInv, Resting

(* A step that leaves timeOut and main alone keeps TimeInv.                   *)
LEMMA TimeQuiet ==
  ASSUME TimeInv, UNCHANGED <<timeOut, main>>
  PROVE  TimeInv'
BY DEF TimeInv

(* Where NextSlot leaves the main thread, m_time_out may have any value below *)
(* the limit.                                                               *)
LEMMA NextSlotTime ==
  ASSUME WanServerAssumption, Types, UNCHANGED timeOut, NextSlot,
         \A s \in Slots : timeOut[s] < HeartBeat
  PROVE  TimeInv'
<1>1. main'.t = 0 /\ main'.at \in {"idle", "is_used"}
  BY DEF NextSlot, Resting
<1> QED
  BY <1>1, SlotFacts, TypeParts DEF TimeInv

(* Every step keeps TimeInv.                                                  *)
LEMMA NextTimeInv ==
  ASSUME WanServerAssumption, Types, TimeInv, [Next]_vars
  PROVE  TimeInv'
<1>1. CASE UNCHANGED vars
  BY <1>1, TimeQuiet DEF vars
<1>2. ASSUME NEW s \in Slots, OnConnect(s) PROVE TimeInv'
  BY <1>2, TimeQuiet DEF OnConnect
<1>3. ASSUME NEW s \in Slots, OnMsgReceive(s) PROVE TimeInv'
  BY <1>3, TimeQuiet DEF OnMsgReceive
<1>4. ASSUME NEW s \in Slots, OnDisconnect(s) PROVE TimeInv'
  BY <1>4, TimeQuiet DEF OnDisconnect
<1>5. CASE SetId
  BY <1>5, TimeQuiet DEF SetId
<1>6. CASE SetTime
  <2>1. io.s \in Slots /\ timeOut' = [timeOut EXCEPT ![io.s] = 0] /\ main' = main
    BY <1>6, TypeParts, IoFacts DEF SetTime
  <2> QED
    BY <2>1, SlotFacts, TypeParts DEF TimeInv
<1>7. CASE ClearId
  BY <1>7, TimeQuiet DEF ClearId
<1>8. CASE ClearCount
  BY <1>8, TimeQuiet DEF ClearCount
<1>9. CASE ClearTime
  <2>1. io.s \in Slots /\ timeOut' = [timeOut EXCEPT ![io.s] = 0] /\ main' = main
    BY <1>9, TypeParts, IoFacts DEF ClearTime
  <2> QED
    BY <2>1, SlotFacts, TypeParts DEF TimeInv
<1>10. CASE TakeMsg
  <2>1. /\ main.at = "idle" /\ timeOut' = timeOut
        /\ main'.at \in {"idle", "found"} /\ main'.t = 0
    BY <1>10 DEF TakeMsg, Resting
  <2> QED
    BY <2>1, SlotFacts, TypeParts DEF TimeInv
<1>11. CASE CountMsg
  <2>1. /\ main.at = "found" /\ timeOut' = timeOut
        /\ main'.at \in {"idle"} /\ main'.t = 0
    BY <1>11 DEF CountMsg, Resting
  <2> QED
    BY <2>1, SlotFacts, TypeParts DEF TimeInv
<1>12. CASE StartRound
  <2>1. /\ main.at = "idle" /\ timeOut' = timeOut
        /\ main'.at \in {"is_used"} /\ main'.t = 0
    BY <1>12 DEF StartRound, Resting
  <2> QED
    BY <2>1, SlotFacts, TypeParts DEF TimeInv
<1>13. CASE IsUsed
  <2>1. main.at = "is_used" /\ timeOut' = timeOut
    BY <1>13 DEF IsUsed
  <2>2. \A s \in Slots : timeOut[s] < HeartBeat
    BY <2>1, SlotFacts, TypeParts DEF TimeInv
  <2>3. CASE NextSlot
    BY <2>1, <2>2, <2>3, NextSlotTime
  <2>4. CASE ~NextSlot
    <3>1. main'.at = "load" /\ main'.t = main.t
      BY <1>13, <2>4, TypeParts DEF IsUsed, MainType
    <3> QED
      BY <2>1, <2>2, <3>1, SlotFacts, TypeParts DEF TimeInv
  <2> QED
    BY <2>3, <2>4
<1>14. CASE LoadTime
  <2>1. main.at = "load" /\ timeOut' = timeOut /\ main.s \in Slots
    BY <1>14, TypeParts, MainFacts DEF LoadTime
  <2>2. main'.at = "store" /\ main'.t = timeOut[main.s]
    BY <1>14, TypeParts DEF LoadTime, MainType
  <2> QED
    BY <2>1, <2>2, SlotFacts, TypeParts DEF TimeInv
<1>15. CASE StoreTime
  <2>1. /\ main.at = "store" /\ main.s \in Slots /\ main.t \in Nat
        /\ timeOut' = [timeOut EXCEPT ![main.s] = main.t + 1]
        /\ main'.at = "compare" /\ main'.s = main.s /\ main'.t = main.t + 1
    BY <1>15, TypeParts, MainFacts DEF StoreTime, MainType
  <2>2. main'.t <= HeartBeat /\ \A s \in Slots : timeOut[s] < HeartBeat
    BY <2>1, SlotFacts, TypeParts DEF TimeInv
  <2> QED
    BY <2>1, <2>2, SlotFacts, TypeParts DEF TimeInv
<1>16. CASE CompareTime
  <2>1. main.at = "compare" /\ timeOut' = timeOut /\ main.s \in Slots /\ main.t \in Nat
    BY <1>16, TypeParts, MainFacts DEF CompareTime
  <2>2. CASE main' = [main EXCEPT !.at = "zero"]
    <3>1. main'.at = "zero" /\ main'.s = main.s /\ main'.t = main.t
      BY <2>2, TypeParts DEF MainType
    <3> QED
      BY <2>1, <3>1, SlotFacts, TypeParts DEF TimeInv
  <2>3. ASSUME NEW t \in {main.t, timeOut[main.s]}, t < HeartBeat, NextSlot
        PROVE  TimeInv'
    <3>1. \A s \in Slots : timeOut[s] < HeartBeat
      BY <2>1, <2>3, SlotFacts, TypeParts DEF TimeInv
    <3> QED
      BY <2>1, <2>3, <3>1, NextSlotTime
  <2> QED
    BY <1>16, <2>2, <2>3 DEF CompareTime
<1>17. CASE ZeroTime
  <2>1. /\ main.at = "zero" /\ main.s \in Slots /\ timeOut' = [timeOut EXCEPT ![main.s] = 0]
        /\ main'.at = "decide" /\ main'.t = main.t
    BY <1>17, TypeParts, MainFacts DEF ZeroTime, MainType
  <2> QED
    BY <2>1, SlotFacts, TypeParts DEF TimeInv
<1>18. CASE Decide
  <2>1. main.at = "decide" /\ timeOut' = timeOut
    BY <1>18 DEF Decide
  <2>2. \A s \in Slots : timeOut[s] < HeartBeat
    BY <2>1, SlotFacts, TypeParts DEF TimeInv
  <2>3. CASE NextSlot
    BY <2>1, <2>2, <2>3, NextSlotTime
  <2>4. CASE ~NextSlot
    <3>1. main'.at = "close" /\ main'.t = main.t
      BY <1>18, <2>4, TypeParts DEF Decide, MainType
    <3> QED
      BY <2>1, <2>2, <3>1, SlotFacts, TypeParts DEF TimeInv
  <2> QED
    BY <2>3, <2>4
<1>19. CASE Close
  <2>1. main.at = "close" /\ timeOut' = timeOut
    BY <1>19 DEF Close
  <2>2. \A s \in Slots : timeOut[s] < HeartBeat
    BY <2>1, SlotFacts, TypeParts DEF TimeInv
  <2>3. CASE NextSlot
    BY <2>1, <2>2, <2>3, NextSlotTime
  <2> QED
    BY <1>19, <2>3 DEF Close
<1> QED
  BY <1>1, <1>2, <1>3, <1>4, <1>5, <1>6, <1>7, <1>8, <1>9, <1>10, <1>11, <1>12, <1>13,
     <1>14, <1>15, <1>16, <1>17, <1>18, <1>19 DEF Next, IoThread, MainThread
-----------------------------------------------------------------------------
(* The slots in use. *)
Used(f) == {s \in Slots : f[s] # 0}

(* There are at most NumSlots slots in use.                                   *)
LEMMA UsedFacts ==
  ASSUME WanServerAssumption, NEW f \in [Slots -> Serials]
  PROVE  /\ IsFiniteSet(Used(f)) /\ Cardinality(Used(f)) \in 0..NumSlots
<1>1. IsFiniteSet(Slots) /\ Cardinality(Slots) = NumSlots
  BY SlotFacts, FS_Interval DEF Slots
<1>2. Used(f) \subseteq Slots
  BY DEF Used
<1> QED
  BY <1>1, <1>2, SlotFacts, FS_Subset, FS_CardinalityType

(* A slot more is in use, a slot less. *)
LEMMA UsedMore ==
  ASSUME WanServerAssumption, NEW f \in [Slots -> Serials], NEW s \in Slots, NEW g \in Serials,
         g # 0, f[s] = 0
  PROVE  Cardinality(Used([f EXCEPT ![s] = g])) = Cardinality(Used(f)) + 1
<1>1. Used([f EXCEPT ![s] = g]) = Used(f) \cup {s} /\ s \notin Used(f)
  BY DEF Used
<1> QED
  BY <1>1, UsedFacts, FS_AddElement

(* A slot that is no longer in use counts for one.                            *)
LEMMA UsedLess ==
  ASSUME WanServerAssumption, NEW f \in [Slots -> Serials], NEW s \in Slots, f[s] # 0
  PROVE  Cardinality(Used([f EXCEPT ![s] = 0])) + 1 = Cardinality(Used(f))
<1>1. Used([f EXCEPT ![s] = 0]) = Used(f) \ {s} /\ s \in Used(f)
  BY DEF Used
<1>2. Cardinality(Used([f EXCEPT ![s] = 0])) = Cardinality(Used(f)) - 1
  BY <1>1, UsedFacts, FS_RemoveElement
<1>3. Cardinality(Used(f)) \in Nat
  BY UsedFacts, SlotFacts
<1> QED
  BY <1>2, <1>3

(* How far the table is from the connections of the library, and the count   *)
(* from the table, at each step of a callback.                              *)
TableInv ==
  /\ io.at = "idle" => id = up /\ active = Cardinality(Used(id))
  /\ io.at = "set_id" =>
       /\ io.g # 0 /\ up[io.s] = io.g /\ id = [up EXCEPT ![io.s] = 0]
       /\ active = Cardinality(Used(id))
  /\ io.at = "set_time" => id = up /\ active + 1 = Cardinality(Used(id))
  /\ io.at = "clear_id" =>
       /\ id[io.s] # 0 /\ up = [id EXCEPT ![io.s] = 0]
       /\ active + 1 = Cardinality(Used(id))
  /\ io.at \in {"clear_count", "clear_time"} => id = up /\ active = Cardinality(Used(id))


(* TableInv holds at the start.                                               *)
LEMMA InitTableInv ==
  ASSUME WanServerAssumption, Init
  PROVE  TableInv
<1>1. Used(id) = {}
  BY SlotFacts DEF Init, Used
<1> QED
  BY <1>1, FS_EmptySet DEF Init, TableInv, IoIdle

(* A step that leaves the table and the io threads alone keeps TableInv.      *)
LEMMA TableQuiet ==
  ASSUME TableInv, UNCHANGED <<id, active, up, io>>
  PROVE  TableInv'
BY DEF TableInv, Used

(* Every step keeps TableInv.                                                 *)
LEMMA NextTableInv ==
  ASSUME WanServerAssumption, Types, TableInv, [Next]_vars
  PROVE  TableInv'
<1>1. CASE UNCHANGED vars
  BY <1>1, TableQuiet DEF vars, netVars
<1>2. ASSUME NEW s \in Slots, OnConnect(s) PROVE TableInv'
  <2>1. /\ id = up /\ active = Cardinality(Used(id)) /\ id[s] = 0 /\ id' = id /\ active' = active
        /\ up' = [up EXCEPT ![s] = serial[s] + 1]
        /\ io' = [at |-> "set_id", s |-> s, g |-> serial[s] + 1]
    BY <1>2 DEF OnConnect, TableInv, IoIdle
  <2>2. serial[s] + 1 # 0
    BY SlotFacts, TypeParts
  <2>3. up'[s] = serial[s] + 1 /\ id' = [up' EXCEPT ![s] = 0]
    BY <2>1, TypeParts
  <2>4. io'.at = "set_id" /\ io'.s = s /\ io'.g = serial[s] + 1
    BY <2>1
  <2>5. Used(id') = Used(id)
    BY <2>1
  <2> QED
    BY <2>1, <2>2, <2>3, <2>4, <2>5 DEF TableInv
<1>3. ASSUME NEW s \in Slots, OnMsgReceive(s) PROVE TableInv'
  BY <1>3, TableQuiet DEF OnMsgReceive, netVars
<1>4. ASSUME NEW s \in Slots, OnDisconnect(s) PROVE TableInv'
  <2>1. /\ id = up /\ active = Cardinality(Used(id)) /\ up[s] # 0 /\ id' = id
        /\ up' = [up EXCEPT ![s] = 0] /\ active' = OneFewer
        /\ io' = [at |-> "clear_id", s |-> s, g |-> up[s]]
    BY <1>4 DEF OnDisconnect, TableInv, IoIdle
  <2>2. io'.at = "clear_id" /\ io'.s = s
    BY <2>1
  <2>3. Cardinality(Used([id EXCEPT ![s] = 0])) + 1 = active
    BY <2>1, TypeParts, UsedLess
  <2>4. Cardinality(Used([id EXCEPT ![s] = 0])) \in Nat
    <3>1. [id EXCEPT ![s] = 0] \in [Slots -> Serials]
      BY SlotFacts, TypeParts
    <3>2. Cardinality(Used([id EXCEPT ![s] = 0])) \in 0..NumSlots
      BY <3>1, UsedFacts
    <3> QED
      BY <3>2, SlotFacts
  <2>5. active' + 1 = active
    BY <2>1, <2>3, <2>4 DEF OneFewer
  <2>6. active' + 1 = Cardinality(Used(id'))
    BY <2>1, <2>5
  <2> QED
    BY <2>1, <2>2, <2>6 DEF TableInv
<1>5. CASE SetId
  <2>1. /\ io.s \in Slots /\ io.g \in Serials /\ io.g # 0 /\ up[io.s] = io.g
        /\ id = [up EXCEPT ![io.s] = 0] /\ active = Cardinality(Used(id))
        /\ id' = [id EXCEPT ![io.s] = io.g] /\ active' = active /\ up' = up
    BY <1>5, TypeParts, IoFacts DEF SetId, TableInv, netVars
  <2>2. io'.at = "set_time"
    BY <1>5, TypeParts DEF SetId, IoType
  <2>3. id' = up /\ id[io.s] = 0
    BY <2>1, TypeParts
  <2>4. Cardinality(Used(id')) = active + 1
    BY <2>1, <2>3, TypeParts, UsedMore
  <2> QED
    BY <2>1, <2>2, <2>3, <2>4 DEF TableInv
<1>6. CASE SetTime
  <2>1. /\ id' = id /\ up' = up /\ id = up /\ active + 1 = Cardinality(Used(id))
        /\ active' = active + 1 /\ io' = IoIdle
    BY <1>6 DEF SetTime, TableInv, netVars
  <2>2. active' = Cardinality(Used(id'))
    BY <2>1
  <2> QED
    BY <2>1, <2>2 DEF TableInv, IoIdle
<1>7. CASE ClearId
  <2>1. /\ io.s \in Slots /\ id[io.s] # 0 /\ up = [id EXCEPT ![io.s] = 0]
        /\ active + 1 = Cardinality(Used(id))
        /\ id' = [id EXCEPT ![io.s] = 0] /\ active' = active /\ up' = up
    BY <1>7, TypeParts, IoFacts DEF ClearId, TableInv, netVars
  <2>2. io'.at = "clear_count"
    BY <1>7, TypeParts DEF ClearId, IoType
  <2>3. Cardinality(Used(id')) + 1 = Cardinality(Used(id))
    BY <2>1, TypeParts, UsedLess
  <2>5. Cardinality(Used(id')) \in Nat
    <3>1. id' \in [Slots -> Serials]
      BY <2>1, SlotFacts, TypeParts
    <3> QED
      BY <3>1, SlotFacts, UsedFacts
  <2>4. active' = Cardinality(Used(id'))
    BY <2>1, <2>3, <2>5, TypeParts
  <2> QED
    BY <2>1, <2>2, <2>4 DEF TableInv
<1>8. CASE ClearCount
  <2>1. /\ id' = id /\ up' = up /\ id = up /\ active = Cardinality(Used(id)) /\ active' = active
    BY <1>8 DEF ClearCount, TableInv, netVars
  <2>2. io'.at = "clear_time"
    BY <1>8, TypeParts DEF ClearCount, IoType
  <2> QED
    BY <2>1, <2>2 DEF TableInv
<1>9. CASE ClearTime
  <2>1. /\ id' = id /\ up' = up /\ id = up /\ active = Cardinality(Used(id)) /\ active' = active
        /\ io' = IoIdle
    BY <1>9 DEF ClearTime, TableInv, netVars
  <2> QED
    BY <2>1 DEF TableInv, IoIdle
<1>10. CASE TakeMsg
  BY <1>10, TableQuiet DEF TakeMsg, netVars
<1>11. CASE CountMsg
  BY <1>11, TableQuiet DEF CountMsg, netVars
<1>12. CASE StartRound
  BY <1>12, TableQuiet DEF StartRound, netVars
<1>13. CASE IsUsed
  BY <1>13, TableQuiet DEF IsUsed, netVars
<1>14. CASE LoadTime
  BY <1>14, TableQuiet DEF LoadTime, netVars
<1>15. CASE StoreTime
  BY <1>15, TableQuiet DEF StoreTime, netVars
<1>16. CASE CompareTime
  BY <1>16, TableQuiet DEF CompareTime, netVars
<1>17. CASE ZeroTime
  BY <1>17, TableQuiet DEF ZeroTime, netVars
<1>18. CASE Decide
  BY <1>18, TableQuiet DEF Decide, netVars
<1>19. CASE Close
  BY <1>19, TableQuiet DEF Close, netVars
<1> QED
  BY <1>1, <1>2, <1>3, <1>4, <1>5, <1>6, <1>7, <1>8, <1>9, <1>10, <1>11, <1>12, <1>13,
     <1>14, <1>15, <1>16, <1>17, <1>18, <1>19 DEF Next, IoThread, MainThread

(* TableInv says that the count is exact, and so bounded.                     *)
LEMMA TableInvBounds ==
  ASSUME WanServerAssumption, Types, TableInv
  PROVE  ActiveExact /\ active \in 0..NumSlots
<1>1. Cardinality(Used(id)) \in 0..NumSlots
  BY TypeParts, UsedFacts
<1>2. active = Cardinality(Used(id)) \/ active + 1 = Cardinality(Used(id))
  BY TypeParts DEF TableInv, IoType
<1>3. active \in 0..NumSlots
  BY <1>1, <1>2, TypeParts, SlotFacts
<1> QED
  BY <1>3 DEF TableInv, ActiveExact, Used, IoIdle

-----------------------------------------------------------------------------
(* Connections are up, queued, found and counted under serials given out. *)
Behind ==
  /\ \A s \in Slots : up[s] <= serial[s]
  /\ \A c \in spoken : c.g <= serial[c.s]
  /\ \A k \in 1..Len(queue) : queue[k].g <= serial[queue[k].s]
  /\ main.at = "found" => main.g <= serial[main.s]

(* Nothing has been received of a connection that is not in the table yet. *)
NotYet ==
  io.at = "set_id" =>
    /\ [s |-> io.s, g |-> io.g] \notin spoken
    /\ \A k \in 1..Len(queue) : queue[k] # [s |-> io.s, g |-> io.g]
    /\ main.at = "found" => ~(main.s = io.s /\ main.g = io.g)

(* A message counted for the connection in a slot shows in the slot's count. *)
Shown ==
  /\ io.at = "clear_count" => id[io.s] = 0
  /\ \A s \in Slots : [s |-> s, g |-> id[s]] \in spoken => counted[s] = TRUE

(* What the steps of the two threads leave of io and main. *)
LEMMA IoMoves ==
  ASSUME Types
  PROVE  /\ io' = [io EXCEPT !.at = "set_time"] =>
              io'.at = "set_time" /\ io'.s = io.s /\ io'.g = io.g
         /\ io' = [io EXCEPT !.at = "clear_count"] =>
              io'.at = "clear_count" /\ io'.s = io.s /\ io'.g = io.g
         /\ io' = [io EXCEPT !.at = "clear_time"] =>
              io'.at = "clear_time" /\ io'.s = io.s /\ io'.g = io.g
BY TypeParts DEF IoType

(* The steps of the heartbeat check that only move the main thread on.        *)
LEMMA MainMoves ==
  ASSUME Types, StartRound \/ IsUsed \/ LoadTime \/ StoreTime \/ CompareTime \/ ZeroTime \/ Close
  PROVE  /\ main'.at \notin {"found", "close"}
         /\ UNCHANGED <<id, counted, up, serial, queue, io, spoken>>
<1>1. CASE StartRound
  BY <1>1 DEF StartRound, Resting, netVars, ghostVars
<1>2. CASE IsUsed
  <2>1. NextSlot \/ main'.at = "load"
    BY <1>2, TypeParts DEF IsUsed, MainType
  <2>2. NextSlot => main'.at \in {"idle", "is_used"}
    BY DEF NextSlot, Resting
  <2> QED
    BY <1>2, <2>1, <2>2 DEF IsUsed, netVars, ghostVars
<1>3. CASE LoadTime
  <2>1. main'.at = "store"
    BY <1>3, TypeParts DEF LoadTime, MainType
  <2> QED
    BY <1>3, <2>1 DEF LoadTime, netVars, ghostVars
<1>4. CASE StoreTime
  <2>1. main'.at = "compare"
    BY <1>4, TypeParts DEF StoreTime, MainType
  <2> QED
    BY <1>4, <2>1 DEF StoreTime, netVars, ghostVars
<1>5. CASE CompareTime
  <2>1. NextSlot \/ main'.at = "zero"
    BY <1>5, TypeParts DEF CompareTime, MainType
  <2>2. NextSlot => main'.at \in {"idle", "is_used"}
    BY DEF NextSlot, Resting
  <2> QED
    BY <1>5, <2>1, <2>2 DEF CompareTime, netVars, ghostVars
<1>6. CASE ZeroTime
  <2>1. main'.at = "decide"
    BY <1>6, TypeParts DEF ZeroTime, MainType
  <2> QED
    BY <1>6, <2>1 DEF ZeroTime, netVars, ghostVars
<1>7. CASE Close
  BY <1>7 DEF Close, NextSlot, Resting, netVars, ghostVars
<1> QED
  BY <1>1, <1>2, <1>3, <1>4, <1>5, <1>6, <1>7

(* Where the heartbeat check decides to close.                                *)
LEMMA DecideMoves ==
  ASSUME Types, Decide
  PROVE  /\ main'.at \in {"idle", "is_used", "close"}
         /\ main'.at = "close" => main'.s = main.s /\ ~counted[main.s]
         /\ UNCHANGED <<id, counted, up, serial, queue, io, spoken>>
<1>1. CASE NextSlot
  BY <1>1 DEF Decide, NextSlot, Resting, netVars
<1>2. CASE ~NextSlot
  <2>1. ~counted[main.s] /\ main' = [main EXCEPT !.at = "close"]
    BY <1>2 DEF Decide
  <2>2. main'.at = "close" /\ main'.s = main.s
    BY <2>1, TypeParts DEF MainType
  <2> QED
    BY <2>1, <2>2 DEF Decide, netVars
<1> QED
  BY <1>1, <1>2

(* The main thread takes the first message.                                   *)
LEMMA TakeMsgMoves ==
  ASSUME WanServerAssumption, Types, TakeMsg
  PROVE  /\ Len(queue) \in Nat /\ Len(queue) > 0 /\ Len(queue') = Len(queue) - 1
         /\ \A k \in 1..Len(queue') : k + 1 \in 1..Len(queue) /\ queue'[k] = queue[k + 1]
         /\ main'.at \in {"idle", "found"}
         /\ main'.at = "found" => main'.s = queue[1].s /\ main'.g = queue[1].g
         /\ queue[1] \in Conn
         /\ UNCHANGED <<id, counted, up, serial, io, spoken>>
<1>1. queue \in Seq(Conn) /\ queue # << >> /\ queue' = Tail(queue)
  BY TypeParts DEF TakeMsg
<1>2. /\ Len(queue) \in Nat /\ Len(queue) > 0 /\ Len(queue') = Len(queue) - 1
      /\ \A k \in 1..Len(queue') : k + 1 \in 1..Len(queue) /\ queue'[k] = queue[k + 1]
  BY <1>1
<1>3. Head(queue) = queue[1] /\ queue[1] \in Conn
  BY <1>1
<1>4. /\ main'.at \in {"idle", "found"}
      /\ main'.at = "found" => main'.s = queue[1].s /\ main'.g = queue[1].g
  BY <1>3 DEF TakeMsg, Resting
<1> QED
  BY <1>2, <1>3, <1>4 DEF TakeMsg, netVars, ghostVars

(* An io thread queues a message.                                             *)
LEMMA OnMsgReceiveMoves ==
  ASSUME WanServerAssumption, Types, NEW s \in Slots, OnMsgReceive(s)
  PROVE  /\ Len(queue) \in Nat /\ Len(queue') = Len(queue) + 1
         /\ \A k \in 1..Len(queue) : queue'[k] = queue[k]
         /\ queue'[Len(queue')] = [s |-> s, g |-> up[s]]
         /\ io.at = "idle"
         /\ UNCHANGED <<id, counted, up, serial, io, main, spoken>>
<1>1. queue \in Seq(Conn) /\ queue' = Append(queue, [s |-> s, g |-> up[s]])
  BY TypeParts DEF OnMsgReceive
<1> QED
  BY <1>1 DEF OnMsgReceive, netVars, ghostVars, IoIdle

(* The invariants of SpeakersKept hold at the start.                          *)
LEMMA InitSpoken ==
  ASSUME WanServerAssumption, Init
  PROVE  Behind /\ NotYet /\ Shown /\ SpeakersKept
BY SlotFacts DEF Init, Behind, NotYet, Shown, SpeakersKept, IoIdle, Resting

(* A step that leaves what Behind is about alone keeps it.                    *)
LEMMA BehindQuiet ==
  ASSUME Behind, UNCHANGED <<up, serial, queue, main, spoken>>
  PROVE  Behind'
BY DEF Behind

(* Every step keeps Behind.                                                   *)
LEMMA NextBehind ==
  ASSUME WanServerAssumption, Types, Behind, [Next]_vars
  PROVE  Behind'
<1>1. CASE UNCHANGED vars
  BY <1>1, BehindQuiet DEF vars, netVars, ghostVars
<1>2. ASSUME NEW s \in Slots, OnConnect(s) PROVE Behind'
  <2>1. /\ serial' = [serial EXCEPT ![s] = serial[s] + 1]
        /\ up' = [up EXCEPT ![s] = serial[s] + 1]
        /\ UNCHANGED <<queue, main, spoken>>
    BY <1>2, TypeParts DEF OnConnect, ghostVars
  <2>2. \A v \in Slots : serial[v] \in Nat /\ serial'[v] \in Nat /\ serial[v] <= serial'[v]
    BY <2>1, SlotFacts, TypeParts, SMTT(30)
  <2>3. \A v \in Slots : up'[v] <= serial'[v]
    BY <2>1, <2>2, SlotFacts, TypeParts DEF Behind
  <2>4. \A g \in Serials, v \in Slots : g <= serial[v] => g <= serial'[v]
    BY <2>2, SlotFacts
  <2>5. \A c \in spoken' : c.g <= serial'[c.s]
    BY <2>1, <2>4, ConnFacts DEF Behind, Types
  <2>6. \A k \in 1..Len(queue') : queue'[k].g <= serial'[queue'[k].s]
    BY <2>1, <2>4, ConnFacts, QueueFacts DEF Behind
  <2>7. main'.at = "found" => main'.g <= serial'[main'.s]
    BY <2>1, <2>4, TypeParts, MainFacts DEF Behind
  <2> QED
    BY <2>3, <2>5, <2>6, <2>7 DEF Behind
<1>3. ASSUME NEW s \in Slots, OnMsgReceive(s) PROVE Behind'
  <2>1. \A k \in 1..Len(queue') : queue'[k].g <= serial'[queue'[k].s]
    <3> SUFFICES ASSUME NEW k \in 1..Len(queue') PROVE queue'[k].g <= serial'[queue'[k].s]
      OBVIOUS
    <3>1. CASE k = Len(queue')
      <4>1. queue'[Len(queue')] = [s |-> s, g |-> up[s]] /\ serial' = serial
        BY <1>3, OnMsgReceiveMoves
      <4>2. queue'[k].g = up[s] /\ queue'[k].s = s
        BY <3>1, <4>1
      <4> QED
        BY <4>1, <4>2 DEF Behind
    <3>2. CASE k \in 1..Len(queue)
      BY <1>3, <3>2, OnMsgReceiveMoves DEF Behind
    <3>3. Len(queue) \in Nat /\ Len(queue') = Len(queue) + 1
      BY <1>3, OnMsgReceiveMoves
    <3> QED
      BY <3>1, <3>2, <3>3
  <2> QED
    BY <1>3, <2>1, OnMsgReceiveMoves DEF Behind
<1>4. ASSUME NEW s \in Slots, OnDisconnect(s) PROVE Behind'
  <2>1. up' = [up EXCEPT ![s] = 0] /\ UNCHANGED <<serial, queue, main, spoken>>
    BY <1>4 DEF OnDisconnect, ghostVars
  <2>2. \A v \in Slots : up'[v] <= serial'[v]
    BY <2>1, SlotFacts, TypeParts DEF Behind
  <2> QED
    BY <2>1, <2>2 DEF Behind
<1>5. CASE SetId
  BY <1>5, BehindQuiet DEF SetId, netVars, ghostVars
<1>6. CASE SetTime
  BY <1>6, BehindQuiet DEF SetTime, netVars, ghostVars
<1>7. CASE ClearId
  BY <1>7, BehindQuiet DEF ClearId, netVars, ghostVars
<1>8. CASE ClearCount
  BY <1>8, BehindQuiet DEF ClearCount, netVars, ghostVars
<1>9. CASE ClearTime
  BY <1>9, BehindQuiet DEF ClearTime, netVars, ghostVars
<1>10. CASE TakeMsg
  <2>1. \A k \in 1..Len(queue') : queue'[k].g <= serial'[queue'[k].s]
    BY <1>10, TakeMsgMoves DEF Behind
  <2>2. main'.at = "found" => main'.g <= serial'[main'.s]
    BY <1>10, TakeMsgMoves DEF Behind
  <2> QED
    BY <1>10, <2>1, <2>2, TakeMsgMoves DEF Behind
<1>11. CASE CountMsg
  <2>1. /\ main.at = "found" /\ spoken' = spoken \cup {[s |-> main.s, g |-> main.g]}
        /\ main'.at = "idle" /\ UNCHANGED <<up, serial, queue>>
    BY <1>11 DEF CountMsg, Resting, netVars
  <2> QED
    BY <2>1 DEF Behind
<1>12. CASE StartRound
  BY <1>12, MainMoves DEF Behind
<1>13. CASE IsUsed
  BY <1>13, MainMoves DEF Behind
<1>14. CASE LoadTime
  BY <1>14, MainMoves DEF Behind
<1>15. CASE StoreTime
  BY <1>15, MainMoves DEF Behind
<1>16. CASE CompareTime
  BY <1>16, MainMoves DEF Behind
<1>17. CASE ZeroTime
  BY <1>17, MainMoves DEF Behind
<1>18. CASE Decide
  BY <1>18, DecideMoves DEF Behind
<1>19. CASE Close
  BY <1>19, MainMoves DEF Behind
<1> QED
  BY <1>1, <1>2, <1>3, <1>4, <1>5, <1>6, <1>7, <1>8, <1>9, <1>10, <1>11, <1>12, <1>13,
     <1>14, <1>15, <1>16, <1>17, <1>18, <1>19 DEF Next, IoThread, MainThread

(* A step that leaves what NotYet is about alone keeps it.                    *)
LEMMA NotYetQuiet ==
  ASSUME NotYet, UNCHANGED <<queue, io, main, spoken>>
  PROVE  NotYet'
BY DEF NotYet

(* Every step keeps NotYet.                                                   *)
LEMMA NextNotYet ==
  ASSUME WanServerAssumption, Types, Behind, NotYet, [Next]_vars
  PROVE  NotYet'
<1>1. CASE UNCHANGED vars
  BY <1>1, NotYetQuiet DEF vars, netVars, ghostVars
<1>2. ASSUME NEW s \in Slots, OnConnect(s) PROVE NotYet'
  <2>1. /\ io'.at = "set_id" => io'.s = s /\ io'.g = serial[s] + 1
        /\ UNCHANGED <<queue, main, spoken>>
    BY <1>2 DEF OnConnect, IoIdle, ghostVars
  <2>2. \A g \in Serials : g <= serial[s] => g # serial[s] + 1
    BY SlotFacts, TypeParts
  <2>3. [s |-> s, g |-> serial[s] + 1] \notin spoken
    BY <2>2, ConnFacts DEF Behind, Types
  <2>4. \A k \in 1..Len(queue) : queue[k] # [s |-> s, g |-> serial[s] + 1]
    BY <2>2, ConnFacts, QueueFacts DEF Behind
  <2>5. main.at = "found" => ~(main.s = s /\ main.g = serial[s] + 1)
    BY <2>2, TypeParts, MainFacts DEF Behind
  <2> QED
    BY <2>1, <2>3, <2>4, <2>5 DEF NotYet
<1>3. ASSUME NEW s \in Slots, OnMsgReceive(s) PROVE NotYet'
  BY <1>3, OnMsgReceiveMoves DEF NotYet
<1>4. ASSUME NEW s \in Slots, OnDisconnect(s) PROVE NotYet'
  <2>1. io.at = "idle" /\ io'.at \in {"idle", "clear_id"}
    BY <1>4 DEF OnDisconnect, IoIdle
  <2> QED
    BY <2>1 DEF NotYet
<1>5. CASE SetId
  BY <1>5, IoMoves DEF SetId, NotYet
<1>6. CASE SetTime
  BY <1>6 DEF SetTime, IoIdle, NotYet
<1>7. CASE ClearId
  BY <1>7, IoMoves DEF ClearId, NotYet
<1>8. CASE ClearCount
  BY <1>8, IoMoves DEF ClearCount, NotYet
<1>9. CASE ClearTime
  BY <1>9 DEF ClearTime, IoIdle, NotYet
<1>10. CASE TakeMsg
  <2>1. 1 \in 1..Len(queue) /\ queue[1] = [s |-> queue[1].s, g |-> queue[1].g]
    BY <1>10, TakeMsgMoves DEF Conn
  <2> QED
    BY <1>10, <2>1, TakeMsgMoves DEF NotYet
<1>11. CASE CountMsg
  <2>1. /\ main.at = "found" /\ spoken' = spoken \cup {[s |-> main.s, g |-> main.g]}
        /\ main'.at = "idle" /\ UNCHANGED <<queue, io>>
    BY <1>11 DEF CountMsg, Resting
  <2> QED
    BY <2>1 DEF NotYet
<1>12. CASE StartRound
  BY <1>12, MainMoves DEF NotYet
<1>13. CASE IsUsed
  BY <1>13, MainMoves DEF NotYet
<1>14. CASE LoadTime
  BY <1>14, MainMoves DEF NotYet
<1>15. CASE StoreTime
  BY <1>15, MainMoves DEF NotYet
<1>16. CASE CompareTime
  BY <1>16, MainMoves DEF NotYet
<1>17. CASE ZeroTime
  BY <1>17, MainMoves DEF NotYet
<1>18. CASE Decide
  BY <1>18, DecideMoves DEF NotYet
<1>19. CASE Close
  BY <1>19, MainMoves DEF NotYet
<1> QED
  BY <1>1, <1>2, <1>3, <1>4, <1>5, <1>6, <1>7, <1>8, <1>9, <1>10, <1>11, <1>12, <1>13,
     <1>14, <1>15, <1>16, <1>17, <1>18, <1>19 DEF Next, IoThread, MainThread

(* A step that leaves what Shown is about alone keeps it.                     *)
LEMMA ShownQuiet ==
  ASSUME Shown, UNCHANGED <<id, counted, io, spoken>>
  PROVE  Shown'
BY DEF Shown

(* Every step keeps Shown.                                                    *)
LEMMA NextShown ==
  ASSUME WanServerAssumption, Types, NotYet, Shown, [Next]_vars
  PROVE  Shown'
<1>1. CASE UNCHANGED vars
  BY <1>1, ShownQuiet DEF vars, netVars, ghostVars
<1>2. ASSUME NEW s \in Slots, OnConnect(s) PROVE Shown'
  <2>1. io'.at \in {"set_id", "idle"} /\ UNCHANGED <<id, counted, spoken>>
    BY <1>2 DEF OnConnect, IoIdle, ghostVars
  <2> QED
    BY <2>1 DEF Shown
<1>3. ASSUME NEW s \in Slots, OnMsgReceive(s) PROVE Shown'
  BY <1>3, OnMsgReceiveMoves DEF Shown
<1>4. ASSUME NEW s \in Slots, OnDisconnect(s) PROVE Shown'
  <2>1. io'.at \in {"clear_id", "idle"} /\ UNCHANGED <<id, counted, spoken>>
    BY <1>4 DEF OnDisconnect, IoIdle, ghostVars
  <2> QED
    BY <2>1 DEF Shown
<1>5. CASE SetId
  <2>1. /\ io.at = "set_id" /\ id' = [id EXCEPT ![io.s] = io.g] /\ io'.at = "set_time"
        /\ UNCHANGED <<counted, spoken>>
    BY <1>5, IoMoves DEF SetId, ghostVars
  <2>2. [s |-> io.s, g |-> io.g] \notin spoken
    BY <2>1 DEF NotYet
  <2> QED
    BY <2>1, <2>2, TypeParts DEF Shown
<1>6. CASE SetTime
  BY <1>6 DEF SetTime, IoIdle, ghostVars, Shown
<1>7. CASE ClearId
  <2>1. /\ id' = [id EXCEPT ![io.s] = 0] /\ io'.at = "clear_count" /\ io'.s = io.s
        /\ io.s \in Slots /\ UNCHANGED <<counted, spoken>>
    BY <1>7, IoMoves, IoFacts, TypeParts DEF ClearId, ghostVars
  <2>2. [s |-> io.s, g |-> 0] \notin spoken
    BY ConnFacts DEF Types
  <2> QED
    BY <2>1, <2>2, TypeParts DEF Shown
<1>8. CASE ClearCount
  <2>1. /\ io.at = "clear_count" /\ io'.at = "clear_time" /\ io.s \in Slots
        /\ counted' = [counted EXCEPT ![io.s] = FALSE] /\ UNCHANGED <<id, spoken>>
    BY <1>8, IoMoves, IoFacts, TypeParts DEF ClearCount, ghostVars
  <2>2. [s |-> io.s, g |-> id[io.s]] \notin spoken
    BY <2>1, ConnFacts DEF Shown, Types
  <2> QED
    BY <2>1, <2>2 DEF Shown, Types
<1>9. CASE ClearTime
  BY <1>9 DEF ClearTime, IoIdle, ghostVars, Shown
<1>10. CASE TakeMsg
  BY <1>10, TakeMsgMoves DEF Shown
<1>11. CASE CountMsg
  <2>1. /\ spoken' = spoken \cup {[s |-> main.s, g |-> main.g]} /\ main.s \in Slots
        /\ counted' = [counted EXCEPT ![main.s] = TRUE] /\ UNCHANGED <<id, io>>
    BY <1>11, MainFacts, TypeParts DEF CountMsg
  <2>2. counted'[main.s] = TRUE
    BY <2>1 DEF Types
  <2>3. ASSUME NEW v \in Slots, [s |-> v, g |-> id[v]] \in spoken' PROVE counted'[v] = TRUE
    <3>1. CASE v = main.s
      BY <2>2, <3>1
    <3>2. CASE v # main.s
      BY <2>1, <2>3, <3>2 DEF Shown, Types
    <3> QED
      BY <3>1, <3>2
  <2> QED
    BY <2>1, <2>3 DEF Shown
<1>12. CASE StartRound
  BY <1>12, MainMoves DEF Shown
<1>13. CASE IsUsed
  BY <1>13, MainMoves DEF Shown
<1>14. CASE LoadTime
  BY <1>14, MainMoves DEF Shown
<1>15. CASE StoreTime
  BY <1>15, MainMoves DEF Shown
<1>16. CASE CompareTime
  BY <1>16, MainMoves DEF Shown
<1>17. CASE ZeroTime
  BY <1>17, MainMoves DEF Shown
<1>18. CASE Decide
  BY <1>18, DecideMoves DEF Shown
<1>19. CASE Close
  BY <1>19, MainMoves DEF Shown
<1> QED
  BY <1>1, <1>2, <1>3, <1>4, <1>5, <1>6, <1>7, <1>8, <1>9, <1>10, <1>11, <1>12, <1>13,
     <1>14, <1>15, <1>16, <1>17, <1>18, <1>19 DEF Next, IoThread, MainThread

(* A step that leaves what SpeakersKept is about alone keeps it.              *)
LEMMA SpeakersKeptQuiet ==
  ASSUME SpeakersKept, UNCHANGED <<id, main, spoken>>
  PROVE  SpeakersKept'
BY DEF SpeakersKept

(* Every step keeps SpeakersKept.                                             *)
LEMMA NextSpeakersKept ==
  ASSUME WanServerAssumption, Types, NotYet, Shown, SpeakersKept, [Next]_vars
  PROVE  SpeakersKept'
<1>1. CASE UNCHANGED vars
  BY <1>1, SpeakersKeptQuiet DEF vars, netVars, ghostVars
<1>2. ASSUME NEW s \in Slots, OnConnect(s) PROVE SpeakersKept'
  BY <1>2, SpeakersKeptQuiet DEF OnConnect, netVars, ghostVars
<1>3. ASSUME NEW s \in Slots, OnMsgReceive(s) PROVE SpeakersKept'
  BY <1>3, SpeakersKeptQuiet DEF OnMsgReceive, netVars, ghostVars
<1>4. ASSUME NEW s \in Slots, OnDisconnect(s) PROVE SpeakersKept'
  BY <1>4, SpeakersKeptQuiet DEF OnDisconnect, netVars, ghostVars
<1>5. CASE SetId
  <2>1. /\ io.at = "set_id" /\ id' = [id EXCEPT ![io.s] = io.g] /\ UNCHANGED <<main, spoken>>
    BY <1>5 DEF SetId, ghostVars
  <2>2. [s |-> io.s, g |-> io.g] \notin spoken /\ main.s \in Slots
    BY <2>1, TypeParts, MainFacts DEF NotYet
  <2> QED
    BY <2>1, <2>2, TypeParts DEF SpeakersKept
<1>6. CASE SetTime
  BY <1>6, SpeakersKeptQuiet DEF SetTime, netVars, ghostVars
<1>7. CASE ClearId
  <2>1. id' = [id EXCEPT ![io.s] = 0] /\ UNCHANGED <<main, spoken>>
    BY <1>7 DEF ClearId, ghostVars
  <2>2. [s |-> io.s, g |-> 0] \notin spoken /\ main.s \in Slots
    BY ConnFacts, TypeParts, MainFacts DEF Types
  <2> QED
    BY <2>1, <2>2, TypeParts DEF SpeakersKept
<1>8. CASE ClearCount
  BY <1>8, SpeakersKeptQuiet DEF ClearCount, netVars, ghostVars
<1>9. CASE ClearTime
  BY <1>9, SpeakersKeptQuiet DEF ClearTime, netVars, ghostVars
<1>10. CASE TakeMsg
  BY <1>10, TakeMsgMoves DEF SpeakersKept
<1>11. CASE CountMsg
  <2>1. main'.at = "idle"
    BY <1>11 DEF CountMsg, Resting
  <2> QED
    BY <2>1 DEF SpeakersKept
<1>12. CASE StartRound
  BY <1>12, MainMoves DEF SpeakersKept
<1>13. CASE IsUsed
  BY <1>13, MainMoves DEF SpeakersKept
<1>14. CASE LoadTime
  BY <1>14, MainMoves DEF SpeakersKept
<1>15. CASE StoreTime
  BY <1>15, MainMoves DEF SpeakersKept
<1>16. CASE CompareTime
  BY <1>16, MainMoves DEF SpeakersKept
<1>17. CASE ZeroTime
  BY <1>17, MainMoves DEF SpeakersKept
<1>18. CASE Decide
  <2>1. main'.at = "close" => counted[main.s] # TRUE /\ main'.s = main.s
    BY <1>18, DecideMoves
  <2>2. main.s \in Slots
    BY TypeParts, MainFacts
  <2> QED
    BY <1>18, <2>1, <2>2, DecideMoves DEF SpeakersKept, Shown
<1>19. CASE Close
  BY <1>19, MainMoves DEF SpeakersKept
<1> QED
  BY <1>1, <1>2, <1>3, <1>4, <1>5, <1>6, <1>7, <1>8, <1>9, <1>10, <1>11, <1>12, <1>13,
     <1>14, <1>15, <1>16, <1>17, <1>18, <1>19 DEF Next, IoThread, MainThread

-----------------------------------------------------------------------------
(* The type of every variable: m_time_out does not run past the limit, and   *)
(* no more sessions are active than there are slots.                         *)
THEOREM TypeCorrect ==
  ASSUME WanServerAssumption
  PROVE  Spec => []TypeOK
<1>1. Init => Types /\ TimeInv /\ TableInv
  BY InitTypes, InitTimeInv, InitTableInv
<1>2. Types /\ TimeInv /\ TableInv /\ [Next]_vars => (Types /\ TimeInv /\ TableInv)'
  BY NextTypes, NextTimeInv, NextTableInv
<1>3. Types /\ TimeInv /\ TableInv => TypeOK
  <2> SUFFICES ASSUME Types, TimeInv, TableInv PROVE TypeOK
    OBVIOUS
  <2>1. timeOut \in [Slots -> 0..HeartBeat]
    BY TypeParts, SlotFacts DEF TimeInv
  <2>2. active \in 0..NumSlots
    BY TableInvBounds
  <2>3. main.t \in 0..HeartBeat
    <3>1. main.t \in Nat /\ main.t <= HeartBeat
      BY TypeParts, MainFacts DEF TimeInv
    <3> QED
      BY <3>1, SlotFacts
  <2>4. main \in [at : {"idle", "found", "is_used", "load", "store", "compare", "zero",
                        "decide", "close"},
                  s : Slots, g : Serials, t : 0..HeartBeat]
    BY <2>3, TypeParts DEF MainType
  <2> QED
    BY <2>1, <2>2, <2>4 DEF Types, TypeOK, IoType
<1> QED
  BY <1>1, <1>2, <1>3, PTL DEF Spec

(* Between two callbacks m_active_session_num is the number of slots in use, *)
(* and these hold the connections of the library.                           *)
THEOREM ActiveIsExact ==
  ASSUME WanServerAssumption
  PROVE  Spec => []ActiveExact
<1>1. Init => Types /\ TableInv
  BY InitTypes, InitTableInv
<1>2. Types /\ TableInv /\ [Next]_vars => (Types /\ TableInv)'
  BY NextTypes, NextTableInv
<1>3. Types /\ TableInv => ActiveExact
  BY TableInvBounds
<1> QED
  BY <1>1, <1>2, <1>3, PTL DEF Spec

(* The heartbeat check closes no connection of which a message was counted,  *)
(* however the callbacks of the io thread come between its steps.           *)
THEOREM SpeakersAreKept ==
  ASSUME WanServerAssumption
  PROVE  Spec => []SpeakersKept
<1> DEFINE Inv == Types /\ Behind /\ NotYet /\ Shown /\ SpeakersKept
<1>1. Init => Inv
  BY InitTypes, InitSpoken
<1>2. Inv /\ [Next]_vars => Inv'
  BY NextTypes, NextBehind, NextNotYet, NextShown, NextSpeakersKept
<1>3. Inv => SpeakersKept
  OBVIOUS
<1> QED
  BY <1>1, <1>2, <1>3, PTL DEF Spec
=============================================================================
