------------------------------ MODULE CycleQueue ------------------------------
(***************************************************************************)
(* wcycle_queue, the ring in which wnet_session_mgr keeps its available    *)
(* sessions. safe_push and safe_pop of wsafe_cycle_queue are push and pop  *)
(* in one critical section (src/wlib/wcycle_queue.h, wsafe_cycle_queue.h). *)
(***************************************************************************)
EXTENDS Naturals, Sequences

CONSTANTS
  MaxNum,      (* bound: uMaxNum of init                        *)
  Values,      (* what is queued                                *)
  Garbage,     (* what new T[] holds before it is written       *)
  DestroyInUse (* whether a queue is destroyed that holds items *)

CycleQueueAssumption == MaxNum \in Nat \ {0} /\ DestroyInUse \in BOOLEAN

VARIABLES
  datas,   (* m_datas; an array without places when it is null *)
  maxSize, (* m_maxSize                                        *)
  size,    (* m_size                                           *)
  head,    (* m_head                                           *)
  tail,    (* m_tail                                           *)
  call     (* the last call and what it returned               *)

vars == <<datas, maxSize, size, head, tail, call>>

Array(n) == [i \in 0..(n - 1) |-> Garbage]

Called(op, given, n, ok, got) ==
  call' = [op |-> op, given |-> given, n |-> n, ok |-> ok, got |-> got]

(* The constructor. *)
Init ==
  /\ datas = Array(0) /\ maxSize = 0
  /\ size = 0 /\ head = 0 /\ tail = 0
  /\ call = [op |-> "clear", given |-> <<>>, n |-> 0, ok |-> TRUE, got |-> <<>>]

-----------------------------------------------------------------------------
(* init(), of a queue that is new or was destroyed. *)
InitQueue(n) ==
  /\ maxSize = 0
  /\ datas' = Array(n) /\ maxSize' = n
  /\ Called("resize", <<>>, n, TRUE, <<>>)
  /\ UNCHANGED <<size, head, tail>>

(* m_size stays as it is. *)
Destroy ==
  /\ DestroyInUse \/ size = 0
  /\ datas' = Array(0) /\ maxSize' = 0
  /\ head' = 0 /\ tail' = 0
  /\ Called("resize", <<>>, 0, TRUE, <<>>)
  /\ UNCHANGED size

Full     == size = maxSize
After(i) == (i + 1) % maxSize

Push(x) ==
  /\ IF Full
     THEN UNCHANGED <<datas, size, tail>>
     ELSE /\ datas' = [datas EXCEPT ![tail] = x]
          /\ tail'  = After(tail)
          /\ size'  = size + 1
  /\ Called("put", <<x>>, 0, ~Full, <<>>)
  /\ UNCHANGED <<maxSize, head>>

Pop ==
  /\ IF size = 0
     THEN UNCHANGED <<size, head>>
     ELSE /\ head' = After(head)
          /\ size' = size - 1
  /\ Called("get", <<>>, 1, size # 0, IF size = 0 THEN <<>> ELSE <<datas[head]>>)
  /\ UNCHANGED <<datas, maxSize, tail>>

Clear ==
  /\ size' = 0 /\ head' = 0 /\ tail' = 0
  /\ Called("clear", <<>>, 0, TRUE, <<>>)
  /\ UNCHANGED <<datas, maxSize>>

(* With items and without an array, push and pop go through a null pointer. *)
Usable == maxSize > 0 \/ size = 0

Next ==
  \/ (\E n \in 1..MaxNum : InitQueue(n)) \/ Destroy \/ Clear
  \/ Usable /\ ((\E x \in Values : Push(x)) \/ Pop)

Spec == Init /\ [][Next]_vars

-----------------------------------------------------------------------------
(* The type of every variable; the counters agree, with the ring empty or   *)
(* full when head and tail meet, and nothing is left in one that was        *)
(* destroyed.                                                               *)
TypeOK ==
  /\ maxSize \in 0..MaxNum
  /\ datas \in [0..(maxSize - 1) -> Values \cup {Garbage}]
  /\ size \in 0..maxSize
  /\ IF maxSize = 0 THEN head = 0 /\ tail = 0
                    ELSE head < maxSize /\ tail = (head + size) % maxSize

(* The ring is the fifo of what was pushed, wherever the head stands, also   *)
(* after it was made anew with another size.                                *)
Fifo == INSTANCE BoundedFifo
          WITH capacity <- maxSize,
               items <- [i \in 1..size |-> datas[(head + i - 1) % maxSize]]
ImplementsFifo == Fifo!Spec
=============================================================================
