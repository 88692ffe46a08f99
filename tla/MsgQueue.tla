------------------------------- MODULE MsgQueue -------------------------------
(***************************************************************************)
(* The way of a message from the io threads to the main thread: a block of *)
(* wnet_mem_pool becomes a wnet_msg, is linked to m_msg_queue_ptr, taken   *)
(* off with the whole chain behind it, handled and freed                   *)
(* (src/wlib/wnet_msg_queue.cpp, wnet_msg.cpp, and _process_msg of         *)
(* src/wserver/wwan_server.cpp).                                           *)
(*                                                                         *)
(* Several io threads, one main thread; blocks are used again. A critical  *)
(* section of m_mutex is one step, each pointer the main thread follows    *)
(* outside of it another.                                                  *)
(***************************************************************************)
EXTENDS Naturals, Sequences, SequencesExt

CONSTANTS
  Blocks,    (* blocks of memory a message can have             *)
  Producers, (* io threads                                      *)
  Null,
  MaxMsgs    (* bound: messages received                        *)

MsgQueueAssumption ==
  /\ Null \notin Blocks
  /\ MaxMsgs \in Nat

VARIABLES
  next,      (* m_next_ptr of each block                         *)
  text,      (* the message in each block: its number            *)
  free,      (* blocks that belong to the pool                   *)
  head,      (* m_head_ptr                                       *)
  tail,      (* m_tail_ptr                                       *)
  mine,      (* the message an io thread has allocated, or Null  *)
  cursor,    (* msg_ptr of _process_msg                          *)
  spent,     (* p of _process_msg: handled, to be freed          *)
  received,  (* messages allocated so far                        *)
  enqueued,  (* numbers of the messages enqueued, in order       *)
  handled    (* numbers of the messages handled, in order        *)

queueVars == <<head, tail>>
mainVars  == <<cursor, spent>>
vars == <<next, text, free, queueVars, mine, mainVars, received, enqueued, handled>>

Init ==
  /\ next = [b \in Blocks |-> Null] /\ text = [b \in Blocks |-> 0]
  /\ free = Blocks
  /\ head = Null /\ tail = Null
  /\ mine = [p \in Producers |-> Null]
  /\ cursor = Null /\ spent = Null
  /\ received = 0 /\ enqueued = <<>> /\ handled = <<>>

-----------------------------------------------------------------------------
(* Mutant: the constructor leaves m_next_ptr as the last owner left it. *)
OldNext(b) == next[b]

FreshNext(b) == Null

(* wnet_msg::alloc_me, when parse_msg has a header. *)
AllocMe(p) ==
  /\ mine[p] = Null
  /\ received < MaxMsgs
  /\ received' = received + 1
  /\ \E b \in free :
       /\ free' = free \ {b}
       /\ next' = [next EXCEPT ![b] = FreshNext(b)]
       /\ text' = [text EXCEPT ![b] = received + 1]
       /\ mine' = [mine EXCEPT ![p] = b]
  /\ UNCHANGED <<queueVars, mainVars, enqueued, handled>>

(* enqueue, from on_msg_receive. *)
Enqueue(p) ==
  LET m == mine[p] IN
  /\ m # Null
  /\ \/ /\ tail # Null
        /\ next' = [next EXCEPT ![tail] = m]
        /\ tail' = m
        /\ UNCHANGED head
     \/ /\ tail = Null
        /\ head' = m /\ tail' = m
        /\ UNCHANGED next
  /\ mine' = [mine EXCEPT ![p] = Null]
  /\ enqueued' = Append(enqueued, text[m])
  /\ UNCHANGED <<text, free, mainVars, received, handled>>

-----------------------------------------------------------------------------
(* The main thread. The first look at m_head_ptr is not locked and may see  *)
(* the null this thread stored last, though a message has come since.       *)
DequeueNothing ==
  /\ cursor = Null /\ spent = Null
  /\ UNCHANGED vars

(* Mutant: m_tail_ptr keeps pointing into the chain that was taken. *)
DequeueKeepingTail ==
  /\ cursor = Null /\ spent = Null
  /\ head # Null
  /\ cursor' = head
  /\ head' = Null
  /\ UNCHANGED <<tail, next, text, free, mine, spent, received, enqueued, handled>>

Dequeue ==
  /\ cursor = Null /\ spent = Null
  /\ head # Null
  /\ cursor' = head
  /\ head' = Null /\ tail' = Null
  /\ UNCHANGED <<next, text, free, mine, spent, received, enqueued, handled>>

(* One turn of the loop: handle the message, ... *)
Handle ==
  /\ cursor # Null /\ spent = Null
  /\ handled' = Append(handled, text[cursor])
  /\ spent'   = cursor
  /\ UNCHANGED <<next, text, free, queueVars, mine, cursor, received, enqueued>>

(* ... step to the next one, ... *)
Step ==
  /\ spent # Null /\ cursor = spent
  /\ cursor' = next[cursor]
  /\ UNCHANGED <<next, text, free, queueVars, mine, spent, received, enqueued, handled>>

(* ... and free it. *)
FreeMe ==
  /\ spent # Null /\ cursor # spent
  /\ free'  = free \cup {spent}
  /\ spent' = Null
  /\ UNCHANGED <<next, text, queueVars, mine, cursor, received, enqueued, handled>>

-----------------------------------------------------------------------------
Main == Dequeue \/ Handle \/ Step \/ FreeMe

Next ==
  \/ \E p \in Producers : AllocMe(p) \/ Enqueue(p)
  \/ DequeueNothing \/ Main

Spec == Init /\ [][Next]_vars

-----------------------------------------------------------------------------
Pointers == Blocks \cup {Null}

(* The type of every variable. *)
TypeOK ==
  /\ next \in [Blocks -> Pointers]
  /\ text \in [Blocks -> 0..MaxMsgs]
  /\ free \subseteq Blocks
  /\ {head, tail, cursor, spent} \subseteq Pointers
  /\ head = Null <=> tail = Null
  /\ mine \in [Producers -> Pointers]
  /\ received \in 0..MaxMsgs
  /\ enqueued \in Seq(1..MaxMsgs) /\ handled \in Seq(1..MaxMsgs)

(* Every message is handled once, in the order of the enqueue calls; and    *)
(* with the queue and the chain empty none is left behind.                  *)
HandledInOrder ==
  /\ IsPrefix(handled, enqueued)
  /\ head = Null /\ cursor = Null => handled = enqueued

(* A message that was received is handled. *)
EveryMessageHandled ==
  \A m \in 1..MaxMsgs :
    received >= m ~> \E i \in DOMAIN handled : handled[i] = m
=============================================================================
