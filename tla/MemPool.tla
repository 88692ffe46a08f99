-------------------------------- MODULE MemPool --------------------------------
(***************************************************************************)
(* wnet_mem_pool: freed blocks are kept in a doubly linked list per size   *)
(* class, up to a total; beyond it a garbage collection throws out blocks  *)
(* used less often than the one that comes back                            *)
(* (src/wlib/wnet_mem_pool.cpp).                                           *)
(*                                                                         *)
(* A critical section of m_lock is one step, but garbage_collect is one    *)
(* step per turn of its loop, with m_lock held. The unit of size is the    *)
(* smallest class, 32 bytes; each class is twice the one before.           *)
(***************************************************************************)
EXTENDS Integers, FiniteSets, FiniteSetsExt

CONSTANTS
  Blocks,   (* addresses malloc returns                            *)
  Threads,
  Classes,  (* number of the size classes, 16                      *)
  MaxSize,  (* m_max_size                                          *)
  Null,
  MaxUse    (* bound: use_count                                    *)

Large == -1   (* index of a block bigger than every class *)

Index    == 0..(Classes - 1)
Size(i)  == 2 ^ i

MemPoolAssumption ==
  /\ IsFiniteSet(Blocks)
  /\ Classes \in Nat \ {0} /\ \A i \in Index : Size(i) \in Nat
  /\ MaxSize \in Nat
  /\ MaxUse \in Nat
  /\ Null \notin Blocks \cup Threads

VARIABLES
  first, last, (* m_pool[i].first_ptr, m_pool[i].last_ptr            *)
  next, prev,  (* next_ptr and pre_ptr of each block                  *)
  index,       (* its size class                                      *)
  use,         (* use_count                                           *)
  place,       (* "system" (not malloc'ed), "used" (the caller's), "pool" *)
  current,     (* m_current_size                                      *)
  lock,        (* the thread that holds m_lock in garbage_collect     *)
  gc,          (* and what it is doing there                          *)
  asks         (* thread: the class it is allocating, and how far it is *)

listVars == <<first, last, next, prev>>
vars == <<listVars, index, use, place, current, lock, gc, asks>>

Pointers == Blocks \cup {Null}
NoAsk    == [class |-> Large, at |-> "idle"]
NoGc     == [block |-> Null, class |-> 0, node |-> Null, freed |-> 0]

Init ==
  /\ first = [i \in Index |-> Null] /\ last = [i \in Index |-> Null]
  /\ next = [b \in Blocks |-> Null] /\ prev = [b \in Blocks |-> Null]
  /\ index = [b \in Blocks |-> Large]
  /\ use = [b \in Blocks |-> 0]
  /\ place = [b \in Blocks |-> "system"]
  /\ current = 0
  /\ lock = Null /\ gc = NoGc
  /\ asks = [t \in Threads |-> NoAsk]

-----------------------------------------------------------------------------
(* alloc. The first look at the list is not locked. *)

AllocLook(t, i) ==
  /\ asks[t] = NoAsk /\ lock # t
  /\ asks' = [asks EXCEPT ![t] =
       [class |-> i, at |-> IF i # Large /\ first[i] # Null THEN "pool" ELSE "malloc"]]
  /\ UNCHANGED <<listVars, index, use, place, current, lock, gc>>

WithoutPrev(new) == IF new = Null THEN prev ELSE [prev EXCEPT ![new] = Null]
Uncounted(i)     == current - Size(i)

AllocPooled(t) ==
  LET i == asks[t].class
      b == first[i]
      new == next[b]
  IN
  /\ asks[t].at = "pool" /\ lock = Null
  /\ b # Null
  /\ use[b] < MaxUse
  /\ first' = [first EXCEPT ![i] = new]
  /\ prev'  = WithoutPrev(new)
  /\ last'  = IF new = Null THEN [last EXCEPT ![i] = Null] ELSE last
  /\ current' = Uncounted(i)
  /\ use'   = [use EXCEPT ![b] = @ + 1]
  /\ place' = [place EXCEPT ![b] = "used"]
  /\ asks'  = [asks EXCEPT ![t] = NoAsk]
  /\ UNCHANGED <<next, index, lock, gc>>

(* Somebody else took the last one in the meantime. *)
AllocTooLate(t) ==
  /\ asks[t].at = "pool" /\ lock = Null
  /\ first[asks[t].class] = Null
  /\ asks' = [asks EXCEPT ![t].at = "malloc"]
  /\ UNCHANGED <<listVars, index, use, place, current, lock, gc>>

AllocNew(t) ==
  /\ asks[t].at = "malloc"
  /\ \E b \in Blocks :
       /\ place[b] = "system"
       /\ place' = [place EXCEPT ![b] = "used"]
       /\ index' = [index EXCEPT ![b] = asks[t].class]
       /\ next'  = [next EXCEPT ![b] = Null]
       /\ prev'  = [prev EXCEPT ![b] = Null]
       /\ use'   = [use EXCEPT ![b] = 0]
  /\ asks' = [asks EXCEPT ![t] = NoAsk]
  /\ UNCHANGED <<first, last, current, lock, gc>>

AllocNull(t) ==
  /\ asks[t].at = "malloc"
  /\ asks' = [asks EXCEPT ![t] = NoAsk]
  /\ UNCHANGED <<listVars, index, use, place, current, lock, gc>>

-----------------------------------------------------------------------------
(* free. *)

Fits(b) == Size(index[b]) + current <= MaxSize

(* To the front of its list, or back to the system. *)
Keep(b) ==
  LET i == index[b]
      old == first[i]
  IN
  IF Fits(b)
  THEN /\ next'  = [next EXCEPT ![b] = old]
       /\ prev'  = IF old = Null THEN [prev EXCEPT ![b] = Null]
                   ELSE [prev EXCEPT ![b] = Null, ![old] = b]
       /\ last'  = IF old = Null THEN [last EXCEPT ![i] = b] ELSE last
       /\ first' = [first EXCEPT ![i] = b]
       /\ current' = current + Size(i)
       /\ place' = [place EXCEPT ![b] = "pool"]
  ELSE /\ place' = [place EXCEPT ![b] = "system"]
       /\ UNCHANGED <<listVars, current>>

FreeLarge(t, b) ==
  /\ asks[t] = NoAsk /\ lock # t
  /\ place[b] = "used"
  /\ index[b] = Large
  /\ place' = [place EXCEPT ![b] = "system"]
  /\ UNCHANGED <<listVars, index, use, current, lock, gc, asks>>

Free(t, b) ==
  /\ asks[t] = NoAsk /\ lock = Null
  /\ place[b] = "used" /\ index[b] # Large
  /\ Fits(b) \/ use[b] = 0
  /\ Keep(b)
  /\ UNCHANGED <<index, use, lock, gc, asks>>

(* No room for a block that has been used again: collect first. *)
FreeCollect(t, b) ==
  /\ asks[t] = NoAsk /\ lock = Null
  /\ place[b] = "used" /\ index[b] # Large
  /\ ~Fits(b) /\ use[b] > 0
  /\ lock'  = t
  /\ gc'    = [block |-> b, class |-> Classes - 1, node |-> last[Classes - 1], freed |-> 0]
  /\ place' = [place EXCEPT ![b] = "freeing"]
  /\ UNCHANGED <<listVars, index, use, current, asks>>

-----------------------------------------------------------------------------
(* garbage_collect, from the largest class down, each list from its end.    *)

Enough == gc.freed >= 2 * Size(index[gc.block])

(* Mutant: the last block of the list is not moved. *)
LastStays(n, p) == last

LastWithout(n, p) ==
  IF last[gc.class] = n THEN [last EXCEPT ![gc.class] = p] ELSE last

(* Used less often: unlinked and given back. *)
CollectNode ==
  LET n == gc.node
      p == prev[n]
      s == next[n]
  IN
  /\ lock # Null /\ n # Null /\ ~Enough
  /\ use[n] < use[gc.block]
  /\ next' = IF p # Null THEN [next EXCEPT ![p] = s] ELSE next
  /\ prev' = IF s # Null THEN [prev EXCEPT ![s] = p] ELSE prev
  /\ last' = LastWithout(n, p)
  /\ first' = IF first[gc.class] = n THEN [first EXCEPT ![gc.class] = s] ELSE first
  /\ current' = current - Size(index[n])
  /\ place' = [place EXCEPT ![n] = "system"]
  /\ gc' = [gc EXCEPT !.node = p, !.freed = @ + Size(index[n])]
  /\ UNCHANGED <<index, use, lock, asks>>

PassNode ==
  /\ lock # Null /\ gc.node # Null /\ ~Enough
  /\ use[gc.node] >= use[gc.block]
  /\ gc' = [gc EXCEPT !.node = prev[gc.node]]
  /\ UNCHANGED <<listVars, index, use, place, current, lock, asks>>

NextClass ==
  /\ lock # Null /\ gc.node = Null /\ ~Enough
  /\ gc.class > 0
  /\ gc' = [gc EXCEPT !.class = @ - 1, !.node = last[gc.class - 1]]
  /\ UNCHANGED <<listVars, index, use, place, current, lock, asks>>

(* The rest of free(). *)
CollectEnd ==
  /\ lock # Null
  /\ Enough \/ (gc.node = Null /\ gc.class = 0)
  /\ Keep(gc.block)
  /\ lock' = Null /\ gc' = NoGc
  /\ UNCHANGED <<index, use, asks>>

Collect == CollectNode \/ PassNode \/ NextClass \/ CollectEnd

-----------------------------------------------------------------------------
Next ==
  \/ \E t \in Threads, i \in Index \cup {Large} : AllocLook(t, i)
  \/ \E t \in Threads : AllocPooled(t) \/ AllocTooLate(t) \/ AllocNew(t) \/ AllocNull(t)
  \/ \E t \in Threads, b \in Blocks :
       FreeLarge(t, b) \/ Free(t, b) \/ FreeCollect(t, b)
  \/ Collect

Spec == Init /\ [][Next]_vars

-----------------------------------------------------------------------------
(* The type of every variable. *)
TypeOK ==
  /\ first \in [Index -> Pointers] /\ last \in [Index -> Pointers]
  /\ next \in [Blocks -> Pointers] /\ prev \in [Blocks -> Pointers]
  /\ index \in [Blocks -> Index \cup {Large}]
  /\ use \in [Blocks -> 0..MaxUse]
  /\ place \in [Blocks -> {"system", "used", "freeing", "pool"}]
  /\ current \in Nat
  /\ lock \in Threads \cup {Null}
  /\ gc \in [block : Pointers, class : Index, node : Pointers, freed : Nat]
  /\ lock = Null <=> gc = NoGc
  /\ asks \in [Threads -> [class : Index \cup {Large}, at : {"idle", "pool", "malloc"}]]

Pooled(i) == {b \in Blocks : place[b] = "pool" /\ index[b] = i}

(* n steps along next_ptr from the head of a list. *)
Along(i) ==
  LET node[n \in 0..Cardinality(Blocks)] ==
        IF n = 0 THEN first[i]
        ELSE IF node[n - 1] = Null THEN Null ELSE next[node[n - 1]]
  IN node

(* Each list holds the free blocks of its class, all of them and nothing     *)
(* that the caller or the system owns, and reads backwards as forwards,     *)
(* also between two turns of a garbage collection; what is counted is the   *)
(* size of the free blocks, and no more than allowed: "the largest amount   *)
(* of idle memory allowed from outside".                                    *)
ListsWhole ==
  LET SizeOf(b) == Size(index[b]) IN
  /\ \A i \in Index :
       /\ {Along(i)[n] : n \in 0..Cardinality(Blocks)} \ {Null} = Pooled(i)
       /\ Along(i)[Cardinality(Pooled(i))] = Null
       /\ \A b \in Pooled(i) :
            /\ next[b] = Null => b = last[i]
            /\ next[b] # Null => prev[next[b]] = b
            /\ prev[b] = Null <=> b = first[i]
       /\ Pooled(i) = {} => last[i] = Null
  /\ current = MapThenSumSet(SizeOf, {b \in Blocks : place[b] = "pool"})
  /\ current <= MaxSize

(* "release from the end, because the nodes at the end have been used less   *)
(* often": along a list the use counts fall.                                *)
LaterUsedLess ==
  \A b \in Blocks : place[b] = "pool" /\ next[b] # Null => use[next[b]] <= use[b]
=============================================================================
