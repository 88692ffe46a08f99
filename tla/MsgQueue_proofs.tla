---------------------------- MODULE MsgQueue_proofs ----------------------------
(***************************************************************************)
(* Theorems about MsgQueue, for any number of blocks, of io threads and of *)
(* messages.                                                               *)
(***************************************************************************)
EXTENDS MsgQueue, SequenceTheorems, TLAPS

(* A sequence that agrees with another as far as it goes is its prefix. *)
LEMMA PrefixFacts ==
  ASSUME NEW S, NEW s \in Seq(S), NEW t \in Seq(S), Len(s) <= Len(t),
         \A i \in 1..Len(s) : s[i] = t[i]
  PROVE  IsPrefix(s, t) /\ (Len(s) = Len(t) => s = t)
<1>1. Len(s) \in Nat /\ Len(t) \in Nat /\ \A i \in 1..Len(s) : s[i] \in S /\ t[i] \in S
  OBVIOUS
<1>2. SubSeq(s, 1, Len(s)) = s
  BY SubSeqFull
<1>3. /\ SubSeq(t, 1, Len(s)) \in Seq(S) /\ Len(SubSeq(t, 1, Len(s))) = Len(s)
      /\ \A i \in 1..Len(s) : SubSeq(t, 1, Len(s))[i] = t[i]
  BY <1>1, SubSeqProperties
<1>4. SubSeq(t, 1, Len(s)) = s
  BY <1>1, <1>3, SeqEqual
<1>5. Len(s) = Len(t) => s = t
  BY SeqEqual
<1> QED
  BY <1>2, <1>4, <1>5 DEF IsPrefix

(* The position of the first message whose block is not free: the one that    *)
(* was handled last until it is freed, then the one after it.                *)
First == IF spent = Null THEN Len(handled) + 1 ELSE Len(handled)

(* What the io threads hold is theirs alone, ends a chain and has a number. *)
MineInv ==
  /\ \A p \in Producers : mine[p] # Null =>
       /\ mine[p] \notin free /\ next[mine[p]] = Null
       /\ text[mine[p]] \in 1..MaxMsgs
  /\ \A p, q \in Producers : mine[p] # Null /\ mine[p] = mine[q] => p = q

(* The pointers of the two threads, when f says which block has (or had) the *)
(* message of each enqueue call and the first m were dequeued.               *)
Links(f, m) ==
  /\ \A i \in First..Len(enqueued) :
       next[f[i]] = IF i = m \/ i = Len(enqueued) THEN Null ELSE f[i + 1]
  /\ spent # Null => Len(handled) > 0 /\ spent = f[Len(handled)]
  /\ \/ cursor = IF Len(handled) < m THEN f[Len(handled) + 1] ELSE Null
     \/ spent # Null /\ cursor = spent
  /\ head = IF m < Len(enqueued) THEN f[m + 1] ELSE Null
  /\ tail = IF m < Len(enqueued) THEN f[Len(enqueued)] ELSE Null

(* No two of these blocks are the same, and nobody else has one. *)
Apart(f) ==
  /\ \A i, j \in First..Len(enqueued) : f[i] = f[j] => i = j
  /\ \A i \in First..Len(enqueued) :
       f[i] \notin free /\ \A p \in Producers : mine[p] # f[i]

(* The messages that were handled, and those in the blocks. *)
Texts(f) ==
  /\ \A i \in 1..Len(handled) : handled[i] = enqueued[i]
  /\ \A i \in Len(handled) + 1..Len(enqueued) : text[f[i]] = enqueued[i]

(* The blocks f has are the messages of the enqueue calls, and m were         *)
(* dequeued.                                                                  *)
Chain(f, m) ==
  Len(handled) <= m /\ m <= Len(enqueued) /\ Links(f, m) /\ Apart(f) /\ Texts(f)

(* There are such f and m.                                                    *)
ChainInv == \E f \in [1..Len(enqueued) -> Blocks], m \in 0..Len(enqueued) : Chain(f, m)

(* TypeOK, one variable at a time.                                            *)
LEMMA TypeParts ==
  ASSUME MsgQueueAssumption, TypeOK
  PROVE  /\ next \in [Blocks -> Pointers] /\ text \in [Blocks -> 0..MaxMsgs]
         /\ free \subseteq Blocks /\ mine \in [Producers -> Pointers]
         /\ head \in Pointers /\ tail \in Pointers /\ cursor \in Pointers /\ spent \in Pointers
         /\ received \in 0..MaxMsgs /\ MaxMsgs \in Nat
         /\ enqueued \in Seq(1..MaxMsgs) /\ handled \in Seq(1..MaxMsgs)
         /\ Len(enqueued) \in Nat /\ Len(handled) \in Nat
         /\ head = Null <=> tail = Null
         /\ Null \notin Blocks /\ Pointers = Blocks \cup {Null}
BY DEF TypeOK, MsgQueueAssumption, Pointers

(* Where First is, in numbers. *)
LEMMA FirstFacts ==
  ASSUME MsgQueueAssumption, TypeOK, NEW f, NEW m, Chain(f, m)
  PROVE  /\ First \in Nat \ {0} /\ Len(handled) <= First /\ First <= Len(handled) + 1
         /\ spent = Null => First = Len(handled) + 1
         /\ spent # Null => First = Len(handled)
BY TypeParts DEF First, Chain, Links

(* The inductive invariant holds at the start.                                *)
LEMMA InitAll ==
  ASSUME MsgQueueAssumption, Init
  PROVE  TypeOK /\ MineInv /\ ChainInv
<1>1. TypeOK
  BY DEF MsgQueueAssumption, Init, TypeOK, Pointers
<1>2. MineInv
  BY DEF Init, MineInv
<1>3. ChainInv
  <2>1. [i \in 1..0 |-> Null] \in [1..Len(enqueued) -> Blocks] /\ 0 \in 0..Len(enqueued)
    BY DEF Init
  <2>2. Chain([i \in 1..0 |-> Null], 0)
    BY DEF Init, Chain, Links, Apart, Texts, First
  <2> QED
    BY <2>1, <2>2 DEF ChainInv
<1> QED
  BY <1>1, <1>2, <1>3

(* A step that leaves the blocks in place and f as it is. *)
LEMMA ChainWitness ==
  ASSUME NEW f \in [1..Len(enqueued') -> Blocks], NEW m \in 0..Len(enqueued'),
         Len(handled') <= m, m <= Len(enqueued'), Links(f, m)', Apart(f)', Texts(f)'
  PROVE  ChainInv'
BY DEF ChainInv, Chain

(* A stuttering step keeps the chain.                                         *)
LEMMA ChainStays ==
  ASSUME MsgQueueAssumption, TypeOK, ChainInv, UNCHANGED vars
  PROVE  ChainInv'
<1>1. PICK f \in [1..Len(enqueued) -> Blocks], m \in 0..Len(enqueued) : Chain(f, m)
  BY DEF ChainInv
<1>2. UNCHANGED <<next, text, free, head, tail, mine, cursor, spent, enqueued, handled, First>>
  BY DEF vars, queueVars, mainVars, First
<1>3. Links(f, m)' /\ Apart(f)' /\ Texts(f)'
  BY <1>1, <1>2 DEF Chain, Links, Apart, Texts
<1> QED
  BY <1>1, <1>2, <1>3, ChainWitness DEF Chain

(* Every step keeps the types.                                                *)
LEMMA NextTypeOK ==
  ASSUME MsgQueueAssumption, TypeOK, MineInv, ChainInv, [Next]_vars
  PROVE  TypeOK'
<1>1. CASE UNCHANGED vars
  BY <1>1 DEF TypeOK, vars, queueVars, mainVars
<1>2. CASE DequeueNothing
  BY <1>1, <1>2 DEF DequeueNothing
<1>3. ASSUME NEW p \in Producers, AllocMe(p) PROVE TypeOK'
  <2>1. PICK b \in free :
          /\ next' = [next EXCEPT ![b] = Null] /\ text' = [text EXCEPT ![b] = received + 1]
          /\ mine' = [mine EXCEPT ![p] = b] /\ free' = free \ {b}
    BY <1>3 DEF AllocMe, FreshNext
  <2>2. received' \in 0..MaxMsgs /\ received' = received + 1
    BY <1>3, TypeParts DEF AllocMe
  <2>3. /\ next' \in [Blocks -> Pointers] /\ mine' \in [Producers -> Pointers]
        /\ free' \subseteq Blocks
    BY <2>1, TypeParts
  <2>4. text' \in [Blocks -> 0..MaxMsgs]
    BY <2>1, <2>2, TypeParts
  <2> QED
    BY <1>3, <2>2, <2>3, <2>4 DEF AllocMe, TypeOK, queueVars, mainVars
<1>4. ASSUME NEW p \in Producers, Enqueue(p) PROVE TypeOK'
  <2>1. mine[p] \in Blocks /\ text[mine[p]] \in 1..MaxMsgs
    BY <1>4, TypeParts DEF Enqueue, MineInv
  <2>2. enqueued' \in Seq(1..MaxMsgs)
    BY <1>4, <2>1, TypeParts DEF Enqueue
  <2>3. mine' \in [Producers -> Pointers]
    BY <1>4, TypeParts DEF Enqueue
  <2>4. next' \in [Blocks -> Pointers]
    BY <1>4, <2>1, TypeParts DEF Enqueue
  <2>5. head' \in Pointers /\ tail' \in Pointers /\ (head' = Null <=> tail' = Null)
    BY <1>4, <2>1, TypeParts DEF Enqueue
  <2> QED
    BY <1>4, <2>2, <2>3, <2>4, <2>5 DEF Enqueue, TypeOK, mainVars
<1>5. CASE Dequeue
  BY <1>5 DEF Dequeue, TypeOK
<1>6. CASE Handle
  <2>1. PICK f \in [1..Len(enqueued) -> Blocks], m \in 0..Len(enqueued) : Chain(f, m)
    BY DEF ChainInv
  <2>2. text[cursor] \in 1..MaxMsgs
    <3>1. Len(handled) < m /\ cursor = f[Len(handled) + 1]
      BY <1>6, <2>1 DEF Handle, Chain, Links
    <3>2. Len(handled) + 1 \in Len(handled) + 1..Len(enqueued) /\ Len(handled) + 1 \in 1..Len(enqueued)
      BY <3>1, TypeParts
    <3>3. text[cursor] = enqueued[Len(handled) + 1]
      BY <2>1, <3>1, <3>2 DEF Chain, Texts
    <3> QED
      BY <3>2, <3>3, TypeParts
  <2>3. handled' \in Seq(1..MaxMsgs)
    BY <1>6, <2>2, TypeParts DEF Handle
  <2> QED
    BY <1>6, <2>3 DEF Handle, TypeOK, queueVars
<1>7. CASE Step
  <2>1. cursor' \in Pointers
    BY <1>7, TypeParts DEF Step
  <2> QED
    BY <1>7, <2>1 DEF Step, TypeOK, queueVars
<1>8. CASE FreeMe
  <2>1. free' \subseteq Blocks /\ spent' \in Pointers
    BY <1>8, TypeParts DEF FreeMe
  <2> QED
    BY <1>8, <2>1 DEF FreeMe, TypeOK, queueVars
<1> QED
  BY <1>1, <1>2, <1>3, <1>4, <1>5, <1>6, <1>7, <1>8 DEF Next, Main

(* Every step keeps MineInv.                                                  *)
LEMMA NextMineInv ==
  ASSUME MsgQueueAssumption, TypeOK, MineInv, ChainInv, [Next]_vars
  PROVE  MineInv'
<1>1. CASE UNCHANGED vars
  BY <1>1 DEF MineInv, vars, queueVars, mainVars
<1>2. CASE DequeueNothing
  BY <1>1, <1>2 DEF DequeueNothing
<1>3. ASSUME NEW p \in Producers, AllocMe(p) PROVE MineInv'
  <2>1. PICK b \in free :
          /\ next' = [next EXCEPT ![b] = Null] /\ text' = [text EXCEPT ![b] = received + 1]
          /\ mine' = [mine EXCEPT ![p] = b] /\ free' = free \ {b}
    BY <1>3 DEF AllocMe, FreshNext
  <2>2. b \in Blocks /\ next'[b] = Null /\ text'[b] \in 1..MaxMsgs
    BY <1>3, <2>1, TypeParts DEF AllocMe
  <2>3. mine'[p] = b /\ \A q \in Producers : q # p => mine'[q] = mine[q]
    BY <2>1, TypeParts
  <2>4. \A c \in Blocks : c # b => next'[c] = next[c] /\ text'[c] = text[c]
    BY <2>1, TypeParts
  <2>5. \A q \in Producers : mine[q] # Null => mine[q] \in Blocks /\ mine[q] # b
    BY TypeParts DEF MineInv
  <2>6. (\A q \in Producers : mine[q] # Null =>
           mine[q] \notin free /\ next[mine[q]] = Null /\ text[mine[q]] \in 1..MaxMsgs)'
    BY <2>1, <2>2, <2>3, <2>4, <2>5 DEF MineInv
  <2>7. (\A q, r \in Producers : mine[q] # Null /\ mine[q] = mine[r] => q = r)'
    BY <2>3, <2>5 DEF MineInv
  <2> QED
    BY <2>6, <2>7 DEF MineInv
<1>4. ASSUME NEW p \in Producers, Enqueue(p) PROVE MineInv'
  <2>1. PICK f \in [1..Len(enqueued) -> Blocks], m \in 0..Len(enqueued) : Chain(f, m)
    BY DEF ChainInv
  <2>2. mine'[p] = Null /\ \A q \in Producers : q # p => mine'[q] = mine[q]
    BY <1>4, TypeParts DEF Enqueue
  <2>3. \A q \in Producers : mine[q] # Null => mine[q] # tail
    <3>1. CASE tail = Null
      BY <3>1
    <3>2. CASE tail # Null
      <4>1. tail = f[Len(enqueued)] /\ m < Len(enqueued)
        BY <2>1, <3>2 DEF Chain, Links
      <4>2. Len(enqueued) \in First..Len(enqueued)
        BY <2>1, <4>1, FirstFacts, TypeParts DEF Chain
      <4> QED
        BY <2>1, <4>1, <4>2 DEF Chain, Apart
    <3> QED
      BY <3>1, <3>2
  <2>4. \A c \in Blocks : c # tail => next'[c] = next[c]
    BY <1>4, TypeParts DEF Enqueue
  <2>5. UNCHANGED <<free, text>>
    BY <1>4 DEF Enqueue
  <2>6. (\A q \in Producers : mine[q] # Null =>
           mine[q] \notin free /\ next[mine[q]] = Null /\ text[mine[q]] \in 1..MaxMsgs)'
    <3>1. \A q \in Producers : mine[q] # Null => mine[q] \in Blocks
      BY TypeParts
    <3> QED
      BY <2>2, <2>3, <2>4, <2>5, <3>1 DEF MineInv
  <2>7. (\A q, r \in Producers : mine[q] # Null /\ mine[q] = mine[r] => q = r)'
    BY <2>2 DEF MineInv
  <2> QED
    BY <2>6, <2>7 DEF MineInv
<1>5. CASE Dequeue
  BY <1>5 DEF Dequeue, MineInv, queueVars, mainVars
<1>6. CASE Handle
  BY <1>6 DEF Handle, MineInv, queueVars, mainVars
<1>7. CASE Step
  BY <1>7 DEF Step, MineInv, queueVars, mainVars
<1>8. CASE FreeMe
  <2>1. PICK f \in [1..Len(enqueued) -> Blocks], m \in 0..Len(enqueued) : Chain(f, m)
    BY DEF ChainInv
  <2>2. spent = f[Len(handled)] /\ Len(handled) \in First..Len(enqueued)
    <3>1. spent # Null
      BY <1>8 DEF FreeMe
    <3>2. spent = f[Len(handled)] /\ First = Len(handled)
      BY <2>1, <3>1, FirstFacts DEF Chain, Links
    <3>3. Len(handled) <= m /\ m <= Len(enqueued) /\ m \in Nat /\ Len(handled) \in Nat
      BY <2>1, TypeParts DEF Chain
    <3> QED
      BY <3>2, <3>3, TypeParts
  <2>3. \A q \in Producers : mine[q] # spent
    BY <2>1, <2>2 DEF Chain, Apart
  <2> QED
    BY <1>8, <2>3 DEF FreeMe, MineInv
<1> QED
  BY <1>1, <1>2, <1>3, <1>4, <1>5, <1>6, <1>7, <1>8 DEF Next, Main

(* Every step keeps ChainInv.                                                 *)
LEMMA NextChainInv ==
  ASSUME MsgQueueAssumption, TypeOK, MineInv, ChainInv, [Next]_vars
  PROVE  ChainInv'
<1>1. CASE UNCHANGED vars
  BY <1>1, ChainStays
<1>2. CASE DequeueNothing
  BY <1>1, <1>2 DEF DequeueNothing
<1>3. ASSUME NEW p \in Producers, AllocMe(p) PROVE ChainInv'
  <2>1. PICK f \in [1..Len(enqueued) -> Blocks], m \in 0..Len(enqueued) : Chain(f, m)
    BY DEF ChainInv
  <2>2. PICK b \in free :
          /\ next' = [next EXCEPT ![b] = Null] /\ text' = [text EXCEPT ![b] = received + 1]
          /\ mine' = [mine EXCEPT ![p] = b] /\ free' = free \ {b}
    BY <1>3 DEF AllocMe, FreshNext
  <2>3. UNCHANGED <<head, tail, cursor, spent, enqueued, handled, First>>
    BY <1>3 DEF AllocMe, queueVars, mainVars, First
  <2>4. \A i \in First..Len(enqueued) : i \in 1..Len(enqueued) /\ f[i] \in Blocks /\ f[i] # b
    <3>1. \A i \in First..Len(enqueued) : i \in 1..Len(enqueued)
      BY <2>1, FirstFacts, TypeParts
    <3> QED
      BY <2>1, <2>2, <3>1 DEF Chain, Apart
  <2>5. \A c \in Blocks : c # b => next'[c] = next[c] /\ text'[c] = text[c]
    BY <2>2, TypeParts
  <2>6. Links(f, m)'
    BY <2>1, <2>3, <2>4, <2>5 DEF Chain, Links
  <2>7. Apart(f)'
    <3>1. \A q \in Producers : mine'[q] = mine[q] \/ mine'[q] = b
      BY <2>2, TypeParts
    <3> QED
      BY <2>1, <2>2, <2>3, <2>4, <3>1 DEF Chain, Apart
  <2>8. Texts(f)'
    <3>1. \A i \in Len(handled) + 1..Len(enqueued) : i \in First..Len(enqueued)
      BY <2>1, FirstFacts, TypeParts
    <3> QED
      BY <2>1, <2>3, <2>4, <2>5, <3>1 DEF Chain, Texts
  <2> QED
    BY <2>1, <2>3, <2>6, <2>7, <2>8, ChainWitness DEF Chain
<1>4. ASSUME NEW p \in Producers, Enqueue(p) PROVE ChainInv'
  <2>1. PICK f \in [1..Len(enqueued) -> Blocks], m \in 0..Len(enqueued) : Chain(f, m)
    BY DEF ChainInv
  <2> DEFINE n == Len(enqueued)
  <2>2. mine[p] \in Blocks /\ n \in Nat
    BY <1>4, TypeParts DEF Enqueue
  <2>3. /\ Len(enqueued') = n + 1 /\ enqueued'[n + 1] = text[mine[p]]
        /\ \A i \in 1..n : enqueued'[i] = enqueued[i]
    BY <1>4, TypeParts DEF Enqueue
  <2>4. UNCHANGED <<text, free, cursor, spent, handled, First>>
    BY <1>4 DEF Enqueue, mainVars, First
  <2>5. mine'[p] = Null /\ \A q \in Producers : q # p => mine'[q] = mine[q]
    BY <1>4, TypeParts DEF Enqueue
  <2>6. /\ First \in Nat \ {0} /\ First <= n + 1 /\ m \in Nat /\ m <= n
        /\ Len(handled) \in Nat /\ Len(handled) <= m
        /\ Len(handled) <= First /\ First <= Len(handled) + 1
    BY <2>1, FirstFacts, TypeParts DEF Chain
  <2>7. PICK g \in [1..n + 1 -> Blocks] :
          g[n + 1] = mine[p] /\ \A i \in 1..n : g[i] = f[i] /\ f[i] \in Blocks
    <3> DEFINE e == [i \in 1..n + 1 |-> IF i = n + 1 THEN mine[p] ELSE f[i]]
    <3>1. e \in [1..n + 1 -> Blocks] /\ e[n + 1] = mine[p] /\ \A i \in 1..n : e[i] = f[i]
      BY <2>2
    <3>2. \A i \in 1..n : f[i] \in Blocks
      BY <2>2
    <3> QED
      BY <3>1, <3>2
  <2>8. \A i \in First..n : i \in 1..n /\ f[i] # mine[p]
    BY <2>1, <2>6 DEF Chain, Apart
  <2>9. /\ mine[p] \notin free /\ next[mine[p]] = Null
        /\ \A q \in Producers : q # p => mine[q] # mine[p]
    BY <1>4 DEF Enqueue, MineInv
  <2>10. First' = First /\ Len(handled') = Len(handled)
    BY <2>4
  <2>11. Apart(g)'
    <3>1. (\A i, j \in First..Len(enqueued) : g[i] = g[j] => i = j)'
      <4> SUFFICES ASSUME NEW i \in First..n + 1, NEW j \in First..n + 1, g[i] = g[j]
                   PROVE  i = j
        BY <2>3, <2>10
      <4>1. i \in First..n \/ i = n + 1
        BY <2>6
      <4>2. j \in First..n \/ j = n + 1
        BY <2>6
      <4>3. i \in First..n /\ j \in First..n => i = j
        BY <2>1, <2>7, <2>8 DEF Chain, Apart
      <4> QED
        BY <2>7, <2>8, <4>1, <4>2, <4>3
    <3>2. ASSUME NEW i \in First..n + 1
          PROVE  g[i] \notin free /\ \A q \in Producers : mine'[q] # g[i]
      <4>1. i \in First..n \/ i = n + 1
        BY <2>6
      <4>2. CASE i = n + 1
        BY <2>2, <2>5, <2>7, <2>9, <4>2, TypeParts
      <4>3. CASE i \in First..n
        <5>1. g[i] = f[i] /\ f[i] \in Blocks /\ f[i] \notin free
              /\ \A q \in Producers : mine[q] # f[i]
          BY <2>1, <2>7, <2>8, <4>3 DEF Chain, Apart
        <5> QED
          BY <2>5, <5>1, TypeParts
      <4> QED
        BY <4>1, <4>2, <4>3
    <3>3. (\A i \in First..Len(enqueued) :
             g[i] \notin free /\ \A q \in Producers : mine[q] # g[i])'
      BY <2>3, <2>4, <2>10, <3>2
    <3> QED
      BY <3>1, <3>3 DEF Apart
  <2>12. Texts(g)'
    <3>1. \A i \in 1..Len(handled) : handled[i] = enqueued'[i]
      <4>1. \A i \in 1..Len(handled) : i \in 1..n
        BY <2>6
      <4> QED
        BY <2>1, <2>3, <4>1 DEF Chain, Texts
    <3>2. ASSUME NEW i \in Len(handled) + 1..n + 1
          PROVE  text[g[i]] = enqueued'[i]
      <4>1. i \in Len(handled) + 1..n \/ i = n + 1
        BY <2>6
      <4>2. i \in Len(handled) + 1..n => i \in 1..n
        BY <2>6
      <4>3. i \in Len(handled) + 1..n => text[f[i]] = enqueued[i]
        BY <2>1 DEF Chain, Texts
      <4> QED
        BY <2>3, <2>7, <4>1, <4>2, <4>3
    <3> QED
      BY <2>3, <2>4, <3>1, <3>2 DEF Texts
  <2>13. next'[mine[p]] = Null
    <3>1. tail # Null => tail # mine[p]
      <4>1. tail # Null => tail = f[n] /\ m < n
        BY <2>1 DEF Chain, Links
      <4>2. m < n => n \in First..n
        BY <2>6
      <4> QED
        BY <2>8, <4>1, <4>2
    <3> QED
      BY <1>4, <2>2, <2>9, <3>1, TypeParts DEF Enqueue
  <2>14. ASSUME NEW i \in First..n
         PROVE  next'[g[i]] = IF i = m THEN Null ELSE g[i + 1]
    <3>1. /\ i \in 1..n /\ f[i] \in Blocks /\ g[i] = f[i]
          /\ next[f[i]] = IF i = m \/ i = n THEN Null ELSE f[i + 1]
      BY <2>1, <2>7, <2>8 DEF Chain, Links
    <3>2. CASE tail = Null
      <4>1. m = n /\ next' = next
        <5>1. m < n => tail = f[n] /\ n \in 1..n
          BY <2>1, <2>6 DEF Chain, Links
        <5>2. ~ (m < n)
          BY <2>7, <3>2, <5>1, TypeParts
        <5> QED
          BY <1>4, <2>6, <3>2, <5>2 DEF Enqueue
      <4>2. i # m => i + 1 \in 1..n
        BY <2>6, <3>1, <4>1
      <4> QED
        BY <2>7, <3>1, <4>1, <4>2
    <3>3. CASE tail # Null
      <4>1. tail = f[n] /\ m < n
        BY <2>1, <3>3 DEF Chain, Links
      <4>2. n \in First..n /\ f[n] \in Blocks
        BY <2>6, <2>7, <4>1
      <4>3. i # n => f[i] # f[n]
        BY <2>1, <4>2 DEF Chain, Apart
      <4>4. next' = [next EXCEPT ![f[n]] = mine[p]]
        BY <1>4, <3>3, <4>1 DEF Enqueue
      <4>5. CASE i = n
        <5>1. next'[f[n]] = mine[p]
          BY <4>2, <4>4, TypeParts
        <5> QED
          BY <2>7, <3>1, <4>1, <4>5, <5>1, <2>6
      <4>6. CASE i # n
        <5>1. next'[f[i]] = next[f[i]]
          BY <3>1, <4>3, <4>4, <4>6, TypeParts
        <5>2. i + 1 \in 1..n
          BY <2>2, <3>1, <4>6
        <5> QED
          BY <2>7, <3>1, <4>6, <5>1, <5>2
      <4> QED
        BY <4>5, <4>6
    <3> QED
      BY <3>2, <3>3
  <2>15. head' = g[m + 1] /\ tail' = g[n + 1]
    <3>1. CASE tail = Null
      <4>1. m < n => tail = f[n] /\ n \in 1..n
        BY <2>1, <2>6 DEF Chain, Links
      <4>2. m = n
        BY <2>6, <2>7, <3>1, <4>1, TypeParts
      <4> QED
        BY <1>4, <2>7, <3>1, <4>2 DEF Enqueue
    <3>2. CASE tail # Null
      <4>1. m < n /\ head = f[m + 1]
        BY <2>1, <3>2 DEF Chain, Links
      <4>2. m + 1 \in 1..n
        BY <2>6, <4>1
      <4> QED
        BY <1>4, <2>7, <3>2, <4>1, <4>2 DEF Enqueue
    <3> QED
      BY <3>1, <3>2
  <2>16. /\ spent # Null => Len(handled) > 0 /\ spent = g[Len(handled)]
         /\ \/ cursor = IF Len(handled) < m THEN g[Len(handled) + 1] ELSE Null
            \/ spent # Null /\ cursor = spent
    <3>1. Len(handled) < m => Len(handled) + 1 \in 1..n
      BY <2>6
    <3>2. Len(handled) > 0 => Len(handled) \in 1..n
      BY <2>6
    <3> QED
      BY <2>1, <2>7, <3>1, <3>2 DEF Chain, Links
  <2>17. Links(g, m)'
    <3>1. ASSUME NEW i \in First..n + 1
          PROVE  next'[g[i]] = IF i = m \/ i = n + 1 THEN Null ELSE g[i + 1]
      <4>1. (i \in First..n /\ i # n + 1) \/ i = n + 1
        BY <2>6
      <4> QED
        BY <2>7, <2>13, <2>14, <4>1
    <3>2. m < n + 1
      BY <2>6
    <3> QED
      BY <2>3, <2>4, <2>15, <2>16, <3>1, <3>2 DEF Links
  <2>18. g \in [1..Len(enqueued') -> Blocks] /\ m \in 0..Len(enqueued') /\ m <= Len(enqueued')
    BY <2>3, <2>6, <2>7
  <2> QED
    BY <2>6, <2>10, <2>11, <2>12, <2>17, <2>18, ChainWitness
<1>5. CASE Dequeue
  <2>1. PICK f \in [1..Len(enqueued) -> Blocks], m \in 0..Len(enqueued) : Chain(f, m)
    BY DEF ChainInv
  <2> DEFINE n == Len(enqueued)
             h == Len(handled)
  <2>2. UNCHANGED <<next, text, free, mine, spent, enqueued, handled, First>>
    BY <1>5 DEF Dequeue, First
  <2>3. /\ spent = Null /\ cursor = Null /\ cursor' = head
        /\ head # Null /\ head' = Null /\ tail' = Null
    BY <1>5 DEF Dequeue
  <2>4. /\ n \in Nat /\ h \in Nat /\ m \in Nat /\ h <= m /\ m <= n /\ First = h + 1
    BY <2>1, <2>3, FirstFacts, TypeParts DEF Chain
  <2>5. h = m
    <3>1. h < m => cursor = f[h + 1] /\ h + 1 \in 1..n
      BY <2>1, <2>3, <2>4 DEF Chain, Links
    <3> QED
      BY <2>3, <2>4, <3>1, TypeParts
  <2>6. m < n /\ head = f[m + 1]
    BY <2>1, <2>3 DEF Chain, Links
  <2>7. Links(f, n)'
    <3>1. ASSUME NEW i \in First..n
          PROVE  next[f[i]] = IF i = n THEN Null ELSE f[i + 1]
      <4>1. i # m
        BY <2>4, <2>5
      <4> QED
        BY <2>1, <4>1 DEF Chain, Links
    <3> QED
      BY <2>2, <2>3, <2>5, <2>6, <3>1, <2>4 DEF Links
  <2>8. Apart(f)' /\ Texts(f)'
    BY <2>1, <2>2 DEF Chain, Apart, Texts
  <2>9. n \in 0..Len(enqueued') /\ Len(handled') <= n /\ n <= Len(enqueued')
        /\ f \in [1..Len(enqueued') -> Blocks]
    BY <2>1, <2>2, <2>4
  <2> QED
    BY <2>7, <2>8, <2>9, ChainWitness
<1>6. CASE Handle
  <2>1. PICK f \in [1..Len(enqueued) -> Blocks], m \in 0..Len(enqueued) : Chain(f, m)
    BY DEF ChainInv
  <2> DEFINE n == Len(enqueued)
             h == Len(handled)
  <2>2. UNCHANGED <<next, text, free, mine, head, tail, cursor, enqueued>>
    BY <1>6 DEF Handle, queueVars
  <2>3. cursor # Null /\ spent = Null /\ spent' = cursor
    BY <1>6 DEF Handle
  <2>4. /\ n \in Nat /\ h \in Nat /\ m \in Nat /\ h <= m /\ m <= n /\ First = h + 1
    BY <2>1, <2>3, FirstFacts, TypeParts DEF Chain
  <2>5. h < m /\ cursor = f[h + 1]
    BY <2>1, <2>3 DEF Chain, Links
  <2>6. /\ Len(handled') = h + 1 /\ handled'[h + 1] = text[cursor]
        /\ \A i \in 1..h : handled'[i] = handled[i]
    BY <1>6, TypeParts DEF Handle
  <2>7. First' = First
    BY <2>3, <2>4, <2>6 DEF First
  <2>8. Links(f, m)'
    BY <2>1, <2>2, <2>3, <2>4, <2>5, <2>6, <2>7 DEF Chain, Links
  <2>9. Apart(f)'
    BY <2>1, <2>2, <2>7 DEF Chain, Apart
  <2>10. Texts(f)'
    <3>1. h + 1 \in h + 1..n
      BY <2>4, <2>5
    <3>2. text[cursor] = enqueued[h + 1]
      BY <2>1, <2>5, <3>1 DEF Chain, Texts
    <3>3. \A i \in 1..h + 1 : i \in 1..h \/ i = h + 1
      BY <2>4
    <3>4. \A i \in 1..h + 1 : handled'[i] = enqueued[i]
      BY <2>1, <2>6, <3>2, <3>3 DEF Chain, Texts
    <3>5. \A i \in (h + 1) + 1..n : i \in h + 1..n
      BY <2>4
    <3>6. \A i \in (h + 1) + 1..n : text[f[i]] = enqueued[i]
      BY <2>1, <3>5 DEF Chain, Texts
    <3> QED
      BY <2>2, <2>6, <3>4, <3>6 DEF Texts
  <2>11. m \in 0..Len(enqueued') /\ Len(handled') <= m /\ m <= Len(enqueued')
         /\ f \in [1..Len(enqueued') -> Blocks]
    BY <2>1, <2>2, <2>4, <2>5, <2>6
  <2> QED
    BY <2>8, <2>9, <2>10, <2>11, ChainWitness
<1>7. CASE Step
  <2>1. PICK f \in [1..Len(enqueued) -> Blocks], m \in 0..Len(enqueued) : Chain(f, m)
    BY DEF ChainInv
  <2> DEFINE n == Len(enqueued)
             h == Len(handled)
  <2>2. UNCHANGED <<next, text, free, mine, head, tail, spent, enqueued, handled, First>>
    BY <1>7 DEF Step, queueVars, First
  <2>3. spent # Null /\ cursor = spent /\ cursor' = next[cursor]
    BY <1>7 DEF Step
  <2>4. /\ n \in Nat /\ h \in Nat /\ m \in Nat /\ h <= m /\ m <= n /\ First = h
    BY <2>1, <2>3, FirstFacts, TypeParts DEF Chain
  <2>5. spent = f[h] /\ h \in First..n
    BY <2>1, <2>3, <2>4 DEF Chain, Links
  <2>6. next[f[h]] = IF h = m \/ h = n THEN Null ELSE f[h + 1]
    BY <2>1, <2>5 DEF Chain, Links
  <2>7. cursor' = IF h < m THEN f[h + 1] ELSE Null
    BY <2>3, <2>4, <2>5, <2>6
  <2>8. Links(f, m)'
    BY <2>1, <2>2, <2>7 DEF Chain, Links
  <2>9. Apart(f)' /\ Texts(f)'
    BY <2>1, <2>2 DEF Chain, Apart, Texts
  <2> QED
    BY <2>1, <2>2, <2>8, <2>9, ChainWitness DEF Chain
<1>8. CASE FreeMe
  <2>1. PICK f \in [1..Len(enqueued) -> Blocks], m \in 0..Len(enqueued) : Chain(f, m)
    BY DEF ChainInv
  <2> DEFINE n == Len(enqueued)
             h == Len(handled)
  <2>2. UNCHANGED <<next, text, mine, head, tail, cursor, enqueued, handled>>
    BY <1>8 DEF FreeMe, queueVars
  <2>3. /\ spent # Null /\ cursor # spent /\ spent' = Null
        /\ free' = free \cup {spent}
    BY <1>8 DEF FreeMe
  <2>4. /\ n \in Nat /\ h \in Nat /\ m \in Nat /\ h <= m /\ m <= n /\ First = h
    BY <2>1, <2>3, FirstFacts, TypeParts DEF Chain
  <2>5. First' = h + 1
    BY <2>2, <2>3 DEF First
  <2>6. spent = f[h] /\ h \in First..n
    BY <2>1, <2>3, <2>4 DEF Chain, Links
  <2>7. \A i \in h + 1..n : i \in First..n /\ i # h
    BY <2>4
  <2>8. \A i \in h + 1..n : f[i] # spent
    BY <2>1, <2>6, <2>7 DEF Chain, Apart
  <2>9. Links(f, m)'
    BY <2>1, <2>2, <2>3, <2>5, <2>7 DEF Chain, Links
  <2>10. Apart(f)'
    BY <2>1, <2>2, <2>3, <2>5, <2>7, <2>8 DEF Chain, Apart
  <2>11. Texts(f)'
    BY <2>1, <2>2 DEF Chain, Texts
  <2> QED
    BY <2>1, <2>2, <2>9, <2>10, <2>11, ChainWitness DEF Chain
<1> QED
  BY <1>1, <1>2, <1>3, <1>4, <1>5, <1>6, <1>7, <1>8 DEF Next, Main

(* Every variable has its type, in every reachable state.                   *)
THEOREM TypeCorrect ==
  ASSUME MsgQueueAssumption
  PROVE  Spec => []TypeOK
<1>1. Init => TypeOK /\ MineInv /\ ChainInv
  BY InitAll
<1>2. TypeOK /\ MineInv /\ ChainInv /\ [Next]_vars => (TypeOK /\ MineInv /\ ChainInv)'
  BY NextTypeOK, NextMineInv, NextChainInv
<1> QED
  BY <1>1, <1>2, PTL DEF Spec

(* What the chain says of the messages handled.                               *)
LEMMA ChainHandled ==
  ASSUME MsgQueueAssumption, TypeOK, ChainInv
  PROVE  HandledInOrder
<1>1. PICK f \in [1..Len(enqueued) -> Blocks], m \in 0..Len(enqueued) : Chain(f, m)
  BY DEF ChainInv
<1>2. Len(handled) <= m /\ m <= Len(enqueued) /\ m \in Nat
  BY <1>1, TypeParts DEF Chain
<1>3. \A i \in 1..Len(handled) : handled[i] = enqueued[i]
  BY <1>1 DEF Chain, Texts
<1>4. IsPrefix(handled, enqueued) /\ (Len(handled) = Len(enqueued) => handled = enqueued)
  BY <1>2, <1>3, PrefixFacts, TypeParts
<1>5. ASSUME head = Null, cursor = Null PROVE Len(handled) = Len(enqueued)
  <2>1. \A i \in 1..Len(enqueued) : f[i] # Null
    BY TypeParts
  <2>2. m < Len(enqueued) => head = f[m + 1] /\ m + 1 \in 1..Len(enqueued)
    BY <1>1, <1>2, TypeParts DEF Chain, Links
  <2>3. m = Len(enqueued)
    BY <1>2, <1>5, <2>1, <2>2, TypeParts
  <2>4. Len(handled) < m => cursor = f[Len(handled) + 1] /\ Len(handled) + 1 \in 1..Len(enqueued)
    BY <1>1, <1>2, <1>5, TypeParts DEF Chain, Links
  <2> QED
    BY <1>2, <1>5, <2>1, <2>3, <2>4, TypeParts
<1> QED
  BY <1>4, <1>5 DEF HandledInOrder

(***************************************************************************)
(* Every message is handled once, in the order of the enqueue calls, and   *)
(* none is left behind in an empty queue: however many io threads enqueue, *)
(* and although the main thread follows the chain it took without the lock *)
(* while its blocks are freed and used again                               *)
(* (src/wlib/wnet_msg_queue.cpp, _process_msg of wwan_server.cpp).         *)
(***************************************************************************)
THEOREM MessagesHandledInOrder ==
  ASSUME MsgQueueAssumption
  PROVE  Spec => []HandledInOrder
<1>1. Init => TypeOK /\ MineInv /\ ChainInv
  BY InitAll
<1>2. TypeOK /\ MineInv /\ ChainInv /\ [Next]_vars => (TypeOK /\ MineInv /\ ChainInv)'
  BY NextTypeOK, NextMineInv, NextChainInv
<1>3. TypeOK /\ MineInv /\ ChainInv => HandledInOrder
  BY ChainHandled
<1> QED
  BY <1>1, <1>2, <1>3, PTL DEF Spec
=============================================================================
